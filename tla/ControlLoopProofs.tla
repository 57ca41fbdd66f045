-------------------------- MODULE ControlLoopProofs --------------------------
(***************************************************************************)
(* Proofs about filter, controller and servo, for every gate, pass length, *)
(* platform, limit and set of calibration values that ControlAssumption    *)
(* allows.                                                                 *)
(*                                                                         *)
(* A derivative without a spike depends on what several passes did, and on *)
(* two timestamps that are taken at different places.  The inductive       *)
(* invariant says how the ages of the two go together (Ages), that         *)
(* s_prev_measurement is the angle of the last update for as long as no    *)
(* read has succeeded since (Remembered), and that an update that comes    *)
(* next finds an honest difference unless the angle was disturbed          *)
(* (HonestDifference).                                                     *)
(***************************************************************************)
EXTENDS ControlLoop, TLAPS

Booting == pc = "boot" => ~updated /\ pitch # NaN /\ sinceRead = 0

Ages ==
    /\ pc # "sense" => sinceRead <= 1
    /\ pc \in {"boot", "comm", "sense"} => sincePid = MaxDt \/ sinceRead <= sincePid + 1

Remembered == pc \in {"comm", "sense"} /\ updated => prev = pitch

HonestDifference ==
    pc = "control" /\ ~disturbed /\ Gate /\ NaN \notin {pitch, Seeded}
        => Abs(pitch - Seeded) <= Rate * sincePid

\* TypeOK in two parts, numbers and flags.
NumberType ==
    /\ pc \in {"boot", "dead", "comm", "sense", "control"}
    /\ sinceRead \in 0 .. MaxComm + 1
    /\ sincePid \in 0 .. MaxDt
    /\ angle \in -Span .. Span
    /\ pitch \in Pitch /\ integral \in Float /\ prev \in Pitch
    /\ level \in 0 .. MaxLevel
    /\ lost \in Nat
FlagType ==
    /\ first_call \in BOOLEAN
    /\ stalled \in BOOLEAN /\ updated \in BOOLEAN /\ disturbed \in BOOLEAN
    /\ steep \in BOOLEAN /\ wild \in BOOLEAN /\ poisoned \in BOOLEAN

IInv ==
    /\ TypeOK /\ Booting /\ Ages /\ Remembered
    /\ HonestDifference /\ OutputsBounded /\ NoDerivativeSpike

-----------------------------------------------------------------------------
\* Arithmetic.

LEMMA TimesMonotone ==
    ASSUME NEW a \in Int, NEW b \in Int, NEW c \in Int, 0 <= c, a <= b
    PROVE  c * a <= c * b
<1>1. (b - a) * c >= 0
  BY Z3
<1>2. (b - a) * c = c * b - c * a
  BY Z3
<1>3. c * a \in Int /\ c * b \in Int /\ (b - a) * c \in Int
  BY Z3
<1> QED
  BY <1>1, <1>2, <1>3

\* A quotient lies between the bounds of its dividend.
LEMMA QuotientRange ==
    ASSUME NEW x \in Int, NEW n \in Nat, n > 0, NEW lo \in Int, NEW hi \in Int,
           n * lo <= x, x <= n * hi
    PROVE  x \div n \in Int /\ lo <= x \div n /\ x \div n <= hi
<1> DEFINE q == x \div n
           r == x % n
<1>1. q \in Int /\ r \in Int /\ x = n * q + r /\ 0 <= r /\ r < n
  BY Z3
<1> HIDE DEF q, r
<1>2. lo <= q
  <2>1. SUFFICES ASSUME q + 1 <= lo PROVE FALSE
    BY <1>1
  <2>2. n * (q + 1) <= n * lo
    BY <1>1, <2>1, TimesMonotone
  <2>3. n * (q + 1) = n * q + n
    BY <1>1, Z3
  <2> QED
    BY <1>1, <2>2, <2>3, Z3
<1>3. q <= hi
  <2>1. SUFFICES ASSUME hi + 1 <= q PROVE FALSE
    BY <1>1
  <2>2. n * (hi + 1) <= n * q
    BY <1>1, <2>1, TimesMonotone
  <2>3. n * (hi + 1) = n * hi + n
    BY <1>1, Z3
  <2> QED
    BY <1>1, <2>2, <2>3, Z3
<1> QED
  BY <1>1, <1>2, <1>3 DEF q

LEMMA Distance ==
    ASSUME NEW x \in Int, NEW y \in Int
    PROVE  /\ Abs(x - y) \in Nat
           /\ Abs(x - y) <= 0 <=> x = y
           /\ Abs(x - x) = 0
BY DEF Abs

\* A weighted mean is no further from one of its terms than the other one is.
LEMMA MeanNear ==
    ASSUME NEW n \in Nat, n > 0, NEW a \in 0 .. n, NEW u \in Int, NEW v \in Int
    PROVE  LET m == (a * u + (n - a) * v) \div n
           IN  m \in Int /\ Abs(m - v) <= Abs(u - v)
<1> DEFINE x == a * u + (n - a) * v
<1>1. x \in Int /\ x = n * v + a * (u - v) /\ x = n * u + (n - a) * (v - u)
  BY Z3
<1>2. a \in Int /\ 0 <= a /\ n - a \in Int /\ 0 <= n - a
  OBVIOUS
<1> HIDE DEF x
<1>3. CASE v <= u
  <2>1. a * 0 <= a * (u - v) /\ (n - a) * (v - u) <= (n - a) * 0
    BY <1>2, <1>3, TimesMonotone
  <2>2. n * v <= x /\ x <= n * u
    BY <1>1, <1>2, <2>1, Z3
  <2>3. x \div n \in Int /\ v <= x \div n /\ x \div n <= u
    BY <1>1, <2>2, QuotientRange
  <2> QED
    BY <1>3, <2>3 DEF x, Abs
<1>4. CASE u <= v
  <2>1. a * (u - v) <= a * 0 /\ (n - a) * 0 <= (n - a) * (v - u)
    BY <1>2, <1>4, TimesMonotone
  <2>2. n * u <= x /\ x <= n * v
    BY <1>1, <1>2, <2>1, Z3
  <2>3. x \div n \in Int /\ u <= x \div n /\ x \div n <= v
    BY <1>1, <2>2, QuotientRange
  <2> QED
    BY <1>4, <2>3 DEF x, Abs
<1> QED
  BY <1>3, <1>4

\* A turn at no more than Rate for some ticks.
LEMMA TurnBound ==
    ASSUME NEW r \in Nat, NEW g \in -r .. r, NEW t \in Int
    PROVE  g * t \in Int /\ Abs(g * t) <= r * Abs(t)
<1>1. g \in Int /\ g * t \in Int /\ Abs(t) \in Nat
  BY Z3 DEF Abs
<1>2. Abs(t) * g <= Abs(t) * r /\ Abs(t) * (-r) <= Abs(t) * g
  BY <1>1, TimesMonotone
<1>3. g * t = Abs(t) * g \/ g * t = -(Abs(t) * g)
  BY <1>1, Z3 DEF Abs
<1>4. Abs(t) * (-r) = -(Abs(t) * r) /\ r * Abs(t) = Abs(t) * r
  BY <1>1, Z3
<1>5. Abs(t) * g \in Int /\ Abs(t) * r \in Int
  BY <1>1, Z3
<1> QED
  BY <1>1, <1>2, <1>3, <1>4, <1>5 DEF Abs

-----------------------------------------------------------------------------
\* Floats.

LEMMA Constants ==
    /\ NaN \notin Int
    /\ MaxDt \in Nat /\ MaxDt > 0 /\ DefaultDt \in Nat /\ MaxComm \in Nat
    /\ Span \in Nat /\ Rate \in Nat /\ MaxPitch \in Nat
    /\ AlphaOne \in Nat /\ AlphaOne > 0
    /\ Alphas \subseteq Float /\ Setpoints \subseteq Float /\ Gains \subseteq Float
    /\ IntegralLimit \in Nat /\ AngleMax \in Nat /\ AngleMax > 0
    /\ PulseCenter \in Nat /\ PulseSpan \in Nat /\ PulseSpan <= PulseCenter
    /\ MaxLevel \in Nat /\ PulseCenter + PulseSpan <= MaxLevel
    /\ FloatMax \in Nat /\ FloatMax > 0 /\ MaxDt <= FloatMax
    /\ IntegralLimit <= FloatMax /\ AngleMax <= FloatMax
    /\ 2 * MaxPitch + Rate * MaxDt <= FloatMax
BY ControlAssumption

LEMMA RateMonotone ==
    ASSUME NEW s \in Nat, NEW t \in Nat, s <= t
    PROVE  Rate * s \in Int /\ Rate * t \in Int /\ 0 <= Rate * t /\ Rate * s <= Rate * t
<1>1. Rate \in Int /\ 0 <= Rate /\ s \in Int /\ t \in Int /\ 0 <= t
  BY Constants
<1>2. Rate * 0 <= Rate * t /\ Rate * s <= Rate * t
  BY <1>1, TimesMonotone
<1>3. Rate * 0 = 0 /\ Rate * s \in Int /\ Rate * t \in Int
  BY <1>1, Z3
<1> QED
  BY <1>2, <1>3

LEMMA FloatCases ==
    /\ Finite \subseteq Int /\ Infinite \subseteq Int
    /\ PosInf \in Int /\ NegInf \in Int /\ PosInf > FloatMax /\ NegInf < -FloatMax
    /\ \A x : x \in Float <=> x = NaN \/ x \in Finite \/ x \in Infinite
    /\ \A x : x \in Finite => x \notin Infinite /\ x # NaN
    /\ NaN \notin Infinite
    /\ 0 \in Finite /\ -1 \in Finite
BY Constants DEF Float, Finite, Infinite, PosInf, NegInf

\* Exactly the angles are small enough for their differences to be exact.
LEMMA PitchFinite ==
    ASSUME NEW x \in Pitch
    PROVE  x \in Float /\ (x # NaN => x \in Finite /\ -MaxPitch <= x /\ x <= MaxPitch)
<1>1. MaxPitch <= FloatMax
  <2>1. 0 <= Rate * MaxDt /\ Rate * MaxDt \in Int
    BY RateMonotone, Constants
  <2> QED
    BY <2>1, Constants
<1> QED
  BY <1>1, Constants, FloatCases DEF Pitch, Finite

LEMMA RoundType ==
    ASSUME NEW z \in Int
    PROVE  /\ Round(z) \in Float /\ Round(z) # NaN
           /\ z \in Finite => Round(z) = z
BY Constants, FloatCases DEF Round, Finite, Infinite

\* Sums, differences, products and quotients of floats are floats.
LEMMA FloatArithmetic ==
    ASSUME NEW x \in Float, NEW y \in Float
    PROVE  Plus(x, y) \in Float /\ Minus(x, y) \in Float /\ Times(x, y) \in Float
<1>1. ASSUME NEW u \in Float, NEW v \in Float
      PROVE  Plus(u, v) \in Float /\ Times(u, v) \in Float
  <2>1. CASE NaN \in {u, v}
    BY <2>1, FloatCases DEF Plus, Times
  <2>2. CASE NaN \notin {u, v}
    <3>1. u \in Int /\ v \in Int
      BY <2>2, FloatCases
    <3>2. u + v \in Int /\ u * v \in Int
      BY <3>1
    <3>3. Round(u + v) \in Float /\ Round(u * v) \in Float
      BY <3>2, RoundType
    <3>4. Plus(u, v) \in {NaN, u, v, Round(u + v)} /\ Times(u, v) \in {NaN, Round(u * v)}
      BY DEF Plus, Times
    <3> QED
      BY <3>3, <3>4, FloatCases
  <2> QED
    BY <2>1, <2>2
<1>2. -1 \in Float
  BY FloatCases
<1>3. Times(-1, y) \in Float
  BY <1>1, <1>2
<1> QED
  BY <1>1, <1>3 DEF Minus

LEMMA QuotientType ==
    ASSUME NEW x \in Float, NEW n \in Nat, n > 0
    PROVE  /\ Quotient(x, n) \in Float
           /\ x \in Finite => Quotient(x, n) \in Finite
<1>1. CASE x \in Infinite \cup {NaN}
  BY <1>1, FloatCases DEF Quotient
<1>2. CASE x \notin Infinite \cup {NaN}
  <2>1. x \in Finite /\ Quotient(x, n) = x \div n
    BY <1>2, FloatCases DEF Quotient
  <2>2. x \in Int /\ -FloatMax <= x /\ x <= FloatMax
    BY <2>1, Constants DEF Finite
  <2>3. FloatMax * 1 <= FloatMax * n /\ FloatMax * n = n * FloatMax
        /\ n * (-FloatMax) = -(n * FloatMax) /\ FloatMax * 1 = FloatMax
    <3>1. FloatMax * 1 <= FloatMax * n
      BY Constants, TimesMonotone
    <3> QED
      BY <3>1, Constants, Z3
  <2>4. n * FloatMax \in Int /\ n * (-FloatMax) <= x /\ x <= n * FloatMax
    BY <2>2, <2>3, Constants
  <2>5. x \div n \in Int /\ -FloatMax <= x \div n /\ x \div n <= FloatMax
    BY <2>2, <2>4, QuotientRange, Constants
  <2> QED
    BY <2>1, <2>5, FloatCases DEF Finite
<1> QED
  BY <1>1, <1>2

\* With a finite operand no sum or difference is made a NaN; a product is if it is
\* that of zero and an infinity.
LEMMA FiniteOperand ==
    ASSUME NEW x \in Float, NEW y \in Finite
    PROVE  /\ x # NaN => /\ Plus(x, y) # NaN /\ Plus(y, x) # NaN
                         /\ Minus(x, y) # NaN
                         /\ y > 0 => Times(x, y) # NaN
           /\ x \in Finite => /\ Plus(x, y) = Round(x + y)
                              /\ Minus(x, y) = Round(x - y)
                              /\ Times(x, y) # NaN
<1>1. ASSUME NEW u \in Float, NEW v \in Finite, u # NaN
      PROVE  /\ Plus(u, v) # NaN /\ Plus(v, u) # NaN
             /\ u \in Finite => Plus(u, v) = Round(u + v)
  <2>1. u \in Int /\ v \in Int /\ v \notin Infinite /\ v # NaN
    BY <1>1, FloatCases
  <2>2. {u, v} # Infinite /\ {v, u} # Infinite
    BY <2>1
  <2>3. Round(u + v) # NaN /\ Round(v + u) # NaN
    BY <2>1, RoundType
  <2>4. CASE u \in Infinite
    BY <1>1, <2>1, <2>2, <2>4, FloatCases DEF Plus
  <2>5. CASE u \notin Infinite
    BY <1>1, <2>1, <2>2, <2>3, <2>5, FloatCases DEF Plus
  <2> QED
    BY <2>4, <2>5
<1>2. ASSUME NEW u \in Finite, NEW v \in Finite
      PROVE  Times(u, v) # NaN /\ Times(u, v) = Round(u * v)
  <2>1. NaN \notin {u, v} /\ {u, v} \cap Infinite = {} /\ u \in Int /\ v \in Int
    BY FloatCases
  <2>2. u * v \in Int
    BY <2>1
  <2>3. Round(u * v) # NaN
    BY <2>2, RoundType
  <2> QED
    BY <2>1, <2>3 DEF Times
<1>3. Times(-1, y) = -y /\ -y \in Finite
  <2>1. y \in Int /\ -1 * y = -y /\ -y \in Finite
    BY Constants DEF Finite
  <2> QED
    BY <1>2, <2>1, RoundType, FloatCases
<1>4. x # NaN /\ y > 0 => Times(x, y) # NaN
  <2>1. SUFFICES ASSUME x \in Infinite, y > 0 PROVE Times(x, y) # NaN
    BY <1>2, FloatCases
  <2>2. x \in Int /\ y \in Int /\ x # NaN /\ y # NaN /\ 0 \notin {x, y}
    BY <2>1, FloatCases
  <2>3. x * y \in Int
    BY <2>2
  <2>4. Round(x * y) # NaN
    BY <2>3, RoundType
  <2> QED
    BY <2>2, <2>4 DEF Times
<1>5. x \in Finite => x + (-y) = x - y
  BY FloatCases
<1> QED
  BY <1>1, <1>2, <1>3, <1>4, <1>5, FloatCases DEF Minus

\* The difference of two angles is exact.
LEMMA DifferenceExact ==
    ASSUME NEW x \in Pitch, NEW y \in Pitch
    PROVE  /\ Minus(x, y) \in Float
           /\ x # NaN /\ y # NaN => /\ Minus(x, y) = x - y /\ Minus(x, y) # NaN
                                    /\ x \in Int /\ y \in Int
                                    /\ x - y \in Finite
<1>1. Minus(x, y) \in Float
  BY PitchFinite, FloatArithmetic
<1>2. CASE x # NaN /\ y # NaN
  <2>1. /\ x \in Finite /\ -MaxPitch <= x /\ x <= MaxPitch /\ x \in Int
        /\ y \in Finite /\ -MaxPitch <= y /\ y <= MaxPitch /\ y \in Int
    BY <1>2, PitchFinite, FloatCases
  <2>2. 0 <= Rate * MaxDt /\ Rate * MaxDt \in Int
    BY RateMonotone, Constants
  <2>3. x - y \in Int /\ x - y \in Finite
    BY <2>1, <2>2, Constants DEF Finite
  <2>4. Minus(x, y) = Round(x - y)
    BY <2>1, FiniteOperand, FloatCases
  <2> QED
    BY <1>1, <2>1, <2>3, <2>4, RoundType
<1> QED
  BY <1>1, <1>2

\* The two comparisons of a clamp.
LEMMA Clamp ==
    ASSUME NEW x \in Float, NEW lo \in Int, NEW hi \in Int, lo <= hi
    PROVE  /\ AtLeast(AtMost(x, hi), lo) \in (lo .. hi) \cup {NaN}
           /\ AtMost(AtLeast(x, lo), hi) \in (lo .. hi) \cup {NaN}
           /\ x # NaN => /\ AtLeast(AtMost(x, hi), lo) # NaN
                         /\ AtMost(AtLeast(x, lo), hi) # NaN
<1>1. CASE x = NaN
  BY <1>1 DEF AtLeast, AtMost
<1>2. CASE x # NaN
  <2>1. x \in Int
    BY <1>2, FloatCases
  <2> QED
    BY <1>2, <2>1, Constants DEF AtLeast, AtMost
<1> QED
  BY <1>1, <1>2

\* Whatever c_alpha is, the filtered angle is a NaN or no further from the
\* accelerometer's than the gyroscope's is; only a NaN makes one.
LEMMA MixNear ==
    ASSUME NEW alpha \in Float, NEW gyro \in Int \cup {NaN}, NEW accel \in Int
    PROVE  LET m == Mix(alpha, gyro, accel)
           IN  /\ m \in Int \cup {NaN}
               /\ alpha # NaN /\ gyro # NaN => m # NaN
               /\ m # NaN => gyro # NaN /\ Abs(m - accel) <= Abs(gyro - accel)
<1> DEFINE a == AtMost(AtLeast(alpha, 0), AlphaOne)
           mean == (a * gyro + (AlphaOne - a) * accel) \div AlphaOne
<1>1. a \in (0 .. AlphaOne) \cup {NaN} /\ (alpha # NaN => a # NaN)
  BY Clamp, Constants
<1>2. Mix(alpha, gyro, accel) = IF NaN \in {a, gyro} THEN NaN ELSE mean
  BY DEF Mix, Strict
<1>3. CASE NaN \in {a, gyro}
  BY <1>1, <1>2, <1>3
<1>4. CASE NaN \notin {a, gyro}
  <2>1. a \in 0 .. AlphaOne /\ gyro \in Int
    BY <1>1, <1>4
  <2> HIDE DEF a
  <2>2. mean \in Int /\ Abs(mean - accel) <= Abs(gyro - accel)
    BY <2>1, MeanNear, Constants
  <2> QED
    BY <1>2, <1>4, <2>1, <2>2, Constants
<1> QED
  BY <1>3, <1>4

\* Anti-windup, also of an infinite error.
LEMMA AccumulateBounded ==
    ASSUME TypeOK, Gate, NEW error \in Float
    PROVE  /\ Accumulate(error) \in (-IntegralLimit .. IntegralLimit) \cup {NaN}
           /\ error # NaN /\ integral \in Finite => Accumulate(error) # NaN
<1>1. sincePid \in Finite /\ sincePid > 0 /\ integral \in Float
  BY Constants DEF TypeOK, Gate, Finite
<1>2. Times(error, sincePid) \in Float /\ (error # NaN => Times(error, sincePid) # NaN)
  BY <1>1, FloatArithmetic, FiniteOperand, FloatCases
<1> DEFINE sum == Plus(integral, Times(error, sincePid))
<1>3. sum \in Float /\ (error # NaN /\ integral \in Finite => sum # NaN)
  BY <1>1, <1>2, FloatArithmetic, FiniteOperand
<1> HIDE DEF sum
<1>4. AtLeast(AtMost(sum, IntegralLimit), -IntegralLimit)
          \in (-IntegralLimit .. IntegralLimit) \cup {NaN}
      /\ (sum # NaN => AtLeast(AtMost(sum, IntegralLimit), -IntegralLimit) # NaN)
  BY <1>3, Clamp, Constants
<1> QED
  BY <1>3, <1>4 DEF Accumulate, sum

\* The pulse fits 16 bits, and lies within the servo's travel unless the angle
\* is a NaN.
LEMMA PulseBounded ==
    ASSUME NEW a \in Float, NEW p \in Pulse(a)
    PROVE  /\ p \in 0 .. MaxLevel
           /\ a # NaN => p \in PulseCenter - PulseSpan .. PulseCenter + PulseSpan
<1> DEFINE c == AtLeast(AtMost(a, AngleMax), -AngleMax)
<1>1. c \in (-AngleMax .. AngleMax) \cup {NaN} /\ (a # NaN => c # NaN)
  BY Clamp, Constants
<1>2. p \in IF c = NaN THEN {0, MaxLevel}
            ELSE {PulseCenter + (c * PulseSpan) \div AngleMax}
  BY DEF Pulse
<1> HIDE DEF c
<1>3. CASE c = NaN
  BY <1>1, <1>2, <1>3, Constants
<1>4. CASE c # NaN
  <2>1. c \in Int /\ -AngleMax <= c /\ c <= AngleMax
    BY <1>1, <1>4, Constants
  <2>2. PulseSpan * (-AngleMax) <= PulseSpan * c /\ PulseSpan * c <= PulseSpan * AngleMax
    BY <2>1, TimesMonotone, Constants
  <2>3. /\ c * PulseSpan \in Int
        /\ AngleMax * (-PulseSpan) <= c * PulseSpan
        /\ c * PulseSpan <= AngleMax * PulseSpan
    BY <2>1, <2>2, Constants, Z3
  <2>4. /\ (c * PulseSpan) \div AngleMax \in Int
        /\ -PulseSpan <= (c * PulseSpan) \div AngleMax
        /\ (c * PulseSpan) \div AngleMax <= PulseSpan
    BY <2>3, QuotientRange, Constants
  <2> QED
    BY <1>2, <1>4, <2>4, Constants
<1> QED
  BY <1>3, <1>4

LEMMA TypeParts ==
    /\ TypeOK <=> NumberType /\ FlagType
    /\ TypeOK' <=> NumberType' /\ FlagType'
BY DEF TypeOK, NumberType, FlagType

-----------------------------------------------------------------------------
\* The invariant is inductive.

LEMMA InitInvariant == ASSUME Init PROVE IInv
<1>1. TypeOK
  <2>1. NumberType
    BY Constants, FloatCases DEF Init, NumberType, Pitch
  <2>2. FlagType
    BY DEF Init, FlagType
  <2> QED
    BY <2>1, <2>2, TypeParts
<1>2. Booting /\ Ages
  BY Constants DEF Init, Booting, Ages
<1>3. Remembered /\ HonestDifference /\ OutputsBounded /\ NoDerivativeSpike
  BY DEF Init, Remembered, HonestDifference, OutputsBounded, NoDerivativeSpike
<1> QED
  BY <1>1, <1>2, <1>3 DEF IInv

LEMMA BootOkStep == ASSUME IInv, BootOk PROVE IInv'
<1> USE DEF IInv, BootOk, historyVars
<1>1. TypeOK'
  BY Constants, FloatCases DEF TypeOK, Pitch
<1>2. Booting' /\ Ages' /\ Remembered' /\ HonestDifference' /\ NoDerivativeSpike'
  BY DEF Booting, Ages, Remembered, HonestDifference, NoDerivativeSpike
<1>3. OutputsBounded'
  BY Constants DEF Booting, OutputsBounded
<1> QED
  BY <1>1, <1>2, <1>3

LEMMA NothingStep == ASSUME IInv, BootFails \/ UNCHANGED vars PROVE IInv'
<1>1. CASE BootFails
  <2> USE <1>1 DEF IInv, BootFails, pidVars, historyVars
  <2>1. TypeOK'
    BY DEF TypeOK
  <2>2. Booting' /\ Ages' /\ Remembered' /\ HonestDifference'
        /\ OutputsBounded' /\ NoDerivativeSpike'
    BY DEF Booting, Ages, Remembered, HonestDifference, OutputsBounded, NoDerivativeSpike
  <2> QED
    BY <2>1, <2>2
<1>2. CASE UNCHANGED vars
  <2> USE <1>2 DEF IInv, vars, pidVars, historyVars
  <2>1. TypeOK'
    BY DEF TypeOK
  <2>2. Booting' /\ Ages' /\ Remembered' /\ HonestDifference'
        /\ OutputsBounded' /\ NoDerivativeSpike'
    BY DEF Booting, Ages, Remembered, HonestDifference, OutputsBounded,
           NoDerivativeSpike, Gate, Seeded
  <2> QED
    BY <2>1, <2>2
<1> QED
  BY <1>1, <1>2

LEMMA CommunicateStep == ASSUME IInv, Communicate PROVE IInv'
<1> USE DEF IInv, Communicate, pidVars
<1>1. PICK d \in 0 .. MaxComm :
          /\ sinceRead' = sinceRead + d
          /\ sincePid' = AtMost(sincePid + d, MaxDt)
          /\ stalled' = (d + 1 >= MaxDt)
  OBVIOUS
<1>2. sinceRead \in Nat /\ sincePid \in Nat /\ d \in Nat
  BY Constants DEF TypeOK
<1>3. sincePid' = IF sincePid + d > MaxDt THEN MaxDt ELSE sincePid + d
  BY <1>1, <1>2, Constants DEF AtMost
<1>4. sinceRead' \in 0 .. MaxComm + 1 /\ sincePid' \in 0 .. MaxDt
  BY <1>1, <1>2, <1>3, Constants DEF Ages
<1>5. TypeOK'
  <2>1. NumberType'
    BY <1>4, TypeParts DEF NumberType
  <2>2. stalled' \in BOOLEAN
    <3>1. stalled' = TRUE \/ stalled' = FALSE
      BY <1>1
    <3> QED
      BY <3>1
  <2>3. FlagType'
    BY <2>2, TypeParts DEF FlagType
  <2> QED
    BY <2>1, <2>3, TypeParts
<1>6. Ages'
  BY <1>1, <1>2, <1>3, Constants DEF Ages
<1>7. Booting' /\ Remembered' /\ HonestDifference' /\ NoDerivativeSpike' /\ OutputsBounded'
  BY DEF Booting, Remembered, HonestDifference, OutputsBounded, NoDerivativeSpike
<1> QED
  BY <1>5, <1>6, <1>7

\* The parts of TypeOK that a sensor task does not touch, and the ages it leaves.
LEMMA SampledAges ==
    ASSUME IInv, Sampled
    PROVE  /\ sinceRead' = 1 /\ sinceRead' \in 0 .. MaxComm + 1
           /\ sincePid' \in 0 .. MaxDt
           /\ Gate' => sinceRead <= sincePid'
<1>1. sinceRead \in Nat /\ sincePid \in 0 .. MaxDt
  BY Constants DEF IInv, TypeOK
<1>2. sincePid' = IF sincePid + 1 > MaxDt THEN MaxDt ELSE sincePid + 1
  BY <1>1, Constants DEF Sampled, AtMost
<1> QED
  BY <1>1, <1>2, Constants DEF IInv, Sampled, Ages, Gate

\* After an undisturbed read the difference is the turn of the platform.
LEMMA SampledHonest ==
    ASSUME IInv, Sampled, pitch' \in Pitch,
           ASSUME ~disturbed', pitch' # NaN, pitch \in Int
           PROVE  Abs(pitch' - pitch) <= Rate * sinceRead
    PROVE  HonestDifference'
<1> SUFFICES ASSUME ~disturbed', Gate', pitch' # NaN, Seeded' # NaN
             PROVE  Abs(pitch' - Seeded') <= Rate * sincePid'
  BY DEF HonestDifference
<1>1. sincePid' \in Nat /\ sinceRead \in Nat /\ sinceRead <= sincePid'
  BY SampledAges, Constants DEF IInv, TypeOK
<1>2. 0 <= Rate * sincePid' /\ Rate * sinceRead <= Rate * sincePid'
  BY <1>1, RateMonotone
<1>3. Rate * sincePid' \in Int /\ Rate * sinceRead \in Int
  BY <1>1, RateMonotone
<1>4. pitch' \in Int
  BY Constants DEF Pitch
<1>5. CASE first_call
  <2>1. Seeded' = pitch'
    BY <1>5 DEF Sampled, pidVars, Seeded
  <2>2. Abs(pitch' - Seeded') = 0
    BY <1>4, <2>1, Distance
  <2> QED
    BY <1>2, <1>3, <2>2
<1>6. CASE ~first_call
  <2>1. updated /\ Seeded' = prev
    BY <1>6 DEF Sampled, pidVars, Seeded
  <2>2. prev = pitch
    BY <2>1 DEF IInv, Remembered, Sampled
  <2>3. pitch \in Int
    BY <2>1, <2>2, Constants DEF IInv, TypeOK, Pitch
  <2>4. Abs(pitch' - pitch) <= Rate * sinceRead
    BY <2>3
  <2>5. Abs(pitch' - pitch) \in Nat
    BY <1>4, <2>3, Distance
  <2> QED
    BY <1>2, <1>3, <2>1, <2>2, <2>4, <2>5
<1> QED
  BY <1>5, <1>6

LEMMA FilterDtType == ASSUME TypeOK PROVE FilterDt \in Nat /\ FilterDt <= MaxDt
BY ControlAssumption DEF TypeOK, FilterDt

\* The gyroscope's angle is exact, and a NaN only if the filtered angle is one.
LEMMA GyroExact ==
    ASSUME TypeOK, NEW g \in -Rate .. Rate
    PROVE  /\ g * FilterDt \in Int
           /\ pitch = NaN => Plus(pitch, g * FilterDt) = NaN
           /\ pitch # NaN => Plus(pitch, g * FilterDt) = pitch + g * FilterDt
<1>1. FilterDt \in Nat /\ FilterDt <= MaxDt /\ pitch \in Pitch
  BY FilterDtType DEF TypeOK
<1> DEFINE x == g * FilterDt
<1>2. x \in Int /\ Abs(x) <= Rate * Abs(FilterDt) /\ Abs(FilterDt) = FilterDt
  BY <1>1, TurnBound, Constants DEF Abs
<1> HIDE DEF x
<1>3. Rate * FilterDt <= Rate * MaxDt /\ Rate * MaxDt \in Int /\ Rate * FilterDt \in Int
  BY <1>1, RateMonotone, Constants
<1>4. -(Rate * MaxDt) <= x /\ x <= Rate * MaxDt
  BY <1>2, <1>3 DEF Abs
<1>5. x \in Finite
  BY <1>2, <1>3, <1>4, Constants DEF Finite
<1>6. CASE pitch = NaN
  BY <1>2, <1>6 DEF Plus, x
<1>7. CASE pitch # NaN
  <2>1. pitch \in Finite /\ -MaxPitch <= pitch /\ pitch <= MaxPitch /\ pitch \in Int
    BY <1>1, <1>7, PitchFinite, FloatCases
  <2>2. pitch + x \in Int /\ pitch + x \in Finite
    BY <1>2, <1>3, <1>4, <2>1, Constants DEF Finite
  <2>3. Plus(pitch, x) = Round(pitch + x)
    BY <1>5, <2>1, FiniteOperand, FloatCases
  <2> QED
    BY <1>2, <1>7, <2>2, <2>3, RoundType DEF x
<1> QED
  BY <1>6, <1>7

LEMMA SenseOkStep == ASSUME IInv, SenseOk PROVE IInv'
<1> USE DEF IInv
<1>1. Sampled
  BY DEF SenseOk
<1>2. PICK g \in -Rate .. Rate, alpha \in Alphas :
          /\ angle' = angle + g * sinceRead
          /\ angle' \in -Span .. Span
          /\ pitch' = Mix(alpha, Plus(pitch, g * FilterDt), angle')
          /\ poisoned' = (poisoned \/ alpha = NaN)
  BY DEF SenseOk
<1>3. lost' = Abs(sinceRead - FilterDt) /\ pitch' \in Pitch
  BY DEF SenseOk
<1>4. /\ sinceRead \in Nat /\ FilterDt \in Nat /\ g \in Int
      /\ angle \in Int /\ angle' \in Int /\ pitch \in Pitch /\ alpha \in Float
  BY <1>2, FilterDtType, Constants DEF TypeOK
<1>5. g * FilterDt \in Int /\ g * sinceRead \in Int
  BY <1>4, Z3
<1>6. TypeOK'
  <2>1. lost' \in Nat
    BY <1>3, <1>4 DEF Abs
  <2>2. poisoned' \in BOOLEAN /\ disturbed' \in BOOLEAN
    BY <1>1, <1>2 DEF TypeOK, Sampled
  <2> QED
    BY <1>1, <1>2, <1>3, <2>1, <2>2, SampledAges DEF TypeOK, Sampled, pidVars
<1>7. Booting' /\ Ages' /\ Remembered' /\ NoDerivativeSpike'
  BY <1>1, SampledAges DEF Sampled, Booting, Ages, Remembered, NoDerivativeSpike
<1> DEFINE gyro == Plus(pitch, g * FilterDt)
<1>8. gyro \in Int \cup {NaN} /\ (pitch # NaN => gyro # NaN)
  BY <1>2, <1>4, <1>5, GyroExact, Constants DEF Pitch
<1>9. OutputsBounded'
  <2>1. ~poisoned' => alpha # NaN /\ ~poisoned
    BY <1>2 DEF TypeOK
  <2>2. alpha # NaN /\ gyro # NaN => pitch' # NaN
    <3> HIDE DEF gyro
    <3> QED
      BY <1>2, <1>4, <1>8, MixNear DEF gyro
  <2> QED
    BY <1>1, <1>8, <2>1, <2>2 DEF OutputsBounded, Sampled, pidVars
<1>10. HonestDifference'
  <2>1. SUFFICES ASSUME ~disturbed', pitch' # NaN, pitch \in Int
                 PROVE  Abs(pitch' - pitch) <= Rate * sinceRead
    BY <1>1, <1>3, SampledHonest
  <2>2. lost' = 0 /\ pitch = angle
    BY <1>1, <2>1 DEF Sampled
  <2>3. FilterDt = sinceRead
    BY <1>3, <1>4, <2>2 DEF Abs
  <2>4. gyro = angle'
    BY <1>2, <1>4, <1>5, <2>1, <2>2, <2>3, GyroExact, Constants
  <2>5. pitch' = angle'
    <3>1. Abs(pitch' - angle') <= Abs(angle' - angle')
      <4> HIDE DEF gyro
      <4> QED
        BY <1>2, <1>4, <1>8, <2>1, <2>4, MixNear DEF gyro
    <3>2. pitch' \in Int
      BY <1>3, <2>1, Constants DEF Pitch
    <3> QED
      BY <1>4, <3>1, <3>2, Distance
  <2>6. Abs(g * sinceRead) <= Rate * Abs(sinceRead) /\ Abs(sinceRead) = sinceRead
    BY <1>4, TurnBound, Constants DEF Abs
  <2>7. pitch' - pitch = g * sinceRead
    BY <1>2, <1>4, <1>5, <2>2, <2>5
  <2> QED
    BY <2>6, <2>7
<1> QED
  BY <1>6, <1>7, <1>9, <1>10

LEMMA SenseFailsStep == ASSUME IInv, SenseFails PROVE IInv'
<1> USE DEF IInv
<1>1. Sampled /\ lost' = sinceRead /\ UNCHANGED <<pitch, poisoned>>
      /\ angle' \in -Span .. Span
  BY DEF SenseFails
<1>2. TypeOK'
  <2>1. lost' \in Nat /\ disturbed' \in BOOLEAN
    BY <1>1, Constants DEF TypeOK, Sampled
  <2> QED
    BY <1>1, <2>1, SampledAges DEF TypeOK, Sampled, pidVars
<1>3. Booting' /\ Ages' /\ Remembered' /\ NoDerivativeSpike' /\ OutputsBounded'
  BY <1>1, SampledAges
  DEF Sampled, Booting, Ages, Remembered, NoDerivativeSpike, OutputsBounded, pidVars
<1>4. HonestDifference'
  <2>1. SUFFICES ASSUME ~disturbed', pitch' # NaN, pitch \in Int
                 PROVE  Abs(pitch' - pitch) <= Rate * sinceRead
    BY <1>1, SampledHonest DEF TypeOK
  <2>2. sinceRead = 0 /\ pitch' - pitch = 0
    BY <1>1, <2>1 DEF Sampled
  <2>3. Rate * 0 = 0
    BY Constants, Z3
  <2> QED
    BY <2>2, <2>3 DEF Abs
<1> QED
  BY <1>2, <1>3, <1>4

LEMMA SkipStep == ASSUME IInv, Skip PROVE IInv'
<1> USE DEF IInv, Skip, Stamped, pidVars
<1>1. TypeOK'
  <2>1. NumberType'
    BY Constants, TypeParts DEF NumberType
  <2>2. FlagType'
    BY TypeParts DEF FlagType, historyVars
  <2> QED
    BY <2>1, <2>2, TypeParts
<1>2. Booting' /\ Ages' /\ Remembered' /\ HonestDifference' /\ NoDerivativeSpike'
  BY Constants DEF Booting, Ages, Remembered, HonestDifference, NoDerivativeSpike, TypeOK
<1>3. OutputsBounded'
  BY DEF OutputsBounded
<1> QED
  BY <1>1, <1>2, <1>3

LEMMA ControlStep == ASSUME IInv, Control PROVE IInv'
<1> USE DEF IInv
<1>1. Gate /\ Stamped /\ updated' = TRUE
  BY DEF Control
<1>2. PICK setpoint \in Setpoints, kp \in Gains, ki \in Gains, kd \in Gains :
          PidUpdate(setpoint, kp, ki, kd)
  BY DEF Control
<1> DEFINE error == Minus(setpoint, pitch)
           change == Minus(pitch, Seeded)
           p_term == Times(kp, error)
           i_term == Times(ki, Accumulate(error))
           d_term == Quotient(Times(Times(-1, kd), change), sincePid)
           output == Plus(Plus(p_term, i_term), d_term)
<1>3. /\ integral' = Accumulate(error)
      /\ prev' = pitch
      /\ first_call' = FALSE
      /\ level' \in Pulse(output)
      /\ steep' = IF change = NaN THEN FALSE ELSE Abs(change) > Rate * sincePid
      /\ wild' = ~({p_term, i_term, d_term} \subseteq Finite)
      /\ poisoned' = (poisoned \/ setpoint = NaN)
  BY <1>2 DEF PidUpdate
<1>4. /\ setpoint \in Float /\ kp \in Float /\ ki \in Float /\ kd \in Float
      /\ pitch \in Pitch /\ Seeded \in Pitch /\ integral \in Float
      /\ sincePid \in Nat /\ sincePid > 0
  BY <1>1, Constants DEF TypeOK, Seeded, Gate
<1>5. error \in Float /\ (setpoint # NaN /\ pitch # NaN => error # NaN)
  BY <1>4, PitchFinite, FloatArithmetic, FiniteOperand
<1>6. /\ change \in Float
      /\ pitch # NaN /\ Seeded # NaN => /\ change = pitch - Seeded /\ change # NaN
                                        /\ pitch \in Int /\ Seeded \in Int
  BY <1>4, DifferenceExact
<1>7. d_term \in Float
  <2> HIDE DEF change
  <2>1. Times(-1, kd) \in Float
    BY <1>4, FloatArithmetic, FloatCases
  <2>2. Times(Times(-1, kd), change) \in Float
    BY <1>6, <2>1, FloatArithmetic
  <2> QED
    BY <1>4, <2>2, QuotientType
<1>8. /\ integral' \in (-IntegralLimit .. IntegralLimit) \cup {NaN}
      /\ integral' \in Float
      /\ error # NaN /\ integral \in Finite => integral' # NaN
  <2> HIDE DEF error
  <2>1. /\ integral' \in (-IntegralLimit .. IntegralLimit) \cup {NaN}
        /\ error # NaN /\ integral \in Finite => integral' # NaN
    BY <1>1, <1>3, <1>5, AccumulateBounded
  <2> QED
    BY <2>1, Constants, FloatCases DEF Finite
<1>9. /\ output \in Float
      /\ {p_term, i_term, d_term} \subseteq Finite => output # NaN
  <2>1. p_term \in Float /\ i_term \in Float
    <3> HIDE DEF error
    <3> QED
      BY <1>3, <1>4, <1>5, <1>8, FloatArithmetic
  <2> HIDE DEF p_term, i_term, d_term
  <2>2. /\ Plus(p_term, i_term) \in Float
        /\ p_term \in Finite /\ i_term \in Finite => Plus(p_term, i_term) # NaN
    BY <2>1, FloatArithmetic, FiniteOperand, FloatCases
  <2> QED
    BY <1>7, <2>1, <2>2, FloatArithmetic, FiniteOperand
<1>10. /\ level' \in 0 .. MaxLevel
       /\ output # NaN => level' \in PulseCenter - PulseSpan .. PulseCenter + PulseSpan
  <2> HIDE DEF output
  <2> QED
    BY <1>3, <1>9, PulseBounded
<1> HIDE DEF output, p_term, i_term, d_term, error
<1>11. TypeOK'
  <2>1. NumberType'
    BY <1>1, <1>3, <1>4, <1>8, <1>10, TypeParts, Constants DEF NumberType, Stamped
  <2>2. steep' \in BOOLEAN /\ wild' \in BOOLEAN /\ poisoned' \in BOOLEAN
    <3>1. poisoned \in BOOLEAN
      BY TypeParts DEF FlagType
    <3>2. steep' = TRUE \/ steep' = FALSE
      BY <1>3
    <3>3. wild' \in BOOLEAN /\ poisoned' \in BOOLEAN
      BY <1>3, <3>1
    <3> QED
      BY <3>2, <3>3
  <2>3. FlagType'
    BY <1>1, <1>3, <2>2, TypeParts DEF FlagType, Stamped
  <2> QED
    BY <2>1, <2>3, TypeParts
<1>12. Booting' /\ Ages' /\ Remembered' /\ HonestDifference'
  BY <1>1, <1>3, Constants
  DEF Booting, Ages, Remembered, HonestDifference, Stamped, TypeOK
<1>13. OutputsBounded'
  <2> SUFFICES ASSUME ~poisoned'
               PROVE  /\ pitch' # NaN /\ prev' # NaN
                      /\ integral' \in -IntegralLimit .. IntegralLimit
                      /\ wild' \/ level' \in PulseCenter - PulseSpan .. PulseCenter + PulseSpan
    BY DEF OutputsBounded
  <2>1. setpoint # NaN /\ ~poisoned
    BY <1>3 DEF TypeOK
  <2>2. pitch # NaN /\ prev # NaN /\ integral \in -IntegralLimit .. IntegralLimit
    BY <1>1, <2>1 DEF OutputsBounded, Stamped
  <2>3. integral \in Finite
    BY <2>2, Constants DEF Finite
  <2>4. error # NaN /\ integral' # NaN
    BY <1>5, <1>8, <2>1, <2>2, <2>3
  <2>5. ~wild' => output # NaN
    BY <1>3, <1>9
  <2> QED
    BY <1>1, <1>3, <1>8, <1>10, <2>2, <2>4, <2>5 DEF Stamped, TypeOK
<1>14. NoDerivativeSpike'
  <2> SUFFICES ASSUME steep', ~disturbed'
               PROVE  FALSE
    BY DEF NoDerivativeSpike
  <2>1. change # NaN /\ Abs(change) > Rate * sincePid
    BY <1>3
  <2>2. pitch # NaN /\ Seeded # NaN /\ change = pitch - Seeded
    <3>1. pitch # NaN /\ Seeded # NaN
      <4>1. Times(-1, NaN) = NaN
        BY DEF Times
      <4> QED
        BY <2>1, <4>1 DEF Minus, Plus
    <3> QED
      BY <1>6, <3>1
  <2>3. Abs(change) <= Rate * sincePid
    BY <1>1, <2>2 DEF HonestDifference, Stamped
  <2>4. pitch \in Int /\ Seeded \in Int
    BY <1>6, <2>2
  <2>5. Abs(change) \in Int /\ Rate * sincePid \in Int
    BY <1>4, <2>2, <2>4, Constants, Z3 DEF Abs
  <2> QED
    BY <2>1, <2>3, <2>5
<1> QED
  BY <1>11, <1>12, <1>13, <1>14

LEMMA StepInvariant == ASSUME IInv, [Next]_vars PROVE IInv'
BY BootOkStep, NothingStep, CommunicateStep, SenseOkStep, SenseFailsStep,
   SkipStep, ControlStep
DEF Next, Blink

THEOREM Invariance == Spec => []IInv
<1>1. Init => IInv
  BY InitInvariant
<1>2. IInv /\ [Next]_vars => IInv'
  BY StepInvariant
<1> QED
  BY <1>1, <1>2, PTL DEF Spec

-----------------------------------------------------------------------------
\* The theorems.

\* Every variable keeps its type; in particular the ages stay within one pass
\* and the level the servo is given fits 16 bits.
THEOREM TypeCorrect == Spec => []TypeOK
BY Invariance, PTL DEF IInv

\* Anti-windup and the servo's clamp hold whatever the setpoints, the gains, the
\* failed reads and the stalls: the integral until a NaN c_alpha or c_setpoint is
\* used, the pulse after every update whose three terms are finite.
THEOREM OutputsBoundedCorrect == Spec => []OutputsBounded
BY Invariance, PTL DEF IInv

\* The derivative answers to the platform only, unless since the last update
\* something was lost or skipped, or the filter was correcting an error.
THEOREM NoDerivativeSpikeCorrect == Spec => []NoDerivativeSpike
BY Invariance, PTL DEF IInv

\* The distance after a turn: what it was, and what was not integrated.
LEMMA DistanceAfter ==
    ASSUME NEW e \in Int, NEW g \in -Rate .. Rate, NEW t \in Int
    PROVE  g * t \in Int /\ Abs(e + g * t) <= Abs(e) + Rate * Abs(t)
<1>1. g * t \in Int /\ Abs(g * t) <= Rate * Abs(t)
  BY TurnBound, Constants
<1>2. ASSUME NEW y \in Int
      PROVE  Abs(y) \in Nat /\ Abs(e) \in Nat /\ Abs(t) \in Nat
             /\ Abs(e + y) \in Nat /\ Abs(e + y) <= Abs(e) + Abs(y)
  BY DEF Abs
<1>3. Rate * Abs(t) \in Int
  BY <1>2, RateMonotone
<1> QED
  BY <1>1, <1>2, <1>3

\* A read brings the filtered angle no further from the platform's than by what
\* the filter did not integrate.
THEOREM FilterContractsCorrect == Spec => FilterContracts
<1>1. ASSUME IInv, [Next]_vars, pc = "sense", pitch' # NaN
      PROVE  Abs(pitch' - angle') <= Abs(pitch - angle) + Rate * lost'
  <2>1. /\ sinceRead \in Nat /\ FilterDt \in Nat /\ angle \in Int /\ pitch \in Pitch
        /\ lost \in Nat
    BY <1>1, FilterDtType, Constants DEF IInv, TypeOK
  <2>2. CASE SenseOk
    <3>1. PICK g \in -Rate .. Rate, alpha \in Alphas :
              /\ angle' = angle + g * sinceRead
              /\ angle' \in -Span .. Span
              /\ pitch' = Mix(alpha, Plus(pitch, g * FilterDt), angle')
      BY <2>2 DEF SenseOk
    <3> DEFINE gyro == Plus(pitch, g * FilterDt)
    <3>2. angle' \in Int /\ alpha \in Float /\ g \in Int
      BY <3>1, Constants
    <3>3. g * FilterDt \in Int /\ g * sinceRead \in Int
      BY <2>1, <3>2, Z3
    <3>4. gyro \in Int \cup {NaN} /\ (pitch = NaN => gyro = NaN)
          /\ (pitch # NaN => gyro = pitch + g * FilterDt)
      BY <1>1, <2>1, <3>1, <3>3, GyroExact, Constants DEF IInv, Pitch
    <3>5. gyro # NaN /\ Abs(pitch' - angle') <= Abs(gyro - angle')
      <4> HIDE DEF gyro
      <4> QED
        BY <1>1, <3>1, <3>2, <3>4, MixNear DEF gyro
    <3>6. pitch \in Int /\ gyro = pitch + g * FilterDt
      BY <2>1, <3>4, <3>5, Constants DEF Pitch
    <3>7. gyro - angle' = (pitch - angle) + g * (FilterDt - sinceRead)
      <4>1. g * (FilterDt - sinceRead) = g * FilterDt - g * sinceRead
        BY <2>1, <3>2, Z3
      <4> QED
        BY <2>1, <3>1, <3>3, <3>6, <4>1
    <3>8. Abs(gyro - angle')
              <= Abs(pitch - angle) + Rate * Abs(FilterDt - sinceRead)
      <4>1. pitch - angle \in Int /\ FilterDt - sinceRead \in Int
        BY <2>1, <3>6
      <4> HIDE DEF gyro
      <4> QED
        BY <3>7, <4>1, DistanceAfter
    <3>9. lost' = Abs(FilterDt - sinceRead)
      BY <2>1, <2>2 DEF SenseOk, Abs
    <3>10. pitch' \in Int /\ gyro \in Int /\ lost' \in Nat
      <4>1. pitch' \in Int
        BY <1>1, <2>2, Constants DEF SenseOk, Pitch
      <4>2. gyro \in Int
        BY <3>3, <3>6
      <4>3. FilterDt \in Int /\ sinceRead \in Int
        BY <2>1
      <4>4. Abs(FilterDt - sinceRead) \in Nat
        BY <4>3, Distance
      <4> QED
        BY <3>9, <4>1, <4>2, <4>4
    <3>11. Rate * lost' \in Int
      BY <3>10, RateMonotone
    <3>12. /\ Abs(pitch' - angle') \in Nat
           /\ Abs(gyro - angle') \in Nat
           /\ Abs(pitch - angle) \in Nat
      <4> HIDE DEF gyro
      <4> QED
        BY <2>1, <3>2, <3>6, <3>10, Distance
    <3> HIDE DEF gyro
    <3> QED
      BY <3>5, <3>8, <3>9, <3>11, <3>12
  <2>3. CASE SenseFails
    <3>1. PICK g \in -Rate .. Rate : angle' = angle + g * sinceRead
      BY <2>3 DEF SenseFails
    <3>2. pitch' = pitch /\ lost' = sinceRead
      BY <2>3 DEF SenseFails
    <3>3. pitch \in Int
      BY <1>1, <2>1, <3>2, Constants DEF Pitch
    <3>4. g \in Int /\ g * sinceRead \in Int /\ g * (-sinceRead) = -(g * sinceRead)
      BY <2>1, <3>1, Constants, Z3
    <3>5. pitch' - angle' = (pitch - angle) + g * (-sinceRead)
      BY <2>1, <3>1, <3>2, <3>3, <3>4
    <3>6. Abs((pitch - angle) + g * (-sinceRead))
              <= Abs(pitch - angle) + Rate * Abs(-sinceRead)
      <4>1. pitch - angle \in Int /\ -sinceRead \in Int
        BY <2>1, <3>3
      <4> QED
        BY <3>1, <4>1, DistanceAfter
    <3>7. Abs(-sinceRead) = sinceRead
      BY <2>1 DEF Abs
    <3> QED
      BY <3>2, <3>5, <3>6, <3>7
  <2>4. CASE UNCHANGED vars
    <3>1. pitch' = pitch /\ angle' = angle /\ lost' = lost
      BY <2>4 DEF vars, historyVars
    <3>2. pitch \in Int
      BY <1>1, <2>1, <3>1, Constants DEF Pitch
    <3>3. 0 <= Rate * lost /\ Rate * lost \in Int
      BY <2>1, RateMonotone
    <3>4. Abs(pitch - angle) \in Nat
      BY <2>1, <3>2, Distance
    <3> QED
      BY <3>1, <3>3, <3>4
  <2> QED
    BY <1>1, <2>2, <2>3, <2>4
    DEF Next, BootOk, BootFails, Blink, Communicate, Skip, Control, Stamped
<1> QED
  BY <1>1, Invariance, PTL DEF Spec, FilterContracts

-----------------------------------------------------------------------------
\* With moderate calibration values the limits are never left.

\* No value is NaN or infinite, and no product of a gain overflows.
Moderate(S, K) ==
    /\ NaN \notin Alphas
    /\ S \in Nat /\ Setpoints \subseteq -S .. S /\ S + MaxPitch <= FloatMax
    /\ K \in Nat /\ Gains \subseteq -K .. K /\ K <= FloatMax
    /\ K * (S + MaxPitch) <= FloatMax
    /\ K * IntegralLimit <= FloatMax
    /\ K * (2 * MaxPitch) <= FloatMax

LEMMA ProductBound ==
    ASSUME NEW A \in Nat, NEW B \in Nat, A <= FloatMax, B <= FloatMax,
           A * B <= FloatMax,
           NEW a \in -A .. A, NEW b \in -B .. B
    PROVE  Times(a, b) \in Finite
<1>1. a \in Int /\ b \in Int /\ a \in Finite /\ b \in Finite
  BY Constants DEF Finite
<1>2. a * b \in Int /\ Abs(a * b) <= A * Abs(b)
  BY <1>1, TurnBound
<1>3. Abs(b) \in Int /\ Abs(b) <= B
  BY DEF Abs
<1>4. A * Abs(b) <= A * B
  BY <1>3, TimesMonotone
<1>5. A * Abs(b) \in Int /\ A * B \in Int /\ Abs(a * b) \in Int
  BY <1>2, <1>3, Z3 DEF Abs
<1>6. Abs(a * b) <= FloatMax
  BY <1>2, <1>4, <1>5, Constants
<1>7. a * b \in Finite
  BY <1>2, <1>6, Constants DEF Abs, Finite
<1>8. NaN \notin {a, b} /\ {a, b} \cap Infinite = {}
  BY <1>1, FloatCases
<1> QED
  BY <1>2, <1>7, <1>8, RoundType DEF Times

\* An update with moderate values has finite terms.
LEMMA ModerateUpdate ==
    ASSUME IInv, ~poisoned, Control, NEW S, NEW K, Moderate(S, K)
    PROVE  ~wild' /\ ~poisoned'
<1>1. Gate /\ TypeOK /\ sincePid \in Nat /\ sincePid > 0
  BY Constants DEF Control, IInv, TypeOK, Gate
<1>2. PICK setpoint \in Setpoints, kp \in Gains, ki \in Gains, kd \in Gains :
          PidUpdate(setpoint, kp, ki, kd)
  BY DEF Control
<1>3. /\ setpoint \in -S .. S /\ kp \in -K .. K /\ ki \in -K .. K /\ kd \in -K .. K
      /\ S \in Nat /\ S + MaxPitch <= FloatMax /\ K \in Nat /\ K <= FloatMax
      /\ K * (S + MaxPitch) <= FloatMax /\ K * IntegralLimit <= FloatMax
      /\ K * (2 * MaxPitch) <= FloatMax
  BY DEF Moderate
<1>4. /\ pitch \in Pitch /\ Seeded \in Pitch /\ pitch # NaN /\ Seeded # NaN
      /\ integral \in -IntegralLimit .. IntegralLimit
  BY <1>1 DEF IInv, TypeOK, OutputsBounded, Control, Stamped, Seeded
<1> DEFINE error == Minus(setpoint, pitch)
           change == Minus(pitch, Seeded)
<1>5. pitch \in Int /\ -MaxPitch <= pitch /\ pitch <= MaxPitch /\ pitch \in Finite
  BY <1>4, PitchFinite, FloatCases
<1>6. error \in -(S + MaxPitch) .. S + MaxPitch
  <2>1. setpoint \in Finite /\ setpoint - pitch \in Finite /\ setpoint - pitch \in Int
        /\ setpoint \in Float
    BY <1>3, <1>5, Constants, FloatCases DEF Finite
  <2>2. error = Round(setpoint - pitch)
    BY <1>5, <2>1, FiniteOperand
  <2> QED
    BY <1>3, <1>5, <2>1, <2>2, RoundType, Constants
<1>7. change \in -(2 * MaxPitch) .. 2 * MaxPitch /\ 2 * MaxPitch <= FloatMax
  <2>1. change = pitch - Seeded
    BY <1>4, DifferenceExact
  <2>2. Seeded \in Int /\ -MaxPitch <= Seeded /\ Seeded <= MaxPitch
    BY <1>4, PitchFinite, FloatCases
  <2>3. 0 <= Rate * MaxDt /\ Rate * MaxDt \in Int
    BY RateMonotone, Constants
  <2> QED
    BY <1>5, <2>1, <2>2, <2>3, Constants
<1> DEFINE p_term == Times(kp, error)
           i_term == Times(ki, Accumulate(error))
           d_term == Quotient(Times(Times(-1, kd), change), sincePid)
<1>8. p_term \in Finite
  <2>1. S + MaxPitch \in Nat
    BY <1>3, Constants
  <2> HIDE DEF error
  <2> QED
    BY <1>3, <1>6, <2>1, ProductBound
<1>9. i_term \in Finite
  <2>1. error \in Float /\ error # NaN /\ integral \in Finite
    BY <1>3, <1>4, <1>6, Constants, FloatCases DEF Finite
  <2> HIDE DEF error
  <2>2. Accumulate(error) \in -IntegralLimit .. IntegralLimit
    BY <1>1, <2>1, AccumulateBounded
  <2> QED
    BY <1>3, <2>2, ProductBound, Constants
<1>10. d_term \in Finite
  <2>1. Times(-1, kd) = -kd /\ -kd \in -K .. K
    <3>1. kd \in Finite /\ kd \in Int /\ -1 * kd = -kd /\ -kd \in Finite
          /\ -kd \in -K .. K /\ -1 \in Finite
      BY <1>3, Constants, FloatCases DEF Finite
    <3>2. NaN \notin {-1, kd} /\ {-1, kd} \cap Infinite = {}
      BY <3>1, FloatCases
    <3> QED
      BY <3>1, <3>2, RoundType DEF Times
  <2> HIDE DEF change
  <2>2. 2 * MaxPitch \in Nat
    BY Constants
  <2>3. Times(-kd, change) \in Finite
    BY <1>3, <1>7, <2>1, <2>2, ProductBound
  <2> QED
    BY <1>1, <2>1, <2>3, QuotientType, FloatCases
<1>11. wild' = ~({p_term, i_term, d_term} \subseteq Finite)
       /\ poisoned' = (poisoned \/ setpoint = NaN)
  BY <1>2 DEF PidUpdate
<1>12. setpoint # NaN
  BY <1>3, Constants
<1> HIDE DEF p_term, i_term, d_term
<1> QED
  BY <1>8, <1>9, <1>10, <1>11, <1>12

LEMMA ModerateStep ==
    ASSUME IInv, ~poisoned, ~wild, [Next]_vars, NEW S, NEW K, Moderate(S, K)
    PROVE  ~poisoned' /\ ~wild'
<1>1. CASE Control
  BY <1>1, ModerateUpdate
<1>2. CASE SenseOk
  BY <1>2 DEF SenseOk, Sampled, Moderate
<1>3. CASE UNCHANGED <<poisoned, wild>>
  BY <1>3
<1>4. CASE BootOk \/ BootFails \/ Communicate \/ SenseFails \/ Skip
  BY <1>3, <1>4 DEF BootOk, BootFails, Communicate, SenseFails, Sampled, Skip, historyVars
<1>5. CASE UNCHANGED vars
  BY <1>3, <1>5 DEF vars, historyVars
<1> QED
  BY <1>1, <1>2, <1>4, <1>5 DEF Next, Blink

\* As long as the master writes neither NaN nor infinities, nor values so large
\* that a product overflows, the servo's pulse never leaves its limits after
\* power-up and the integral never leaves its own, through every sequence of
\* setpoints, gains, failed reads and stalls.
THEOREM ModerateBounded ==
    ASSUME NEW S, NEW K, Moderate(S, K)
    PROVE  Spec => [](pc \notin {"boot", "dead"} =>
                         /\ integral \in -IntegralLimit .. IntegralLimit
                         /\ level \in PulseCenter - PulseSpan .. PulseCenter + PulseSpan)
<1> DEFINE Kept == ~poisoned /\ ~wild
<1>1. Init => Kept
  BY DEF Init
<1>2. IInv /\ Kept /\ [Next]_vars => Kept'
  BY ModerateStep
<1>3. IInv /\ Kept => (pc \notin {"boot", "dead"} =>
                         /\ integral \in -IntegralLimit .. IntegralLimit
                         /\ level \in PulseCenter - PulseSpan .. PulseCenter + PulseSpan)
  BY DEF IInv, OutputsBounded
<1> QED
  BY <1>1, <1>2, <1>3, Invariance, PTL DEF Spec
=============================================================================
