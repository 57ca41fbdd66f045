----------------------------- MODULE ControlLoop -----------------------------
(***************************************************************************)
(* The application in the main loop (firmware/src/main.c): after the       *)
(* communication tasks every pass reads the sensor (mpu6050_task), and, if *)
(* the pass took neither nothing nor MaxDt, updates the PID controller and *)
(* the servo.  Communication may hold a pass longer than that              *)
(* (send_blocking).                                                        *)
(*                                                                         *)
(* Time is counted in ticks and kept as the ages of the two timestamps,    *)
(* that of last_pid_time no further than MaxDt, beyond which all are alike.*)
(* Angles are integers; the platform turns at a constant rate between two  *)
(* reads of the sensor, and gyroscope and accelerometer agree with it.     *)
(* A float is an integer up to FloatMax, an infinity, or NaN; what is      *)
(* larger overflows to an infinity, quotients are rounded down.            *)
(* Calibration parameters are whatever the master has last written, so     *)
(* each use of one takes any value.                                        *)
(***************************************************************************)
EXTENDS Integers

CONSTANTS
    NaN,            \* the float that is not a number
    FloatMax,       \* the largest finite float
    MaxDt,          \* 0.1 s, in ticks: MAX_DT_S, and the gate in main
    DefaultDt,      \* DEFAULT_DT_S
    MaxComm,        \* longest time a pass spends in communication
    Span, Rate,     \* the platform: largest angle, largest turn per tick
    AlphaOne,       \* the value 1.0 of c_alpha
    Alphas,         \* values of c_alpha
    Setpoints,      \* values of c_setpoint
    Gains,          \* values of c_Kp, c_Ki and c_Kd
    IntegralLimit,  \* INTEGRAL_LIMIT_DEG
    AngleMax,       \* ANGLE_MAX_DEG
    PulseCenter,    \* PULSE_CENTER_US
    PulseSpan,      \* 1000 us, from the center to either end
    MaxLevel,       \* largest uint16_t
    MaxPitch        \* bound: the filtered angle followed by the model

\* The infinities are the integers next to the finite floats.
PosInf == FloatMax + 1
NegInf == -PosInf
Infinite == {PosInf, NegInf}
Finite == -FloatMax .. FloatMax
Float == (NegInf .. PosInf) \cup {NaN}
Pitch == (-MaxPitch .. MaxPitch) \cup {NaN}

\* Times, angles and limits are far below FloatMax, calibration values need not be.
ASSUME ControlAssumption ==
    /\ NaN \notin Int
    /\ MaxDt \in Nat /\ DefaultDt \in Nat /\ 0 < DefaultDt /\ DefaultDt < MaxDt
    /\ MaxComm \in Nat /\ Span \in Nat /\ Rate \in Nat
    /\ AlphaOne \in Nat /\ AlphaOne > 0
    /\ Alphas \subseteq Float /\ Setpoints \subseteq Float /\ Gains \subseteq Float
    /\ IntegralLimit \in Nat
    /\ AngleMax \in Nat /\ AngleMax > 0
    /\ PulseCenter \in Nat /\ PulseSpan \in Nat /\ PulseSpan <= PulseCenter
    /\ MaxLevel \in Nat /\ PulseCenter + PulseSpan <= MaxLevel
    /\ MaxPitch \in Nat /\ Span <= MaxPitch
    /\ FloatMax \in Nat /\ MaxDt <= FloatMax
    /\ IntegralLimit <= FloatMax /\ AngleMax <= FloatMax
    /\ 2 * MaxPitch + Rate * MaxDt <= FloatMax

VARIABLES
    pc,           \* "boot", "dead", or the part of the pass that is next
    sinceRead,    \* age of s_last_time
    sincePid,     \* age of last_pid_time
    angle,        \* the platform at the last call of mpu6050_task
    pitch,        \* g_pitch_deg
    integral,     \* s_integral
    prev,         \* s_prev_measurement
    first_call,   \* s_first_call
    level,        \* PWM level of the servo
    stalled,      \* history: did communication hold the last pass for MaxDt?
    updated,      \* history: has the last pass updated the controller?
    lost,         \* history: ticks this pass's sensor task did not integrate
    disturbed,    \* history: may the angle have jumped since the last update?
    steep,        \* history: d_term of this pass's update exceeds Kd * Rate
    wild,         \* history: a term of the last update was not finite
    poisoned      \* history: a NaN c_alpha or c_setpoint has been used

pidVars == <<integral, prev, first_call, level>>
historyVars == <<stalled, updated, lost, disturbed, steep, wild, poisoned>>
vars == <<pc, sinceRead, sincePid, angle, pitch, pidVars, historyVars>>

-----------------------------------------------------------------------------
\* Floats.

Strict(args, x) == IF NaN \in args THEN NaN ELSE x

\* An exact result as a float.
Round(x) == IF x > FloatMax THEN PosInf ELSE IF x < -FloatMax THEN NegInf ELSE x

Plus(x, y) ==
    IF NaN \in {x, y} \/ {x, y} = Infinite THEN NaN
    ELSE IF x \in Infinite THEN x
    ELSE IF y \in Infinite THEN y
    ELSE Round(x + y)
Times(x, y) ==
    IF NaN \in {x, y} \/ (0 \in {x, y} /\ {x, y} \cap Infinite # {}) THEN NaN
    ELSE Round(x * y)
Minus(x, y) == Plus(x, Times(-1, y))
Quotient(x, n) == IF x \in Infinite \cup {NaN} THEN x ELSE x \div n
Abs(x) == IF x < 0 THEN -x ELSE x

\* Every comparison with NaN is false.
AtLeast(x, lo) == IF x = NaN THEN NaN ELSE IF x < lo THEN lo ELSE x
AtMost(x, hi) == IF x = NaN THEN NaN ELSE IF x > hi THEN hi ELSE x

-----------------------------------------------------------------------------
\* Power-up.

\* No pulse yet; last_pid_time is zero and mpu6050_init sleeps for longer than
\* MaxDt.
Init ==
    /\ pc = "boot"
    /\ sinceRead = 0
    /\ sincePid = MaxDt
    /\ angle \in -Span .. Span
    /\ pitch = 0
    /\ integral = 0 /\ prev = 0 /\ first_call = FALSE
    /\ level = 0
    /\ stalled = FALSE /\ updated = FALSE /\ lost = 0
    /\ disturbed = FALSE /\ steep = FALSE /\ wild = FALSE /\ poisoned = FALSE

\* mpu6050_init succeeds and takes the first timestamp; servo_init centers the
\* servo, pid_init resets the controller.
BootOk ==
    /\ pc = "boot"
    /\ pc' = "comm"
    /\ integral' = 0 /\ prev' = 0 /\ first_call' = TRUE
    /\ level' = PulseCenter
    /\ UNCHANGED <<sinceRead, sincePid, angle, pitch, historyVars>>

\* One of its transfers fails: main blinks for ever.
BootFails ==
    /\ pc = "boot"
    /\ pc' = "dead"
    /\ UNCHANGED <<sinceRead, sincePid, angle, pitch, pidVars, historyVars>>

Blink == pc = "dead" /\ UNCHANGED vars

-----------------------------------------------------------------------------
\* A pass of the loop.

\* The communication tasks.
Communicate ==
    /\ pc = "comm"
    /\ pc' = "sense"
    /\ \E d \in 0 .. MaxComm :
           /\ sinceRead' = sinceRead + d
           /\ sincePid' = AtMost(sincePid + d, MaxDt)
           /\ stalled' = (d + 1 >= MaxDt)
    /\ disturbed' = FALSE /\ steep' = FALSE
    /\ UNCHANGED <<angle, pitch, pidVars, updated, lost, wild, poisoned>>

FilterDt == IF sinceRead <= 0 \/ sinceRead > MaxDt THEN DefaultDt ELSE sinceRead

\* Slip: c_alpha is not clamped above.
MixUnclamped(alpha, gyro, accel) ==
    LET a == AtLeast(alpha, 0)
    IN  Strict({a, gyro}, (a * gyro + (AlphaOne - a) * accel) \div AlphaOne)

\* The complementary filter.
Mix(alpha, gyro, accel) ==
    LET a == AtMost(AtLeast(alpha, 0), AlphaOne)
    IN  Strict({a, gyro}, (a * gyro + (AlphaOne - a) * accel) \div AlphaOne)

\* mpu6050_task is called with the platform at angle'.  s_last_time is taken
\* before the transfer, which takes one tick.
Sampled ==
    /\ pc = "sense"
    /\ pc' = "control"
    /\ sinceRead' = 1
    /\ sincePid' = AtMost(sincePid + 1, MaxDt)
    /\ disturbed' = \/ lost' # 0
                    \/ pitch # angle
                    \/ ~updated /\ ~first_call
    /\ UNCHANGED <<pidVars, stalled, updated, steep, wild>>

SenseOk ==
    /\ \E g \in -Rate .. Rate, alpha \in Alphas :
           /\ angle' = angle + g * sinceRead
           /\ angle' \in -Span .. Span
           /\ pitch' = Mix(alpha, Plus(pitch, g * FilterDt), angle')
           /\ poisoned' = (poisoned \/ alpha = NaN)
    /\ pitch' \in Pitch
    /\ lost' = Abs(sinceRead - FilterDt)
    /\ Sampled

\* The transfer fails: the time stamp is taken, the angle is not.
SenseFails ==
    /\ \E g \in -Rate .. Rate :
           /\ angle' = angle + g * sinceRead
           /\ angle' \in -Span .. Span
    /\ lost' = sinceRead
    /\ Sampled
    /\ UNCHANGED <<pitch, poisoned>>

\* The gate in main.
Gate == sincePid > 0 /\ sincePid < MaxDt

\* Slip: the difference to 0 on the first call.
SeededWithZero == prev

\* s_prev_measurement as the derivative finds it.
Seeded == IF first_call THEN pitch ELSE prev

\* Slip: the lower clamp is missing.
AccumulateAbove(error) ==
    AtMost(Plus(integral, Times(error, sincePid)), IntegralLimit)

Accumulate(error) ==
    AtLeast(AtMost(Plus(integral, Times(error, sincePid)), IntegralLimit),
            -IntegralLimit)

\* Slip: the servo does not clamp below.
PulseAbove(a) ==
    LET c == AtMost(a, AngleMax)
    IN  IF c = NaN THEN {0, MaxLevel}
        ELSE {PulseCenter + (c * PulseSpan) \div AngleMax}

\* servo_set_angle; what the conversion of NaN to uint16_t gives is undefined:
\* it saturates, to either end.
Pulse(a) ==
    LET c == AtLeast(AtMost(a, AngleMax), -AngleMax)
    IN  IF c = NaN THEN {0, MaxLevel}
        ELSE {PulseCenter + (c * PulseSpan) \div AngleMax}

\* pid_update and servo_set_angle.
PidUpdate(setpoint, kp, ki, kd) ==
    LET error == Minus(setpoint, pitch)
        change == Minus(pitch, Seeded)
        p_term == Times(kp, error)
        i_term == Times(ki, Accumulate(error))
        d_term == Quotient(Times(Times(-1, kd), change), sincePid)
    IN  /\ integral' = Accumulate(error)
        /\ prev' = pitch
        /\ first_call' = FALSE
        /\ level' \in Pulse(Plus(Plus(p_term, i_term), d_term))
        /\ steep' = IF change = NaN THEN FALSE ELSE Abs(change) > Rate * sincePid
        /\ wild' = ~({p_term, i_term, d_term} \subseteq Finite)
        /\ poisoned' = (poisoned \/ setpoint = NaN)

\* The end of the pass; last_pid_time is always taken.
Stamped ==
    /\ pc = "control"
    /\ pc' = "comm"
    /\ sincePid' = 0
    /\ lost' = 0
    /\ UNCHANGED <<sinceRead, angle, pitch, stalled, disturbed>>

\* Slip: last_pid_time is taken by an update only.
SkipUnstamped ==
    /\ ~Gate
    /\ pc = "control"
    /\ pc' = "comm"
    /\ updated' = FALSE
    /\ lost' = 0
    /\ UNCHANGED <<sinceRead, sincePid, angle, pitch, pidVars, stalled,
                   disturbed, steep, wild, poisoned>>

Skip ==
    /\ ~Gate
    /\ Stamped
    /\ updated' = FALSE
    /\ UNCHANGED <<pidVars, steep, wild, poisoned>>

Control ==
    /\ Gate
    /\ Stamped
    /\ updated' = TRUE
    /\ \E setpoint \in Setpoints, kp \in Gains, ki \in Gains, kd \in Gains :
           PidUpdate(setpoint, kp, ki, kd)

Next ==
    \/ BootOk
    \/ BootFails
    \/ Blink
    \/ Communicate
    \/ SenseOk
    \/ SenseFails
    \/ Skip
    \/ Control

\* The loop has no exit and send_blocking returns.  Nothing is assumed of the
\* sensor: the I2C transfers have no timeout.
Spec ==
    /\ Init /\ [][Next]_vars
    /\ WF_vars(Communicate) /\ WF_vars(Skip \/ Control)

-----------------------------------------------------------------------------
\* Properties.

\* Every variable has its type; the ages stay within one pass, the level is a
\* 16-bit number.
TypeOK ==
    /\ pc \in {"boot", "dead", "comm", "sense", "control"}
    /\ sinceRead \in 0 .. MaxComm + 1
    /\ sincePid \in 0 .. MaxDt
    /\ angle \in -Span .. Span
    /\ pitch \in Pitch /\ integral \in Float /\ prev \in Pitch
    /\ first_call \in BOOLEAN
    /\ level \in 0 .. MaxLevel
    /\ lost \in Nat
    /\ stalled \in BOOLEAN /\ updated \in BOOLEAN /\ disturbed \in BOOLEAN
    /\ steep \in BOOLEAN /\ wild \in BOOLEAN /\ poisoned \in BOOLEAN

\* Anti-windup and the servo's clamp hold through every sequence of setpoints,
\* gains and stalls.  Only a NaN in c_alpha or c_setpoint leaves the limits for
\* good.  An update leaves the pulse limits only if one of its three terms is
\* not finite - an infinite or NaN parameter, or one so large that its product
\* overflows, may make a NaN of the output (0 * inf, inf - inf) - and the next
\* update with finite terms is back within them.
OutputsBounded ==
    pc \notin {"boot", "dead"} /\ ~poisoned =>
        /\ pitch # NaN /\ prev # NaN
        /\ integral \in -IntegralLimit .. IntegralLimit
        /\ wild \/ level \in PulseCenter - PulseSpan .. PulseCenter + PulseSpan

\* pid.h: D responds only to how fast the platform is moving.  It does, unless
\* since the last update an update was skipped, a read failed, a pass took too
\* long for the filter, or the filter was still correcting an older error.
NoDerivativeSpike == pc = "comm" /\ updated /\ steep => disturbed

\* The filtered angle comes no further from the platform's than by what was
\* lost: a good read of a pass the filter can integrate never adds an error.
FilterContracts ==
    [][pc = "sense" /\ pitch' # NaN
          => Abs(pitch' - angle') <= Abs(pitch - angle) + Rate * lost']_vars

\* A stall suspends the controller but does not end it: once passes are
\* short, the sensor answers and power-up has succeeded, updates go on for ever.
ControlResumes ==
    /\ <>[]~stalled
    /\ <>(pc = "comm")
    /\ []<>(pc # "sense")
    => []<>updated

=============================================================================
