----------------------------- MODULE SessionProofs -----------------------------
(***************************************************************************)
(* Proofs about masters and slave, for every sleep, timeout and loop       *)
(* period that SessionAssumption allows and any number of commands.        *)
(*                                                                         *)
(* Nobody tells the slave that a process has died and nobody tells the     *)
(* next process what the slave still holds; only time separates them.  The *)
(* inductive invariant therefore bounds what may still be under way by the *)
(* clock of the master: a command is read within two passes of the loop    *)
(* (RxFresh), an open port is known within two (PortKnown), an answer is   *)
(* taken before the next tick (FifoTaken), and half a command that is      *)
(* still held is not older than the sleep allows (HalfExpires).            *)
(***************************************************************************)
EXTENDS Session, TLAPS

\* A queue of at most one entry.
Queue(S) == {<<>>} \cup {<<x>> : x \in S}
Frames == [id : Commanded, kind : {"whole", "mute", "cut"}]

\* Bound on the ticks since a moment after the slave's last step but one; the
\* next step is pc.
Age(step) == IF pc = step THEN LoopGap + unpolled ELSE unpolled

Numbers ==
    /\ current \in 0 .. MaxCommands
    /\ silence \in 0 .. IdleTimeout + 1
    /\ unpolled \in 0 .. LoopGap
    /\ master \in {"down", "settle", "ready", "waiting"}
    /\ pc \in {"usb", "commands"}
Flags == mute \in BOOLEAN /\ partial \in BOOLEAN /\ dtr \in BOOLEAN

TimerRange ==
    /\ timer \in Nat
    /\ master \in {"down", "ready"} => timer = 0
    /\ master = "settle" => timer <= Settle
    /\ master = "waiting" => timer <= Timeout

\* A command that is not yet read has been written a moment ago.
RxFresh == rx # <<>> /\ master \in {"settle", "waiting"} => timer <= Age("commands")

\* The slave learns within two steps that a port is open.
PortKnown == Open /\ ~dtr => master = "settle" /\ timer <= Age("usb")

\* What the slave has sent is taken before time passes.
FifoTaken == Open /\ timer > 2 * LoopGap => fifo = <<>>

\* A sleeping master outlasts half a command of an earlier process.
HalfExpires == master = "settle" /\ Held => timer <= silence + 2 * LoopGap

\* Whoever writes a command writes it to a parser that holds nothing.
NotHeld == rx # <<>> \/ master \in {"ready", "waiting"} => ~Held

\* At most one of a command and its answer is under way.
OneInFlight ==
    /\ rx \in Queue(Frames) /\ fifo \in Queue(Answers) /\ inbox \in Queue(Answers)
    /\ rx # <<>> => fifo = <<>> /\ inbox = <<>>
    /\ fifo # <<>> => inbox = <<>>
    /\ master = "ready" => rx = <<>> /\ fifo = <<>> /\ inbox = <<>>
    /\ master = "down" => inbox = <<>>

InOrder ==
    /\ executed \in 0 .. current
    /\ accepted \in 0 .. current
    /\ rx # <<>> => Head(rx).id = current /\ executed < current

\* The command of a waiting master is not yet read, or executed and answered.
Kind == IF mute THEN "mute" ELSE "whole"
Pending ==
    master = "waiting" =>
        /\ accepted < current
        /\ \/ rx # <<>> /\ Head(rx).kind = Kind
           \/ /\ rx = <<>> /\ executed = current
              /\ IF mute THEN fifo = <<>> /\ inbox = <<>>
                         ELSE <<Answer(current, TRUE)>> \in {fifo, inbox}

IInv ==
    /\ Numbers /\ Flags /\ TimerRange
    /\ RxFresh /\ PortKnown /\ FifoTaken /\ HalfExpires /\ NotHeld
    /\ OneInFlight /\ InOrder /\ Pending

-----------------------------------------------------------------------------
\* Lemmas about the constants and short queues.

LEMMA Periods ==
    /\ Settle \in Nat /\ IdleTimeout \in Nat /\ LoopGap \in Nat /\ Timeout \in Nat
    /\ MaxCommands \in Nat
    /\ 0 < LoopGap /\ IdleTimeout + 2 * LoopGap < Settle /\ 2 * LoopGap < Timeout
BY SessionAssumption

LEMMA ShortQueue ==
    ASSUME NEW S, NEW q \in Queue(S)
    PROVE  /\ q \in Seq(S) /\ Len(q) <= 1
           /\ \/ q = <<>>
              \/ q = <<Head(q)>> /\ Head(q) \in S /\ Tail(q) = <<>>
<1>1. <<>> \in Seq(S) /\ Len(<<>>) <= 1
  OBVIOUS
<1>2. ASSUME NEW x \in S, q = <<x>>
      PROVE  /\ q \in Seq(S) /\ Len(q) <= 1
             /\ q = <<Head(q)>> /\ Head(q) \in S /\ Tail(q) = <<>>
  <2>1. q \in Seq(S) /\ Len(q) = 1 /\ Head(q) = x
    BY <1>2
  <2>2. Tail(q) = <<>>
    BY <1>2
  <2> QED
    BY <2>1, <2>2
<1>3. q = <<>> \/ \E x \in S : q = <<x>>
  BY DEF Queue
<1>4. CASE q = <<>>
  BY <1>1, <1>4
<1>5. CASE \E x \in S : q = <<x>>
  BY <1>2, <1>5
<1> QED
  BY <1>3, <1>4, <1>5

LEMMA OneEntry ==
    ASSUME NEW S, NEW x \in S
    PROVE  /\ Append(<<>>, x) = <<x>> /\ <<x>> \in Queue(S)
           /\ <<>> \in Queue(S)
           /\ <<x>> # <<>> /\ Head(<<x>>) = x /\ Tail(<<x>>) = <<>>
BY DEF Queue

LEMMA CutShort ==
    ASSUME NEW i, NEW v, NEW w
    PROVE  [[id |-> i, whole |-> v] EXCEPT !.whole = w] = [id |-> i, whole |-> w]
OBVIOUS

LEMMA NothingBefore ==
    ASSUME NEW S, NEW q \in Queue(S)
    PROVE  <<>> \o q = q /\ q \o <<>> = q
BY ShortQueue

\* Every step of the slave that finds a command reads it.
LEMMA SlaveReads ==
    ASSUME OneInFlight, Commands
    PROVE  /\ pc = "commands" /\ pc' = "usb" /\ unpolled' = 0
           /\ rx' = <<>>
BY ShortQueue DEF Commands, Idle, Half, Execute, OneInFlight

-----------------------------------------------------------------------------
\* The parts of the invariant that speak of time.

LEMMA NumbersNext == ASSUME Numbers, [Next]_vars PROVE Numbers'
<1> USE Periods DEF Numbers
<1>1. CASE Start \/ Ready \/ Accept \/ GiveUp \/ Exit \/ HostRead \/ UNCHANGED vars
  BY <1>1 DEF Start, Ready, Accept, GiveUp, Exit, HostRead, vars, masterVars, slaveVars
<1>2. CASE Command \/ CommandCut
  BY <1>2 DEF Command, CommandCut, slaveVars
<1>3. CASE UsbTask
  BY <1>3 DEF UsbTask, masterVars
<1>4. CASE Commands
  <2>1. silence' \in {silence, 0}
    BY <1>4 DEF Commands, Idle, Half, Execute
  <2>2. /\ pc' = "usb" /\ unpolled' = 0
        /\ UNCHANGED <<master, current>>
    BY <1>4 DEF Commands, masterVars
  <2> QED
    BY <2>1, <2>2
<1>5. CASE Tick
  BY <1>5 DEF Tick
<1> QED
  BY <1>1, <1>2, <1>3, <1>4, <1>5 DEF Next

LEMMA FlagsNext == ASSUME Flags, [Next]_vars PROVE Flags'
<1>1. Held \in BOOLEAN /\ Open \in BOOLEAN
  BY DEF Held, Open, Flags
<1> QED
  BY <1>1 DEF Flags, Next, vars, masterVars, slaveVars, Start, Ready, Command,
     CommandCut, Accept, GiveUp, Exit, HostRead, UsbTask, Commands, Idle, Half,
     Execute, Tick

LEMMA TimerNext == ASSUME Numbers, TimerRange, [Next]_vars PROVE TimerRange'
<1> USE Periods DEF TimerRange
<1>1. CASE Start \/ Ready \/ Command \/ CommandCut \/ Accept \/ GiveUp \/ Exit
  BY <1>1 DEF Start, Ready, Command, CommandCut, Accept, GiveUp, Exit
<1>2. CASE HostRead \/ UsbTask \/ Commands \/ UNCHANGED vars
  BY <1>2 DEF HostRead, UsbTask, Commands, vars, masterVars
<1>3. CASE Tick
  BY <1>3 DEF Tick, Numbers
<1> QED
  BY <1>1, <1>2, <1>3 DEF Next

LEMMA RxFreshNext ==
    ASSUME Numbers, TimerRange, OneInFlight, RxFresh, [Next]_vars
    PROVE  RxFresh'
<1>1. CASE Start \/ Ready \/ Command \/ CommandCut \/ Accept \/ GiveUp \/ Exit
  BY <1>1, Periods DEF RxFresh, Age, Numbers, slaveVars, Start, Ready, Command,
     CommandCut, Accept, GiveUp, Exit
<1>2. CASE HostRead \/ UNCHANGED vars
  BY <1>2 DEF RxFresh, Age, HostRead, vars, masterVars, slaveVars
<1>3. CASE UsbTask
  BY <1>3, Periods DEF RxFresh, Age, Numbers, TimerRange, UsbTask, masterVars
<1>4. CASE Commands
  BY <1>4, SlaveReads DEF RxFresh
<1>5. CASE Tick
  BY <1>5, Periods DEF RxFresh, Age, Numbers, TimerRange, Tick
<1> QED
  BY <1>1, <1>2, <1>3, <1>4, <1>5 DEF Next

LEMMA PortKnownNext ==
    ASSUME Numbers, Flags, TimerRange, PortKnown, [Next]_vars
    PROVE  PortKnown'
<1> USE Periods DEF PortKnown, Open
<1>1. CASE Start \/ Exit \/ CommandCut
  BY <1>1 DEF Age, Numbers, slaveVars, Start, Exit, CommandCut
<1>2. CASE Ready
  <2>1. dtr
    BY <1>2 DEF Ready, Age, Numbers, TimerRange
  <2> QED
    BY <1>2, <2>1 DEF Ready, slaveVars
<1>3. CASE Command \/ Accept \/ GiveUp
  BY <1>3 DEF slaveVars, Command, Accept, GiveUp
<1>4. CASE HostRead \/ UNCHANGED vars
  BY <1>4 DEF Age, HostRead, vars, masterVars, slaveVars
<1>5. CASE UsbTask
  BY <1>5 DEF UsbTask, masterVars
<1>6. CASE Commands
  BY <1>6 DEF Age, Numbers, TimerRange, Commands, masterVars
<1>7. CASE Tick
  BY <1>7 DEF Age, Numbers, TimerRange, Tick
<1> QED
  BY <1>1, <1>2, <1>3, <1>4, <1>5, <1>6, <1>7 DEF Next

LEMMA FifoTakenNext ==
    ASSUME Numbers, TimerRange, RxFresh, OneInFlight, FifoTaken, [Next]_vars
    PROVE  FifoTaken'
<1> USE Periods DEF FifoTaken, Open
<1>1. CASE Start \/ Ready \/ Command \/ CommandCut \/ Accept \/ GiveUp \/ Exit
  BY <1>1 DEF Start, Ready, Command, CommandCut, Accept, GiveUp, Exit
<1>2. CASE HostRead \/ UsbTask \/ UNCHANGED vars
  BY <1>2 DEF HostRead, UsbTask, vars, masterVars
<1>3. CASE Commands
  <2>1. CASE rx = <<>>
    BY <1>3, <2>1 DEF Commands, Idle, Half, Execute, masterVars
  <2>2. CASE rx # <<>>
    <3>1. Open => timer <= 2 * LoopGap
      BY <2>2 DEF RxFresh, Age, Numbers, TimerRange
    <3> QED
      BY <1>3, <3>1 DEF Commands, masterVars, TimerRange
  <2> QED
    BY <2>1, <2>2
<1>4. CASE Tick
  BY <1>4 DEF Tick
<1> QED
  BY <1>1, <1>2, <1>3, <1>4 DEF Next

LEMMA HalfExpiresNext ==
    ASSUME Numbers, Flags, TimerRange, OneInFlight, RxFresh, NotHeld, HalfExpires,
           [Next]_vars
    PROVE  HalfExpires'
<1> USE Periods DEF HalfExpires, Held
<1>1. CASE Start \/ Ready \/ Command \/ CommandCut \/ Accept \/ GiveUp \/ Exit
  BY <1>1 DEF Numbers, slaveVars, Start, Ready, Command, CommandCut, Accept, GiveUp, Exit
<1>2. CASE HostRead \/ UsbTask \/ UNCHANGED vars
  BY <1>2 DEF HostRead, UsbTask, vars, masterVars, slaveVars
<1>3. CASE Commands
  <2>1. CASE rx = <<>>
    BY <1>3, <2>1 DEF Commands, Idle, Half, Execute, masterVars
  <2>2. CASE rx # <<>>
    <3>1. master = "settle" => timer <= 2 * LoopGap
      BY <2>2 DEF RxFresh, Age, Numbers, TimerRange
    <3>2. silence' = 0 /\ UNCHANGED <<master, timer>>
      BY <1>3, <2>2 DEF Commands, Idle, Half, Execute, masterVars
    <3> QED
      BY <3>1, <3>2 DEF TimerRange
  <2> QED
    BY <2>1, <2>2
<1>4. CASE Tick
  BY <1>4 DEF Tick, Numbers, TimerRange
<1> QED
  BY <1>1, <1>2, <1>3, <1>4 DEF Next

LEMMA NotHeldNext ==
    ASSUME Numbers, Flags, TimerRange, OneInFlight, Pending, NotHeld, HalfExpires,
           [Next]_vars
    PROVE  NotHeld'
<1> USE DEF NotHeld, Held
<1>1. CASE Start \/ Accept \/ GiveUp \/ Exit \/ Command \/ CommandCut
  BY <1>1 DEF slaveVars, Start, Accept, GiveUp, Exit, Command, CommandCut
<1>2. CASE Ready
  BY <1>2, Periods DEF Ready, slaveVars, HalfExpires, Numbers
<1>3. CASE HostRead \/ UsbTask \/ UNCHANGED vars
  BY <1>3 DEF HostRead, UsbTask, vars, masterVars, slaveVars
<1>4. CASE Commands
  <2>1. rx' = <<>> /\ master' = master
    BY <1>4, SlaveReads DEF Commands, masterVars
  <2>2. CASE Idle
    BY <2>1, <2>2 DEF Idle
  <2>3. CASE Half
    <3>1. master \notin {"ready", "waiting"}
      BY <2>3 DEF Half, OneInFlight, Pending, Kind
    <3> QED
      BY <2>1, <3>1
  <2>4. CASE Execute
    BY <2>1, <2>4 DEF Execute
  <2> QED
    BY <1>4, <2>2, <2>3, <2>4 DEF Commands
<1>5. CASE Tick
  BY <1>5 DEF Tick, Numbers
<1> QED
  BY <1>1, <1>2, <1>3, <1>4, <1>5 DEF Next

-----------------------------------------------------------------------------
\* The parts of the invariant that speak of what is under way.

\* What the slave does with a command.
LEMMA SlaveStep ==
    ASSUME NotHeld, OneInFlight, InOrder, Commands, rx # <<>>
    PROVE  \/ /\ Head(rx).kind = "cut"
              /\ UNCHANGED <<fifo, executed>>
           \/ /\ Head(rx).kind = "mute"
              /\ executed' = current /\ fifo' = <<>>
           \/ /\ Head(rx).kind = "whole"
              /\ executed' = current
              /\ fifo' \in {<<>>, <<Answer(current, TRUE)>>, <<Answer(current, FALSE)>>}
              /\ dtr /\ Open => fifo' = <<Answer(current, TRUE)>>
<1>1. /\ fifo = <<>> /\ ~Held /\ Head(rx).id = current
      /\ Head(rx).kind \in {"whole", "mute", "cut"}
  <2>1. Head(rx) \in Frames
    BY ShortQueue DEF OneInFlight
  <2> QED
    BY <2>1 DEF NotHeld, OneInFlight, InOrder, Frames
<1>2. CASE Half
  BY <1>1, <1>2 DEF Half
<1>3. CASE Execute
  <2>1. executed' = current /\ Head(rx).kind # "cut"
    BY <1>1, <1>3 DEF Execute
  <2>2. CASE Head(rx).kind = "mute"
    BY <1>1, <1>3, <2>1, <2>2 DEF Execute
  <2>3. CASE Head(rx).kind = "whole"
    <3>1. Send(Answer(current, TRUE))
      BY <1>3, <2>1, <2>3 DEF Execute
    <3>2. [Answer(current, TRUE) EXCEPT !.whole = FALSE] = Answer(current, FALSE)
      BY CutShort DEF Answer
    <3>3. /\ Append(fifo, Answer(current, TRUE)) = <<Answer(current, TRUE)>>
          /\ Append(fifo, Answer(current, FALSE)) = <<Answer(current, FALSE)>>
      BY <1>1, OneEntry
    <3> QED
      BY <1>1, <2>1, <2>3, <3>1, <3>2, <3>3 DEF Send
  <2> QED
    BY <1>1, <2>1, <2>2, <2>3
<1>4. ~Idle
  BY DEF Idle
<1> QED
  BY <1>2, <1>3, <1>4 DEF Commands

LEMMA OneInFlightNext ==
    ASSUME Numbers, Flags, TimerRange, RxFresh, FifoTaken, NotHeld, OneInFlight,
           InOrder, Pending, [Next]_vars
    PROVE  OneInFlight'
<1>1. CASE Start \/ Exit
  BY <1>1, OneEntry DEF OneInFlight, Start, Exit, Queue
<1>2. CASE Ready
  <2>1. rx = <<>> /\ fifo = <<>>
    BY <1>2, Periods DEF Ready, RxFresh, FifoTaken, Open, Age, Numbers
  <2> QED
    BY <1>2, <2>1 DEF OneInFlight, Ready, Queue
<1>3. CASE Command \/ CommandCut
  <2>1. rx = <<>> /\ fifo = <<>> /\ inbox = <<>> /\ fifo' = fifo /\ inbox' = <<>>
    BY <1>3 DEF OneInFlight, Command, CommandCut
  <2>2. PICK kind \in {"whole", "mute", "cut"} : rx' = Append(rx, Frame(kind))
    BY <1>3 DEF Command, CommandCut
  <2>3. Frame(kind) \in Frames
    BY <1>3, Periods DEF Command, CommandCut, Frame, Frames, Numbers, Commanded
  <2>4. rx' \in Queue(Frames) /\ rx' # <<>>
    BY <2>1, <2>2, <2>3, OneEntry
  <2>5. master' \in {"waiting", "down"}
    BY <1>3 DEF Command, CommandCut
  <2> QED
    BY <2>1, <2>4, <2>5 DEF OneInFlight
<1>4. CASE Accept
  <2>1. rx = <<>> /\ fifo = <<>> /\ inbox' = <<>>
    BY <1>4, ShortQueue DEF OneInFlight, Accept
  <2> QED
    BY <1>4, <2>1 DEF OneInFlight, Accept, Queue
<1>5. CASE GiveUp
  <2>1. rx = <<>> /\ fifo = <<>>
    BY <1>5, Periods DEF GiveUp, RxFresh, FifoTaken, Open, Age, Numbers
  <2> QED
    BY <1>5, <2>1 DEF OneInFlight, GiveUp
<1>6. CASE HostRead
  <2>1. inbox = <<>> /\ inbox' = fifo /\ fifo' = <<>> /\ rx = <<>>
    BY <1>6, NothingBefore DEF OneInFlight, HostRead
  <2>2. master' \notin {"ready", "down"}
    BY <1>6 DEF OneInFlight, HostRead, Open, masterVars
  <2> QED
    BY <1>6, <2>1, <2>2 DEF OneInFlight, HostRead, Queue
<1>7. CASE UsbTask \/ Tick \/ UNCHANGED vars
  BY <1>7 DEF OneInFlight, UsbTask, Tick, vars, masterVars
<1>8. CASE Commands
  <2>1. rx' = <<>> /\ inbox' = inbox /\ master' = master
    BY <1>8, SlaveReads DEF Commands, masterVars
  <2>2. rx' \in Queue(Frames)
    BY <2>1, OneEntry DEF Queue
  <2>3. CASE rx = <<>>
    BY <1>8, <2>1, <2>2, <2>3 DEF OneInFlight, Commands, Idle, Half, Execute
  <2>4. CASE rx # <<>>
    <3>1. fifo' \in {<<>>, <<Answer(current, TRUE)>>, <<Answer(current, FALSE)>>}
      BY <1>8, <2>4, SlaveStep DEF OneInFlight
    <3>2. Answer(current, TRUE) \in Answers /\ Answer(current, FALSE) \in Answers
      BY DEF Answer, Answers, Numbers, Commanded
    <3>3. fifo' \in Queue(Answers)
      BY <3>1, <3>2 DEF Queue
    <3> QED
      BY <2>1, <2>2, <2>4, <3>3 DEF OneInFlight
  <2> QED
    BY <2>3, <2>4
<1> QED
  BY <1>1, <1>2, <1>3, <1>4, <1>5, <1>6, <1>7, <1>8 DEF Next

\* A waiting master takes the whole answer to its own command.
LEMMA TakenIsOwn ==
    ASSUME OneInFlight, Pending, Accept
    PROVE  /\ accepted' = current /\ executed = current /\ accepted < current
           /\ UNCHANGED <<current, executed>>
<1>1. master = "waiting" /\ inbox # <<>> /\ rx = <<>> /\ fifo = <<>>
  BY DEF OneInFlight, Accept
<1>2. inbox = <<Answer(current, TRUE)>>
  BY <1>1 DEF Pending
<1>3. Head(inbox).whole = TRUE /\ Head(inbox).id = current
  BY <1>2 DEF Answer
<1> QED
  BY <1>1, <1>3 DEF Pending, Accept

LEMMA InOrderNext ==
    ASSUME Numbers, NotHeld, OneInFlight, InOrder, Pending, [Next]_vars
    PROVE  InOrder'
<1>1. CASE Start \/ Ready \/ GiveUp \/ Exit \/ HostRead \/ UsbTask \/ Tick
           \/ UNCHANGED vars
  BY <1>1 DEF InOrder, Start, Ready, GiveUp, Exit, HostRead, UsbTask, Tick, vars,
     masterVars
<1>2. CASE Command \/ CommandCut
  <2>1. PICK kind \in {"whole", "mute", "cut"} : rx' = Append(rx, Frame(kind))
    BY <1>2 DEF Command, CommandCut
  <2>2. rx = <<>> /\ current' = current + 1 /\ UNCHANGED <<executed, accepted>>
    BY <1>2 DEF OneInFlight, Command, CommandCut
  <2>3. Head(rx') = Frame(kind)
    BY <2>1, <2>2, OneEntry
  <2>4. Head(rx').id = current'
    BY <2>2, <2>3 DEF Frame
  <2> QED
    BY <2>2, <2>4 DEF InOrder, Numbers
<1>3. CASE Accept
  <2>1. accepted' = current
    BY <1>3, TakenIsOwn
  <2> QED
    BY <1>3, <2>1 DEF InOrder, Accept, Numbers
<1>4. CASE Commands
  <2>1. rx' = <<>> /\ UNCHANGED <<current, accepted>>
    BY <1>4, SlaveReads DEF Commands, masterVars
  <2>2. executed' \in {executed, current}
    BY <1>4, SlaveStep DEF Commands, Idle, Half, Execute
  <2> QED
    BY <2>1, <2>2 DEF InOrder, Numbers
<1> QED
  BY <1>1, <1>2, <1>3, <1>4 DEF Next

LEMMA PendingNext ==
    ASSUME Numbers, Flags, TimerRange, PortKnown, NotHeld, OneInFlight, InOrder,
           Pending, [Next]_vars
    PROVE  Pending'
<1> SUFFICES ASSUME master' = "waiting"
             PROVE  Pending'
  BY DEF Pending
<1>1. CASE Start \/ Ready \/ CommandCut \/ Accept \/ GiveUp \/ Exit
  BY <1>1 DEF Start, Ready, CommandCut, Accept, GiveUp, Exit
<1>2. CASE Command
  <2>1. rx = <<>> /\ current' = current + 1 /\ accepted' = accepted
        /\ rx' = Append(rx, Frame(Kind'))
    BY <1>2 DEF OneInFlight, Command, Kind
  <2>2. rx' # <<>> /\ Head(rx') = Frame(Kind')
    BY <2>1, OneEntry
  <2>3. accepted' < current'
    BY <2>1 DEF InOrder, Numbers
  <2>4. Head(rx').kind = Kind'
    BY <2>2 DEF Frame
  <2> QED
    BY <2>2, <2>3, <2>4 DEF Pending
<1>3. CASE HostRead
  <2>1. inbox' = fifo /\ fifo' = <<>> /\ rx = <<>> /\ fifo # <<>>
        /\ UNCHANGED <<rx, executed, accepted, current, mute, master>>
    BY <1>3, NothingBefore DEF OneInFlight, HostRead, masterVars
  <2>2. inbox = <<>>
    BY <1>3 DEF OneInFlight, HostRead
  <2> QED
    BY <2>1, <2>2 DEF Pending, Answer
<1>4. CASE UsbTask \/ Tick \/ UNCHANGED vars
  BY <1>4 DEF Pending, Kind, Answer, UsbTask, Tick, vars, masterVars
<1>5. CASE Commands
  <2>1. rx' = <<>> /\ UNCHANGED <<master, current, mute, inbox, accepted>>
    BY <1>5, SlaveReads DEF Commands, masterVars
  <2>2. CASE rx = <<>>
    BY <1>5, <2>1, <2>2 DEF Pending, Commands, Idle, Half, Execute
  <2>3. CASE rx # <<>>
    <3>1. dtr /\ Open
      BY <2>1 DEF PortKnown, Open
    <3>2. Head(rx).kind = Kind /\ inbox = <<>> /\ accepted < current
      BY <2>1, <2>3 DEF Pending, OneInFlight
    <3>3. /\ executed' = current
          /\ IF mute THEN fifo' = <<>> ELSE fifo' = <<Answer(current, TRUE)>>
      BY <1>5, <2>3, <3>1, <3>2, SlaveStep DEF Kind
    <3> QED
      BY <2>1, <3>2, <3>3 DEF Pending, Answer
  <2> QED
    BY <2>2, <2>3
<1> QED
  BY <1>1, <1>2, <1>3, <1>4, <1>5 DEF Next

-----------------------------------------------------------------------------
\* The theorems.

LEMMA InvInit == Init => IInv
<1> SUFFICES ASSUME Init PROVE IInv
  OBVIOUS
<1>0. Numbers
  BY Periods DEF Init, Numbers
<1>1. Flags /\ TimerRange
  BY Periods DEF Init, Flags, TimerRange
<1>2. OneInFlight
  BY DEF Init, OneInFlight, Queue
<1>3. RxFresh /\ PortKnown /\ FifoTaken /\ HalfExpires /\ NotHeld
  BY DEF Init, RxFresh, PortKnown, FifoTaken, HalfExpires, NotHeld, Open, Held
<1>4. InOrder /\ Pending
  BY DEF Init, InOrder, Pending
<1> QED
  BY <1>0, <1>1, <1>2, <1>3, <1>4 DEF IInv

LEMMA InvNext == IInv /\ [Next]_vars => IInv'
BY NumbersNext, FlagsNext, TimerNext, RxFreshNext, PortKnownNext, FifoTakenNext,
   HalfExpiresNext, NotHeldNext, OneInFlightNext, InOrderNext, PendingNext
   DEF IInv

THEOREM Invariance == Spec => []IInv
BY InvInit, InvNext, PTL DEF Spec

\* Every variable has its type, and nothing piles up: however processes die,
\* no queue between master and slave ever holds two entries.
THEOREM TypeCorrect == Spec => []TypeOK
<1>1. IInv => TypeOK
  <2> SUFFICES ASSUME IInv PROVE TypeOK
    OBVIOUS
  <2>1. /\ rx \in Seq(Frames) /\ Len(rx) <= 1
        /\ fifo \in Seq(Answers) /\ Len(fifo) <= 1
        /\ inbox \in Seq(Answers) /\ Len(inbox) <= 1
    BY ShortQueue DEF IInv, OneInFlight
  <2>2. timer \in 0 .. Settle + Timeout
    BY Periods DEF IInv, TimerRange, Numbers
  <2>3. {executed, accepted} \subseteq Commanded \cup {Garbled}
    BY Periods DEF IInv, InOrder, Numbers, Commanded
  <2> QED
    BY <2>1, <2>2, <2>3 DEF IInv, Numbers, Flags, Commanded, TypeOK, Frames
<1> QED
  BY <1>1, Invariance, PTL

\* A waiting master can only read the answer to its own command.
THEOREM OwnAnswerCorrect == Spec => []OwnAnswer
<1>1. IInv => OwnAnswer
  <2> SUFFICES ASSUME IInv, master = "waiting"
               PROVE  inbox \o fifo \in {<<>>, <<Answer(current, TRUE)>>}
    BY DEF OwnAnswer
  <2>1. fifo = <<>> \/ inbox = <<>>
    BY DEF IInv, OneInFlight
  <2>2. inbox \o fifo \in {inbox, fifo}
    BY <2>1, NothingBefore DEF IInv, OneInFlight
  <2>3. {inbox, fifo} \subseteq {<<>>, <<Answer(current, TRUE)>>}
    BY <2>1, OneEntry DEF IInv, OneInFlight, Pending
  <2> QED
    BY <2>2, <2>3
<1> QED
  BY <1>1, Invariance, PTL

\* A master that lives on runs into its timeout only after a read whose answer
\* is too long.
THEOREM TimeoutMeansMuteCorrect == Spec => []TimeoutMeansMute
<1>1. IInv => TimeoutMeansMute
  <2> SUFFICES ASSUME IInv, master = "waiting", timer = Timeout, inbox = <<>>
               PROVE  mute /\ executed = current
    BY DEF TimeoutMeansMute
  <2>1. rx = <<>> /\ fifo = <<>>
    BY Periods DEF IInv, RxFresh, FifoTaken, Open, Age, Numbers
  <2> QED
    BY <2>1, OneEntry DEF IInv, Pending
<1> QED
  BY <1>1, Invariance, PTL

\* Every step of masters and slave is one step of the exchange, or none.
LEMMA StepMaps ==
    ASSUME IInv, [Next]_vars
    PROVE  [Service!ExchangeNext]_(Service!exchangeVars)
<1> USE DEF Service!ExchangeNext, Service!exchangeVars
<1>1. CASE Start \/ Ready \/ GiveUp \/ Exit \/ HostRead \/ UsbTask \/ Tick
           \/ UNCHANGED vars
  BY <1>1 DEF Start, Ready, GiveUp, Exit, HostRead, UsbTask, Tick, vars, masterVars
<1>2. CASE Command \/ CommandCut
  BY <1>2 DEF Command, CommandCut, Service!Ask
<1>3. CASE Accept
  BY <1>3, TakenIsOwn DEF IInv, InOrder, Service!Tell
<1>4. CASE Commands
  <2>1. UNCHANGED <<current, accepted>>
    BY <1>4 DEF Commands, masterVars
  <2>2. executed' = executed \/ (executed' = current /\ executed < current)
    BY <1>4, SlaveStep DEF IInv, InOrder, Commands, Idle, Half, Execute
  <2> QED
    BY <2>1, <2>2 DEF IInv, InOrder, Numbers, Service!Do
<1> QED
  BY <1>1, <1>2, <1>3, <1>4 DEF Next

\* Masters that die and restart, half commands, cut answers and ports that close
\* unseen are together an exchange of commands and answers.
THEOREM RequestReplyCorrect == Spec => RequestReply
<1>1. Init => Service!ExchangeInit
  BY DEF Init, Service!ExchangeInit
<1> QED
  BY <1>1, StepMaps, Invariance, PTL DEF Spec, RequestReply, Service!ExchangeSpec
=============================================================================
