------------------------------- MODULE Session -------------------------------
(***************************************************************************)
(* Masters and slave together, one frame at a time.  A master is a process *)
(* like XcpClient of tools/test_download.py: it opens the port, sleeps,    *)
(* empties its input buffer, and then writes one command after the other   *)
(* and reads one answer for each, without looking at the CTR.  A process   *)
(* may die at any moment, also in the middle of a write, and another one   *)
(* starts; the slave is not told, and keeps what it holds.                 *)
(*                                                                         *)
(* The slave is the loop of main.c with what the other modules establish   *)
(* of its parts: whole frames become packets, half of one is held until    *)
(* the idle timeout (RxLoop), every packet is executed and answered except *)
(* one whose answer is too long (XcpProtocol), an answer is cut when the   *)
(* port closes meanwhile (SxiTransmit).  The host takes what the slave     *)
(* sends within a tick while the port is open.  Header and payload of a    *)
(* command, which take two calls of the SxI task, are read in one step;    *)
(* the LoopGap before it stands for the pass between the two as well.      *)
(***************************************************************************)
EXTENDS Integers, Sequences

CONSTANTS
    Settle,      \* sleep of a master after opening the port, in ticks
    IdleTimeout, \* XCP_SXI_IDLE_TIMEOUT_MS, in ticks
    LoopGap,     \* longest time between two steps of the slave, in ticks
    Timeout,     \* timeout of the serial port, in ticks
    MaxCommands  \* bound: commands written in one behaviour

ASSUME SessionAssumption ==
    /\ {Settle, IdleTimeout, LoopGap, Timeout, MaxCommands} \subseteq Nat
    /\ 0 < LoopGap
    /\ IdleTimeout + 2 * LoopGap < Settle
    /\ 2 * LoopGap < Timeout

VARIABLES
    master,    \* "down", "settle", "ready" or "waiting"
    timer,     \* ticks the master has slept or waited
    current,   \* the last command written
    mute,      \* is it a read whose answer is too long?
    rx,        \* frames in the slave's receive FIFO
    partial,   \* does the parser hold half a command?
    silence,   \* ticks since the parser has read a byte
    pc,        \* the slave's next step
    unpolled,  \* ticks since the slave's last step
    dtr,       \* tud_cdc_n_connected
    fifo,      \* answers in the slave's transmit FIFO
    inbox,     \* answers in the master's input buffer
    executed,  \* history: the last command executed, or Garbled
    accepted   \* history: the last command whose answer was taken

masterVars == <<master, timer, current, mute>>
slaveVars == <<partial, silence, pc, unpolled, dtr>>
vars == <<masterVars, slaveVars, rx, fifo, inbox, executed, accepted>>

Garbled == -1
Open == master # "down"
Answer(id, whole) == [id |-> id, whole |-> whole]
Frame(kind) == [id |-> current + 1, kind |-> kind]

Init ==
    /\ master = "down" /\ timer = 0 /\ current = 0 /\ mute = FALSE
    /\ partial = FALSE /\ silence = 0
    /\ pc = "usb" /\ unpolled = 0 /\ dtr = FALSE
    /\ rx = <<>> /\ fifo = <<>> /\ inbox = <<>>
    /\ executed = 0 /\ accepted = 0

-----------------------------------------------------------------------------
\* The masters.

Start ==
    /\ master = "down"
    /\ master' = "settle"
    /\ timer' = 0
    /\ inbox' = <<>>
    /\ UNCHANGED <<current, mute, slaveVars, rx, fifo, executed, accepted>>

\* Slip: the input buffer is not emptied.
ReadyUnemptied ==
    /\ master = "settle"
    /\ timer = Settle
    /\ master' = "ready"
    /\ timer' = 0
    /\ UNCHANGED <<current, mute, slaveVars, rx, fifo, inbox, executed, accepted>>

\* Slip: the process does not sleep.
ReadyAtOnce ==
    /\ master = "settle"
    /\ master' = "ready"
    /\ timer' = 0
    /\ inbox' = <<>>
    /\ UNCHANGED <<current, mute, slaveVars, rx, fifo, executed, accepted>>

\* reset_input_buffer after the sleep.
Ready ==
    /\ master = "settle"
    /\ timer = Settle
    /\ master' = "ready"
    /\ timer' = 0
    /\ inbox' = <<>>
    /\ UNCHANGED <<current, mute, slaveVars, rx, fifo, executed, accepted>>

\* Write a command.
Command ==
    /\ master = "ready"
    /\ current < MaxCommands
    /\ mute' \in BOOLEAN
    /\ rx' = Append(rx, Frame(IF mute' THEN "mute" ELSE "whole"))
    /\ current' = current + 1
    /\ master' = "waiting"
    /\ timer' = 0
    /\ UNCHANGED <<slaveVars, fifo, inbox, executed, accepted>>

\* The process dies in the middle of the write.
CommandCut ==
    /\ master = "ready"
    /\ current < MaxCommands
    /\ rx' = Append(rx, Frame("cut"))
    /\ current' = current + 1
    /\ master' = "down"
    /\ timer' = 0
    /\ inbox' = <<>>
    /\ UNCHANGED <<mute, slaveVars, fifo, executed, accepted>>

\* Header and payload of an answer are read; whatever it is, it is taken for
\* the answer to this command.
Accept ==
    /\ master = "waiting"
    /\ inbox # <<>>
    /\ inbox' = Tail(inbox)
    /\ accepted' = IF Head(inbox).whole THEN Head(inbox).id ELSE Garbled
    /\ master' = "ready"
    /\ timer' = 0
    /\ UNCHANGED <<current, mute, slaveVars, rx, fifo, executed>>

\* TimeoutError; run_test goes on with the next test.
GiveUp ==
    /\ master = "waiting"
    /\ inbox = <<>>
    /\ timer = Timeout
    /\ master' = "ready"
    /\ timer' = 0
    /\ UNCHANGED <<current, mute, slaveVars, rx, fifo, inbox, executed, accepted>>

\* The process ends or dies: the system closes the port.
Exit ==
    /\ Open
    /\ master' = "down"
    /\ timer' = 0
    /\ inbox' = <<>>
    /\ UNCHANGED <<current, mute, slaveVars, rx, fifo, executed, accepted>>

\* The host takes what the slave sends.
HostRead ==
    /\ Open
    /\ fifo # <<>>
    /\ inbox' = inbox \o fifo
    /\ fifo' = <<>>
    /\ UNCHANGED <<masterVars, slaveVars, rx, executed, accepted>>

-----------------------------------------------------------------------------
\* The slave.

\* tud_task learns whether the port is open.
UsbTask ==
    /\ pc = "usb"
    /\ pc' = "commands"
    /\ dtr' = Open
    /\ unpolled' = 0
    /\ UNCHANGED <<masterVars, partial, silence, rx, fifo, inbox, executed, accepted>>

\* Slip: half a command is held for ever.
HeldForEver == partial

\* What is left of half a command when the SxI task looks at its clock.
Held == partial /\ silence <= IdleTimeout

\* send_packet: refused if the port looks closed, cut if it closes meanwhile.
Send(a) ==
    fifo' \in IF ~dtr THEN {fifo}
              ELSE {Append(fifo, a)} \cup
                   (IF Open THEN {} ELSE {Append(fifo, [a EXCEPT !.whole = FALSE])})

\* The SxI task and the protocol task find nothing to read.
Idle ==
    /\ rx = <<>>
    /\ partial' = Held
    /\ UNCHANGED <<silence, rx, fifo, executed, accepted>>

\* The parser reads half a command.
Half ==
    /\ rx # <<>> /\ ~Held
    /\ Head(rx).kind = "cut"
    /\ partial' = TRUE
    /\ silence' = 0
    /\ rx' = Tail(rx)
    /\ UNCHANGED <<fifo, executed, accepted>>

\* Slip: the packet is not released and is executed again.
ExecuteAgain ==
    /\ rx # <<>>
    /\ Held \/ Head(rx).kind # "cut"
    /\ executed' = IF Held THEN Garbled ELSE Head(rx).id
    /\ IF Head(rx).kind = "mute" THEN UNCHANGED fifo ELSE Send(Answer(executed', TRUE))
    /\ partial' \in IF Held THEN BOOLEAN ELSE {FALSE}
    /\ silence' = 0
    /\ UNCHANGED rx

\* A whole command is read, header and payload at once, executed and answered;
\* if half of another one is held, its bytes complete that one instead.
Execute ==
    /\ rx # <<>>
    /\ Held \/ Head(rx).kind # "cut"
    /\ executed' = IF Held THEN Garbled ELSE Head(rx).id
    /\ IF Head(rx).kind = "mute" THEN UNCHANGED fifo ELSE Send(Answer(executed', TRUE))
    /\ partial' \in IF Held THEN BOOLEAN ELSE {FALSE}
    /\ silence' = 0
    /\ rx' = Tail(rx)

Commands ==
    /\ pc = "commands"
    /\ pc' = "usb"
    /\ unpolled' = 0
    /\ Idle \/ Half \/ Execute
    /\ UNCHANGED <<masterVars, dtr, inbox, accepted>>

Tick ==
    /\ unpolled < LoopGap
    /\ ~(Open /\ fifo # <<>>)
    /\ unpolled' = unpolled + 1
    /\ silence' = IF silence <= IdleTimeout THEN silence + 1 ELSE silence
    /\ \/ master = "settle" /\ timer < Settle /\ timer' = timer + 1
       \/ master = "waiting" /\ timer < Timeout /\ inbox = <<>> /\ timer' = timer + 1
       \/ master \in {"down", "ready"} /\ UNCHANGED timer
    /\ UNCHANGED <<master, current, mute, partial, pc, dtr, rx, fifo, inbox, executed, accepted>>

Next ==
    \/ Start \/ Ready \/ Command \/ CommandCut \/ Accept \/ GiveUp \/ Exit
    \/ HostRead \/ UsbTask \/ Commands \/ Tick

Spec == Init /\ [][Next]_vars

-----------------------------------------------------------------------------
\* Properties.

Commanded == 0 .. MaxCommands
Answers == [id : Commanded \cup {Garbled}, whole : BOOLEAN]

\* Every variable has its type, and no queue holds two entries: whatever a dead
\* process left has gone when the next one writes.
TypeOK ==
    /\ Len(rx) <= 1 /\ Len(fifo) <= 1 /\ Len(inbox) <= 1
    /\ master \in {"down", "settle", "ready", "waiting"}
    /\ timer \in 0 .. Settle + Timeout /\ current \in Commanded /\ mute \in BOOLEAN
    /\ rx \in Seq([id : Commanded, kind : {"whole", "mute", "cut"}])
    /\ partial \in BOOLEAN /\ silence \in 0 .. IdleTimeout + 1
    /\ pc \in {"usb", "commands"} /\ unpolled \in 0 .. LoopGap /\ dtr \in BOOLEAN
    /\ fifo \in Seq(Answers) /\ inbox \in Seq(Answers)
    /\ {executed, accepted} \subseteq Commanded \cup {Garbled}

\* A master that waits can only ever read the answer to its own command, though
\* it checks nothing: neither an answer to an earlier process nor the rest of
\* one reaches it.
OwnAnswer ==
    master = "waiting" => inbox \o fifo \in {<<>>, <<Answer(current, TRUE)>>}

\* Masters that die and restart, half commands, cut answers and ports that close
\* unseen together are still an exchange: every command at most once and in
\* order, never one pieced together from two, every answer to its own command.
Service == INSTANCE Exchange WITH asked <- current, done <- executed, told <- accepted
RequestReply == Service!ExchangeSpec

\* A process that lives on loses no answer: it runs into its timeout only after
\* a read whose answer is too long, and the command has been executed then too.
TimeoutMeansMute ==
    master = "waiting" /\ timer = Timeout /\ inbox = <<>>
        => mute /\ executed = current

=============================================================================
