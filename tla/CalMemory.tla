------------------------------ MODULE CalMemory ------------------------------
(***************************************************************************)
(* What the command processor promises a calibration tool: a byte memory   *)
(* behind a transfer pointer.  The tool asks for one operation at a time,  *)
(* with its parameters; the operation is executed as a whole, with exactly *)
(* these parameters, or refused if its block is not in the RAM.  Only the  *)
(* answer may be lost.                                                     *)
(***************************************************************************)
EXTENDS Integers, Sequences

CONSTANTS Bytes,     \* values of a memory cell
          First, End, \* the RAM is First .. End - 1
          Top        \* size of the address space

VARIABLES memory,    \* contents of the RAM
          pointer,   \* the transfer pointer (MTA)
          command,   \* the operation the tool has asked for, or NoCommand
          answer     \* the last answer

calVars == <<memory, pointer, command, answer>>

Cells == First .. End - 1
Block(a, n) == a .. a + n - 1
Content(a, n) == [i \in 1 .. n |-> memory[a + i - 1]]

\* "other" transfers nothing; "garbled" is a command without all its parameters.
NoCommand == [op |-> "none"]
Commands == [op : {"point"}, to : 0 .. Top - 1]
            \cup [op : {"fetch"}, size : Nat]
            \cup [op : {"fetchAt"}, at : 0 .. Top - 1, size : Nat]
            \cup [op : {"store"}, data : Seq(Bytes)]
            \cup [op : {"other", "garbled"}]

Silence == [kind |-> "NONE", data |-> <<>>]
Refusal == [kind |-> "ERR", data |-> <<>>]
Answer(d) == answer' \in {Silence, [kind |-> "RES", data |-> d]}
Refused == answer' \in {Silence, Refusal}

CalInit ==
    /\ memory \in [Cells -> Bytes]
    /\ pointer = 0
    /\ command = NoCommand
    /\ answer = Silence

Ask ==
    /\ command = NoCommand
    /\ command' \in Commands
    /\ UNCHANGED <<memory, pointer, answer>>

Execute(op) == command.op = op /\ command' = NoCommand

Point ==
    /\ Execute("point")
    /\ pointer' = command.to
    /\ Answer(<<>>)
    /\ UNCHANGED memory

\* A transfer needs a block, and a block inside the RAM.
Transfers(a, n) == n > 0 /\ Block(a, n) \subseteq Cells

Fetch ==
    /\ Execute("fetch")
    /\ Transfers(pointer, command.size)
    /\ Answer(Content(pointer, command.size))
    /\ pointer' = pointer + command.size
    /\ UNCHANGED memory

FetchAt ==
    /\ Execute("fetchAt")
    /\ Transfers(command.at, command.size)
    /\ Answer(Content(command.at, command.size))
    /\ UNCHANGED <<memory, pointer>>

\* Every byte of the data is written to its cell, and nothing else.
Store ==
    LET n == Len(command.data)
    IN /\ Execute("store")
       /\ Transfers(pointer, n)
       /\ memory' = [c \in Cells |-> IF c \in Block(pointer, n)
                                     THEN command.data[c - pointer + 1]
                                     ELSE memory[c]]
       /\ pointer' = pointer + n
       /\ Answer(<<>>)

Refuse ==
    /\ \/ Execute("fetch") /\ ~Transfers(pointer, command.size)
       \/ Execute("fetchAt") /\ ~Transfers(command.at, command.size)
       \/ Execute("store") /\ ~Transfers(pointer, Len(command.data))
    /\ Refused
    /\ UNCHANGED <<memory, pointer>>

Other ==
    /\ Execute("other")
    /\ Answer(<<>>) \/ Refused
    /\ UNCHANGED <<memory, pointer>>

\* What stands in for missing parameters is not known; nothing is written.
Garbled ==
    /\ Execute("garbled")
    /\ \/ pointer' \in 0 .. Top - 1 /\ Answer(<<>>)
       \/ \E n \in 1 .. End - First :
              /\ Transfers(pointer, n)
              /\ Answer(Content(pointer, n))
              /\ pointer' = pointer + n
       \/ /\ \E a \in Cells : \E n \in 1 .. End - First :
                 Transfers(a, n) /\ Answer(Content(a, n))
          /\ UNCHANGED pointer
       \/ Refused /\ UNCHANGED pointer
    /\ UNCHANGED memory

CalNext ==
    \/ Ask
    \/ Point
    \/ Fetch
    \/ FetchAt
    \/ Store
    \/ Refuse
    \/ Other
    \/ Garbled

CalSpec == CalInit /\ [][CalNext]_calVars
=============================================================================
