------------------------------- MODULE Exchange -------------------------------
(***************************************************************************)
(* What masters and slave owe each other, whoever dies: commands are       *)
(* executed in the order they were written, each at most once, and an      *)
(* answer that is taken belongs to the last command and comes after its    *)
(* execution.                                                              *)
(***************************************************************************)
EXTENDS Integers

VARIABLES asked,  \* the last command written
          done,   \* the last command executed
          told    \* the last command whose answer was taken

exchangeVars == <<asked, done, told>>

ExchangeInit == asked = 0 /\ done = 0 /\ told = 0

Ask == asked' = asked + 1 /\ UNCHANGED <<done, told>>

\* Commands in between are lost.
Do == done' \in done + 1 .. asked /\ UNCHANGED <<asked, told>>

Tell == done = asked /\ told < asked /\ told' = asked /\ UNCHANGED <<asked, done>>

ExchangeNext == Ask \/ Do \/ Tell

ExchangeSpec == ExchangeInit /\ [][ExchangeNext]_exchangeVars
=============================================================================
