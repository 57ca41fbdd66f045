------------------------------ MODULE FrameLink ------------------------------
(***************************************************************************)
(* What the receive path promises the protocol layer: the frames a master  *)
(* writes whole reach it one by one, unchanged, in order, each once, and   *)
(* none is withheld for ever.                                              *)
(***************************************************************************)
EXTENDS Naturals, Sequences

CONSTANT Frames      \* the frames a master may write
VARIABLES sent,      \* frames written whole
          delivered  \* frames handed to the protocol layer

linkVars == <<sent, delivered>>

LinkInit == sent = <<>> /\ delivered = <<>>

Send ==
    /\ \E f \in Frames : sent' = Append(sent, f)
    /\ UNCHANGED delivered

Deliver ==
    /\ Len(delivered) < Len(sent)
    /\ delivered' = Append(delivered, sent[Len(delivered) + 1])
    /\ UNCHANGED sent

LinkNext == Send \/ Deliver

LinkSpec == LinkInit /\ [][LinkNext]_linkVars /\ WF_linkVars(Deliver)
=============================================================================
