---------------------------- MODULE FrameChannel ----------------------------
(***************************************************************************)
(* What one direction of an Ethernet driver promises: every frame that is  *)
(* delivered is one that was offered, whole, and none is delivered twice.  *)
(* Frames may be lost and may change their order.  Nothing is promised     *)
(* while `mixed` is TRUE.  offered[f] is the number of words of frame f,   *)
(* and its i-th word is <<f, i>>.                                          *)
(***************************************************************************)
EXTENDS Naturals, Sequences

VARIABLES offered, log, mixed

channel == <<offered, log, mixed>>

Frame(f) == [i \in 1..offered[f] |-> <<f, i>>]

Fresh(f) == \A k \in 1..Len(log) : log[k] # Frame(f)

Init == offered = <<>> /\ log = <<>> /\ mixed = FALSE

Offer ==
    /\ Len(offered') = Len(offered) + 1
    /\ \A f \in 1..Len(offered) : offered'[f] = offered[f]
    /\ UNCHANGED <<log, mixed>>

Deliver ==
    /\ \E f \in 1..Len(offered) : Fresh(f) /\ log' = Append(log, Frame(f))
    /\ UNCHANGED <<offered, mixed>>

Next == Offer \/ Deliver \/ mixed \/ mixed'

Spec == Init /\ [][Next]_channel
=============================================================================
