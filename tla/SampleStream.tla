---------------------------- MODULE SampleStream ----------------------------
(***************************************************************************)
(* What the audio driver promises its client: a bounded first-in first-out *)
(* stream.  Samples are numbered in the order they are accepted, so the    *)
(* stream is two counters: everything up to "accepted" has been taken from *)
(* the client, everything up to "played" has been handed to the DAC, and   *)
(* the samples in between are waiting, never more than Capacity of them.   *)
(* No sample is skipped, repeated or reordered.                            *)
(***************************************************************************)
EXTENDS Naturals

CONSTANT Capacity      \* samples that may wait at the same time

VARIABLES accepted, played

vars == <<accepted, played>>

TypeOK == accepted \in Nat /\ played \in Nat

Waiting == accepted - played

Init == accepted = 0 /\ played = 0

\* The client hands over some samples that still fit.
Accept ==
    /\ accepted' \in Nat
    /\ accepted' >= accepted
    /\ accepted' - played <= Capacity
    /\ UNCHANGED played

\* The DAC takes some of the waiting samples, oldest first.
Play ==
    /\ played' \in Nat
    /\ played' >= played
    /\ played' <= accepted
    /\ UNCHANGED accepted

Next == Accept \/ Play

Spec == Init /\ [][Next]_vars

FairSpec == Spec /\ WF_vars(played' = accepted /\ UNCHANGED accepted)
=============================================================================
