--------------------------- MODULE ReportChannel ---------------------------
(***************************************************************************)
(* What polling a USB interrupt endpoint promises the firmware: reports    *)
(* come in the order the device made them and none comes twice.  Reports   *)
(* may be missing; how many is for the detailed specification to say.      *)
(***************************************************************************)
EXTENDS Naturals

VARIABLES made,    \* reports the device has made so far
          last,    \* the newest report handed to the firmware, 0 at first
          handed   \* how many were handed over

Init == made = 0 /\ last = 0 /\ handed = 0

\* The device makes reports.
Make ==
    /\ made' \in Nat
    /\ made' > made
    /\ UNCHANGED <<last, handed>>

\* A report newer than all before it is handed over.
Hand ==
    /\ last' \in Nat
    /\ last < last' /\ last' <= made
    /\ handed' = handed + 1
    /\ UNCHANGED made

Next == Make \/ Hand

Spec == Init /\ [][Next]_<<made, last, handed>>
=============================================================================
