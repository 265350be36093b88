----------------------------- MODULE BlockDevice -----------------------------
(***************************************************************************)
(* What a driver of a card promises its callers.  A call reads or writes   *)
(* count blocks from first on.  A write may stop half-way, but it changes  *)
(* no block other than its own, gives each of them its new content at one  *)
(* stroke, and returns "ok" only when all have it.  A read returns "ok"    *)
(* only with what is on the disk.  Neither does for blocks the disk does   *)
(* not have.  Nothing is promised while `astray` is TRUE.  The content of  *)
(* block k written by call n is <<n, k>>.                                  *)
(***************************************************************************)
EXTENDS Naturals

VARIABLES disk, op, first, count, calls, buf, ret, astray

device == <<disk, op, first, count, calls, buf, ret, astray>>

Target == first..(first + count - 1)

Exists == Target \subseteq DOMAIN disk

Written == Exists /\ \A k \in Target : disk[k] = <<calls, k>>

IsRead == Exists /\ buf = [i \in 1..count |-> disk[first + i - 1]]

Begin ==
    /\ op = "none"
    /\ op' \in {"read", "write"}
    /\ calls' = calls + 1
    /\ UNCHANGED <<disk, astray>>

Store ==
    /\ op = "write"
    /\ \E k \in Target : disk' = [disk EXCEPT ![k] = <<calls, k>>]
    /\ UNCHANGED <<op, first, count, calls, astray>>

End ==
    /\ op # "none" /\ op' = "none"
    /\ ret' = "ok" => IF op = "write" THEN Written ELSE IsRead'
    /\ UNCHANGED <<disk, first, count, calls, astray>>

\* Within a call ret and buf mean nothing yet.
Work ==
    /\ op # "none"
    /\ UNCHANGED <<disk, op, first, count, calls, astray>>

Init == op = "none" /\ calls = 0 /\ astray = FALSE

Next == Begin \/ Store \/ Work \/ End \/ astray \/ astray'

Spec == Init /\ [][Next]_device
=============================================================================
