----------------------------- MODULE SectorStore ----------------------------
(***************************************************************************)
(* What the file system expects of the ATA driver: the sectors of a write  *)
(* are stored one after the other, in the order of the calls, all but the  *)
(* last of them before the call returns; a power failure loses those that  *)
(* are not.  After a call that names no sector, or one beyond the end of   *)
(* the disk, nothing is promised until the power has been off.             *)
(***************************************************************************)
EXTENDS Integers, SequencesExt

CONSTANTS Sectors, Contents

VARIABLES
    disk,     \* what each sector holds
    pending,  \* the sectors not stored yet, as [lba, content], in order
    ok        \* whether only such calls have been made

vars == <<disk, pending, ok>>

Init == disk \in [Sectors -> Contents] /\ pending = <<>> /\ ok = TRUE

Write(first, last, content) ==
    /\ ok /\ first <= last /\ Len(pending) <= 1
    /\ pending' = pending \o [k \in 1 .. last - first + 1 |->
                                [lba |-> first + k - 1, content |-> content]]
    /\ UNCHANGED <<disk, ok>>

Store ==
    /\ ok /\ pending # <<>>
    /\ disk' = [disk EXCEPT ![Head(pending).lba] = Head(pending).content]
    /\ pending' = Tail(pending)
    /\ UNCHANGED ok

WrongCall == ok' = FALSE
NoPromise == ~ok /\ ~ok'
PowerOff == pending' = <<>> /\ ok' = TRUE /\ UNCHANGED disk

Next ==
    \/ \E first, last \in Sectors, content \in Contents : Write(first, last, content)
    \/ Store \/ WrongCall \/ NoPromise \/ PowerOff

Spec == Init /\ [][Next]_vars
=============================================================================
