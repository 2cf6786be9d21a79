-------------------------- MODULE MetadataRegister --------------------------
(* What the workspace metadata promises to its callers: one value.  A reader   *)
(* does not change it, and a writer changes it to nothing but the data it      *)
(* hands over.  A restore puts its data in force at once, and it stays there   *)
(* or is put there again when the restore ends, unless a writer or whoever     *)
(* edits the file has written something else since.  Only between two callers  *)
(* may such an editor change the value.                                        *)
CONSTANTS Data, Idle, Reading

VARIABLES value,   \* the metadata in force
          caller,  \* Idle, Reading, or the data a writer hands over
          offered  \* what the end of a restore may put in force, if one runs
vars == <<value, caller, offered>>

Init == value \in Data /\ caller = Idle /\ offered = {}

(* A restore that runs may take up what is written meanwhile.                 *)
Offering(written) ==
    IF offered = {} THEN offered' = {}
    ELSE offered' # {} /\ offered' \subseteq offered \cup written

Call(c) == caller = Idle /\ caller' = c /\ UNCHANGED <<value, offered>>
Take == caller \in Data /\ value' = caller /\ Offering({caller}) /\ UNCHANGED caller
Return == caller # Idle /\ caller' = Idle /\ UNCHANGED <<value, offered>>
(* The file is written anew with what is in force.                            *)
Mirror == caller # Idle /\ Offering({value}) /\ UNCHANGED <<value, caller>>
Edit(d, written) == caller = Idle /\ value' = d /\ Offering({d, written}) /\ UNCHANGED caller

Restore(d) == offered = {} /\ value' = d /\ offered' = {d} /\ UNCHANGED caller
EndRestore ==
    offered # {} /\ value' \in offered \cup {value} /\ offered' = {} /\ UNCHANGED caller

Next ==
    \/ \E c \in Data \cup {Reading} : Call(c)
    \/ Take \/ Return \/ Mirror
    \/ \E d, written \in Data : Edit(d, written)
    \/ \E d \in Data : Restore(d)
    \/ EndRestore

Spec == Init /\ [][Next]_vars
=============================================================================
