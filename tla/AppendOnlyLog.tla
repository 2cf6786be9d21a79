--------------------------- MODULE AppendOnlyLog ---------------------------
(* What the store of snapshots gives those who read the operations log: it    *)
(* grows at its end only, while its last entry is kept from Git's garbage     *)
(* collection.  An entry is not kept before its call returns, and no longer   *)
(* once it has not been renewed for a month; then the log may begin anew.     *)
EXTENDS Sequences

CONSTANT Entries

VARIABLES log,  \* the entries, oldest first
          kept  \* the last of them, and with it the log, is kept
vars == <<log, kept>>

Init == log = <<>> /\ kept = TRUE

Record(e) == log' = Append(log, e) /\ kept' = FALSE
Keep == ~kept /\ kept' = TRUE /\ UNCHANGED log
Lapse == kept /\ kept' = FALSE /\ UNCHANGED log
BeginAnew(e) == ~kept /\ log' = <<e>> /\ UNCHANGED kept

Next == (\E e \in Entries : Record(e) \/ BeginAnew(e)) \/ Keep \/ Lapse

Spec == Init /\ [][Next]_vars
=============================================================================
