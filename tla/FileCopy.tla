------------------------------ MODULE FileCopy ------------------------------
(***************************************************************************)
(* What a stream's buffer promises to those who read it: a growing partial *)
(* copy of the file.  `have` is the set of file offsets that can be read;  *)
(* a write adds the offsets it covers and takes none away.                 *)
(***************************************************************************)
EXTENDS Integers

CONSTANTS
    Total,    \* size of the file
    MaxWrite  \* longest write

VARIABLE have

Init == have = {}

Add(offset, n) ==
    have' = have \cup { x \in offset .. offset + n - 1 : x < Total }

Clear == have' = {}

Next ==
    \/ \E offset \in 0 .. Total, n \in 0 .. MaxWrite : Add(offset, n)
    \/ Clear

Spec == Init /\ [][Next]_have

=============================================================================
