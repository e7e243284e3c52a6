----------------------------- MODULE MCGateway -----------------------------
(* Gateway for TLC: the Range headers of the viewers.                      *)
EXTENDS Gateway

\* No header; and the last bytes, which start inside a download piece.
NoHeader == [from |-> Absent, to |-> Absent]
Suffix   == [from |-> Absent, to |-> 4]

WholeFile == {NoHeader}
LastBytes == {Suffix}
=============================================================================
