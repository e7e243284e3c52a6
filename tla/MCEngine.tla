------------------------------ MODULE MCEngine ------------------------------
(* Engine for TLC: one source of each kind and their sizes in chunks.      *)
EXTENDS Engine

CONSTANTS q, w, f, c  \* a qvod, an http, a file and a cached qvod source

KindOf == [h \in Sources |-> CASE h \in {q, c} -> "qvod"
                               [] h = w -> "http"
                               [] h = f -> "file"]

\* A first and a last chunk; the qvod source and the file may turn out empty.
TwoChunks == [h \in Sources |-> IF h \in {q, f} THEN {0, 2} ELSE {2}]

\* For liveness: one chunk, or none.
OneChunk == [h \in Sources |-> IF h = q THEN {0, 1} ELSE {1}]
=============================================================================
