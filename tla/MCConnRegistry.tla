--------------------------- MODULE MCConnRegistry ---------------------------
(* An instance of ConnRegistry for TLC: two names, one component file.      *)
EXTENDS ConnRegistry

CONSTANTS na, nb, pa, ma, mb

Old(source, n, p) == [source |-> source, name |-> n, path |-> p, meta |-> ma,
                      dismissed |-> FALSE, id |-> NoID]

\* A file written before ids existed, with a manual and a discovered store; and
\* one where the manual store names the component file itself.
OldFiles == {{Old("manual", na, NoPath), Old("auto", nb, pa)},
             {Old("manual", na, pa)}}
=============================================================================
