--------------------------- MODULE MCRuntimeClient ---------------------------
(* One student and one session; two submits may overlap.                    *)
EXTENDS RuntimeClient

CONSTANTS f1, f2

MCFlows == {f1, f2}
=============================================================================
