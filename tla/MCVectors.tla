------------------------------ MODULE MCVectors ------------------------------
(* Vectors of no multiple of any chunk or batch, too.                        *)
EXTENDS Vectors

MCSizes == {1, 4, 6, 7}
==============================================================================
