---------------------------- MODULE MCRunTimePool ----------------------------
(* Small instances of RunTimePool for TLC.                                  *)
EXTENDS RunTimePool

\* Fewer elements than a batch, a multiple of it, and a remainder.
MCSizes == {0, 1, 4, 7}
==============================================================================
