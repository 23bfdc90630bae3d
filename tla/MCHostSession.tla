--------------------------- MODULE MCHostSession ---------------------------
(* Small instances of HostSession for TLC.                                  *)
EXTENDS HostSession, TLC

Symmetry == Permutations(Session) \union Permutations(Pair)

\* Without held, which no guard reads, for runs whose properties do not.
View == <<enclaveVars, permits, sessionVars, told, callVars>>
=============================================================================
