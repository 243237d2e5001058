-------------------------- MODULE MCCredentialCache --------------------------
(* Two keys, the second to replace the first, or the first to be the first.  *)
EXTENDS CredentialCache, TLC

CONSTANTS k1, k2, r1, r2

Symmetry == Permutations({k1, k2}) \cup Permutations({r1, r2})
=============================================================================
