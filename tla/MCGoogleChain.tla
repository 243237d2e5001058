----------------------------- MODULE MCGoogleChain -----------------------------
(* Tokens are numbered in the order Google issued them.                      *)
EXTENDS GoogleChain

CONSTANT N

MCToken == 1..N
MCNone == 0
(* Anything, cycles and self-links included.                                 *)
AnyLinks == [MCToken -> 0..N]
=============================================================================
