---------------------------- MODULE MCOidcVerifier ----------------------------
(* Two keys of two families, the second published while the first is in use. *)
EXTENDS OidcVerifier, TLC

CONSTANTS k1, k2

MCJwk == k1 :> [kty |-> "RSA", crv |-> "absent", use |-> "sig"]
      @@ k2 :> [kty |-> "EC", crv |-> "P-256", use |-> "sig"]
=============================================================================
