------------------------------ MODULE Signature ------------------------------
(***************************************************************************)
(* services/webhooks/signature.ts: the X-Attesto-Signature header and its    *)
(* check.  The HMAC is free: two MACs are equal only if secret, timestamp    *)
(* and body are.  A header is the sequence of its comma-separated parts, a   *)
(* part a key with a value, either of them possibly unreadable.              *)
(***************************************************************************)
EXTENDS Integers, Sequences

CONSTANTS
  NoHeader,   \* the header is missing or empty
  Unreadable  \* no `=' in the part; or a value that is no integer, or no hex

Mac(secret, t, body) == <<secret, t, body>>

Part(k, v) == [key |-> k, value |-> v]

(* `t=<timestamp>,v1=<hex>' over `<timestamp>.<body>'.                       *)
SignWebhook(secret, body, timestamp) ==
  <<Part("t", timestamp), Part("v1", Mac(secret, timestamp, body))>>

PartsOf(header, k) == {i \in DOMAIN header : header[i].key = k}

(* A later part overwrites an earlier one of the same key.                   *)
LastOf(header, k) ==
  header[CHOOSE i \in PartsOf(header, k) : \A j \in PartsOf(header, k) : i >= j].value

(* parseHeader: every part has a key, every t is an integer and every v1 hex *)
(* (other keys are ignored); and verify asks for both.                       *)
WellFormed(header) ==
  /\ \A i \in DOMAIN header :
       /\ header[i].key # Unreadable
       /\ header[i].key \in {"t", "v1"} => header[i].value # Unreadable
  /\ PartsOf(header, "t") # {} /\ PartsOf(header, "v1") # {}

Distance(a, b) == IF a > b THEN a - b ELSE b - a

(* verifyWebhookSignature.                                                   *)
VerifyWebhookSignature(secret, body, header, now, maxSkew) ==
  IF header = NoHeader THEN "missing_header"
  ELSE IF ~WellFormed(header) THEN "malformed_header"
  ELSE IF Distance(now, LastOf(header, "t")) > maxSkew THEN "timestamp_out_of_window"
  ELSE IF LastOf(header, "v1") # Mac(secret, LastOf(header, "t"), body) THEN "signature_mismatch"
  ELSE "valid"
=============================================================================
