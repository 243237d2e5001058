---------------------------- MODULE SignedDelivery ----------------------------
(***************************************************************************)
(* Dispatcher and Signature together: the header each attempt goes out with, *)
(* and the verdict of a callback that checks it the way signature.ts does.   *)
(***************************************************************************)
EXTENDS Dispatcher, Signature

CONSTANT MaxSkew    \* DEFAULT_MAX_SKEW_SECONDS, in units of the clock

(* The parts of a header: the timestamp and the MAC, and a version unknown   *)
(* to this verifier.                                                         *)
PartKey == {"t", "v1", "v0"}
PartValue == Nat \cup (Nat \X Nat \X Delivery)

(* The marks for a missing header and an unreadable part are no header and   *)
(* no part that SignWebhook could have written.                              *)
ASSUME SigningAssumption ==
  /\ MaxSkew \in Nat
  /\ Unreadable \notin PartKey /\ Unreadable \notin PartValue
  /\ NoHeader \notin Seq([key : PartKey, value : PartValue \cup {Unreadable}])

SignedWhenDue(c) == SignWebhook(c.secret, c.d, row[c.d].nextAttemptAt)

(* attemptDelivery: signed with the time of the attempt, not of the event or *)
(* of the claim.  The body names the event, so it is the delivery's own.     *)
SignedHeader(c) == SignWebhook(c.secret, c.d, clock)

(* Headers that say the same: parts in another order, or parts of a version   *)
(* this verifier does not know.                                              *)
SameHeader(h) == {h, <<h[2], h[1]>>, Append(h, Part("v0", Unreadable))}

(* signature.ts:7-9.  An attempt, the first or the last retry, verifies at   *)
(* the callback from the moment it is sent until MaxSkew later and, captured *)
(* and sent again, never after; and never for another delivery's body or     *)
(* under another secret, an older or a newer one.                            *)
EveryAttemptVerifies ==
  \A c \in calls : c.pc = "post" =>
    \A later \in 0 .. 2 * MaxSkew, s \in 0 .. MaxDisturbances, d \in Delivery,
       h \in SameHeader(SignedHeader(c)) :
      (VerifyWebhookSignature(s, d, h, clock + later, MaxSkew) = "valid")
        <=> (later <= MaxSkew /\ s = c.secret /\ d = c.d)
=============================================================================
