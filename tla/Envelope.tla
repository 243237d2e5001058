------------------------------- MODULE Envelope -------------------------------
(***************************************************************************)
(* What a tenant's callback is told about a notification: the unified event  *)
(* (services/webhooks/normalize.ts), the fields the receivers persist beside *)
(* it (apple-receiver.ts, google-receiver.ts), and the subject and envelope  *)
(* the delivery derives from the row later (subject.ts, delivery.ts).        *)
(*                                                                           *)
(* "subscription.renewed" is [kind |-> "subscription", name |-> "renewed"]; a *)
(* field that is absent or not of the type the code asks for is Absent.      *)
(***************************************************************************)
EXTENDS Integers, FiniteSets

CONSTANTS
  Absent,
  Text   \* the strings a store may send (an empty token, type or user is Absent)

(* Null and undefined are neither a string nor a subject.                    *)
ASSUME AbsentAssumption ==
  /\ Absent \notin Text
  /\ Absent \notin [key : Text, productId : Text \cup {Absent}, type : {"subscription", "product"}]

Mapping(k, n, r) == [kind |-> k, name |-> n, reason |-> r]
Sub(n) == Mapping("subscription", n, Absent)
Product(n) == Mapping("product", n, Absent)
Test == Mapping("test", "test", Absent)
Unknown == Mapping("unknown", "unknown", Absent)

-----------------------------------------------------------------------------
(* A map is a set of entries <<key, mapping>>; a key has one mapping or none. *)
At(map, key) == {e[2] : e \in {x \in map : x[1] = key}}

Classified(map, key) ==
  IF At(map, key) = {} THEN Unknown ELSE CHOOSE m \in At(map, key) : TRUE

(* normalize.ts, Apple.  Keys are notificationType and subtype, the bare     *)
(* type being <<type, Absent>>.                                              *)
Row(type, subtypes, mapping) == ({type} \X subtypes) \X {mapping}

APPLE_MAP ==
  UNION {
    Row("SUBSCRIBED", {Absent, "INITIAL_BUY"}, Mapping("subscription", "purchased", "initial")),
    Row("SUBSCRIBED", {"RESUBSCRIBE"}, Mapping("subscription", "purchased", "resubscribe")),
    Row("SUBSCRIBED", {"UPGRADE"}, Sub("upgraded")),
    Row("SUBSCRIBED", {"DOWNGRADE"}, Sub("downgraded")),
    Row("DID_RENEW", {Absent}, Sub("renewed")),
    Row("DID_RENEW", {"BILLING_RECOVERY"}, Sub("recovered")),
    Row("DID_CHANGE_RENEWAL_STATUS", {"AUTO_RENEW_DISABLED"}, Sub("cancellation_scheduled")),
    Row("DID_CHANGE_RENEWAL_STATUS", {"AUTO_RENEW_ENABLED"}, Sub("cancellation_revoked")),
    Row("EXPIRED", {Absent}, Sub("expired")),
    Row("EXPIRED", {"VOLUNTARY"}, Mapping("subscription", "expired", "voluntary")),
    Row("EXPIRED", {"BILLING_RETRY"}, Mapping("subscription", "expired", "billing_retry")),
    Row("EXPIRED", {"PRODUCT_NOT_FOR_SALE"}, Mapping("subscription", "expired", "product_not_for_sale")),
    Row("REVOKE", {Absent}, Sub("revoked")),
    Row("REFUND", {Absent}, Sub("refunded")),
    Row("DID_FAIL_TO_RENEW", {Absent}, Sub("in_billing_retry")),
    Row("DID_FAIL_TO_RENEW", {"GRACE_PERIOD"}, Sub("in_grace_period")),
    Row("GRACE_PERIOD_EXPIRED", {Absent}, Sub("grace_period_expired")),
    Row("DID_CHANGE_RENEWAL_PREF", {Absent, "AUTO_RENEW_PREF_CHANGE"}, Sub("renewal_pref_changed")),
    Row("REFUND_DECLINED", {Absent}, Sub("refund_declined")),
    Row("REFUND_REVERSED", {Absent}, Sub("refund_reversed")),
    Row("PRICE_INCREASE", {Absent, "PENDING"}, Sub("price_change_pending")),
    Row("PRICE_INCREASE", {"ACCEPTED"}, Sub("price_change_accepted")),
    Row("OFFER_REDEEMED", {Absent}, Sub("offer_redeemed")),
    Row("RENEWAL_EXTENDED", {Absent}, Sub("renewal_extended")),
    Row("RENEWAL_EXTENSION", {Absent, "SUMMARY"}, Sub("renewal_extension_complete")),
    Row("RENEWAL_EXTENSION", {"FAILURE"}, Sub("renewal_extension_failed")),
    Row("CONSUMPTION_REQUEST", {Absent}, Sub("consumption_request")),
    Row("EXTERNAL_PURCHASE_TOKEN", {Absent}, Sub("external_purchase_token")),
    Row("ONE_TIME_CHARGE", {Absent}, Product("charged")),
    Row("TEST", {Absent}, Test)}

NormalizeAppleExactly(p) == Classified(APPLE_MAP, <<p.type, p.subtype>>)

(* The qualified entry, else the bare type's.                                *)
NormalizeApple(p) ==
  IF At(APPLE_MAP, <<p.type, p.subtype>>) # {}
  THEN Classified(APPLE_MAP, <<p.type, p.subtype>>)
  ELSE Classified(APPLE_MAP, <<p.type, Absent>>)

-----------------------------------------------------------------------------
(* normalize.ts, Google.  A message has a field per kind of notification.    *)

GOOGLE_SUB_MAP ==
  {<<1, Sub("recovered")>>, <<2, Sub("renewed")>>, <<3, Sub("cancellation_scheduled")>>,
   <<4, Mapping("subscription", "purchased", "initial")>>,
   <<5, Sub("on_hold")>>, <<6, Sub("in_grace_period")>>, <<7, Sub("cancellation_revoked")>>,
   <<8, Sub("price_change_accepted")>>, <<9, Sub("deferred")>>, <<10, Sub("paused")>>,
   <<11, Sub("pause_schedule_changed")>>, <<12, Sub("revoked")>>, <<13, Sub("expired")>>,
   <<17, Sub("pending_purchase_canceled")>>, <<19, Sub("price_change_updated")>>,
   <<20, Sub("price_change_rejected")>>}

GOOGLE_PRODUCT_MAP == {<<1, Product("purchased")>>, <<2, Product("canceled")>>}

(* A notification whose type is no number counts as absent here.             *)
NormalizeGoogle(p) ==
  IF p.sub # Absent /\ p.sub.type # Absent THEN Classified(GOOGLE_SUB_MAP, p.sub.type)
  ELSE IF p.otp # Absent /\ p.otp.type # Absent THEN Classified(GOOGLE_PRODUCT_MAP, p.otp.type)
  ELSE IF p.voided THEN Sub("refunded")
  ELSE IF p.test THEN Test
  ELSE Unknown

-----------------------------------------------------------------------------
(* What the receiver persists: subject_key and app_user_id.                  *)

(* decodeAppleInnerTransaction and extractAppleAppUserId.                    *)
ExtractAppleAppUserId(p) == IF p.tx = Absent THEN Absent ELSE p.tx.appAccountToken

(* resolveSubscriptionFields: a subscription with a token gets a key, the    *)
(* root of its chain (any token, see GoogleChain) or the token itself, and a *)
(* user if Google was asked and knew one.                                    *)
ResolveSubscriptionFields(p) ==
  IF p.sub = Absent \/ p.sub.token = Absent
  THEN {[subjectKey |-> Absent, appUserId |-> Absent]}
  ELSE [subjectKey : {p.sub.token}, appUserId : {Absent}]
         \cup IF p.sub.productId = Absent THEN {}
              ELSE [subjectKey : Text, appUserId : Text \cup {Absent}]

(* The webhook_events rows a payload may become.                             *)
Persisted(source, p) ==
  IF source = "apple"
  THEN {[source |-> source, event |-> NormalizeApple(p), subjectKey |-> Absent,
         appUserId |-> ExtractAppleAppUserId(p), payload |-> p]}
  ELSE {[source |-> source, event |-> NormalizeGoogle(p), subjectKey |-> f.subjectKey,
         appUserId |-> f.appUserId, payload |-> p] : f \in ResolveSubscriptionFields(p)}

-----------------------------------------------------------------------------
(* What the delivery derives from the row.                                   *)

Subject(key, productId, type) == [key |-> key, productId |-> productId, type |-> type]

APPLE_SUBSCRIPTION_TYPES == {"Auto-Renewable Subscription", "Non-Renewing Subscription"}

ExtractAppleSubject(p) ==
  IF p.tx = Absent \/ p.tx.originalTransactionId = Absent THEN Absent
  ELSE Subject(p.tx.originalTransactionId, p.tx.productId,
               IF p.tx.type \in APPLE_SUBSCRIPTION_TYPES THEN "subscription" ELSE "product")

ExtractGoogleSubjectWithId(p) ==
  IF p.sub # Absent /\ p.sub.token # Absent /\ p.sub.productId # Absent
  THEN Subject(p.sub.token, p.sub.productId, "subscription")
  ELSE IF p.otp # Absent /\ p.otp.token # Absent
  THEN Subject(p.otp.token, p.otp.productId, "product")
  ELSE Absent

(* Neither a voided purchase nor a test has a subject.                       *)
ExtractGoogleSubject(p) ==
  IF p.sub # Absent /\ p.sub.token # Absent
  THEN Subject(p.sub.token, p.sub.productId, "subscription")
  ELSE IF p.otp # Absent /\ p.otp.token # Absent
  THEN Subject(p.otp.token, p.otp.productId, "product")
  ELSE Absent

(* The override replaces the key of a subject the payload has.               *)
ExtractSubject(source, p, override) ==
  LET s == IF source = "apple" THEN ExtractAppleSubject(p) ELSE ExtractGoogleSubject(p)
  IN  IF s = Absent \/ override = Absent THEN s ELSE [s EXCEPT !.key = override]

BuildPayload(row) ==
  [source |-> row.source, event |-> row.event, appUserId |-> row.appUserId,
   subject |-> ExtractSubject(row.source, row.payload, row.subjectKey)]
=============================================================================
