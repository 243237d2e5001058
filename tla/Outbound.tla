------------------------------- MODULE Outbound -------------------------------
(***************************************************************************)
(* Ingest and Envelope together: a webhook_events row stands for every       *)
(* payload its store may have sent, and this is what the tenant's callback   *)
(* is told of it, now or at any later attempt (the envelope is built anew    *)
(* from the row each time).                                                  *)
(***************************************************************************)
EXTENDS Ingest, Envelope

CONSTANT Code   \* the notificationTypes Google may send

(* Apple: every type and subtype of the map, any other string and none, with *)
(* the transactions a notification may carry, one without an                 *)
(* originalTransactionId included.                                           *)
AppleType == {e[1][1] : e \in APPLE_MAP} \cup Text \cup {Absent}
AppleSubtype == {e[1][2] : e \in APPLE_MAP} \cup Text \cup {Absent}
AppleTransaction ==
  [originalTransactionId : Text \cup {Absent}, productId : Text \cup {Absent},
   type : APPLE_SUBSCRIPTION_TYPES \cup Text \cup {Absent}, appAccountToken : Text \cup {Absent}]
ApplePayload == [type : AppleType, subtype : AppleSubtype, tx : AppleTransaction \cup {Absent}]

(* Google: one notification per message, its type a number or not, its token *)
(* and product there or not.                                                 *)
GoogleNotification == [type : Code \cup {Absent}, token : Text \cup {Absent},
                       productId : Text \cup {Absent}]
GooglePayload ==
  [sub : GoogleNotification, otp : {Absent}, voided : {FALSE}, test : {FALSE}]
    \cup [sub : {Absent}, otp : GoogleNotification, voided : {FALSE}, test : {FALSE}]
    \cup {m \in [sub : {Absent}, otp : {Absent}, voided : BOOLEAN, test : BOOLEAN] :
            ~(m.voided /\ m.test)}

AppleReasons(m) ==
  {e[2].reason : e \in {x \in APPLE_MAP : x[2].kind = m.kind /\ x[2].name = m.name}}

(* A subtype Apple adds to a type that is mapped by itself classifies like   *)
(* the type; a Google event that Apple has too gives a reason Apple gives.   *)
Misclassified ==
  [apple  |-> {p \in [type : AppleType, subtype : AppleSubtype, tx : {Absent}] :
                 /\ At(APPLE_MAP, <<p.type, Absent>>) # {}
                 /\ At(APPLE_MAP, <<p.type, p.subtype>>) = {}
                 /\ NormalizeApple(p) \notin At(APPLE_MAP, <<p.type, Absent>>)},
   google |-> {p \in GooglePayload :
                 LET m == NormalizeGoogle(p)
                 IN AppleReasons(m) # {} /\ m.reason \notin AppleReasons(m)}]

(* normalize.ts:58-64, 176-183.  Whatever the notification of an event on    *)
(* file was, a subtype Apple added since falls back to its type, and a reason *)
(* means the same on both stores.                                             *)
OneVocabulary == \A e \in events : Misclassified[SourceOf[e.n]] = {}

(* The receiver's rule for subject_key and the delivery's rule for subject    *)
(* are written in two files and run hours apart.                              *)
SubjectFits(row) ==
  LET subject == BuildPayload(row).subject
  IN  /\ row.subjectKey # Absent =>
           subject # Absent /\ subject.key = row.subjectKey /\ subject.type = "subscription"
      /\ row.source = "google" /\ subject # Absent =>
           /\ row.event.kind \in {subject.type, "unknown"}
           /\ subject.type = "subscription" => row.subjectKey # Absent
      /\ row.appUserId # Absent /\ subject = Absent =>
           row.source = "apple" /\ row.payload.tx.originalTransactionId = Absent

Unfit ==
  [apple  |-> {p \in ApplePayload : \E row \in Persisted("apple", p) : ~SubjectFits(row)},
   google |-> {p \in GooglePayload : \E row \in Persisted("google", p) : ~SubjectFits(row)}]

(* google-receiver.ts:200-286 and subject.ts:126-133, when an event comes in, *)
(* against subject.ts:49-115, 135-172, when it goes out.  The key resolved by  *)
(* the first is the key of the subject the callback is given, a                *)
(* subscription's; no Google subscription goes out under a key that was not    *)
(* resolved; a user goes out without a subject only for an Apple transaction   *)
(* that has an appAccountToken and no originalTransactionId (subject.ts:106);  *)
(* and Google's subject is of the kind its event names.                        *)
SubjectIsTheResolvedOne == \A e \in events : Unfit[SourceOf[e.n]] = {}
=============================================================================
