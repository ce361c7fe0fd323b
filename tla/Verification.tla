---------------------------- MODULE Verification ----------------------------
(***************************************************************************)
(* A body, received or stored, in front of a client with some policy, while*)
(* time passes: what the two ways of verifying it answer, and what they    *)
(* must never answer.                                                      *)
(***************************************************************************)
EXTENDS Verifier

CONSTANTS
  Bodies,        \* the bodies that may turn up
  Policies,      \* the signature policies a client may be configured with
  Clock,         \* readings of the clock
  Environment    \* the environment the client's key claims

ASSUME VerificationAssumption ==
  /\ Bodies \subseteq Envelope
  /\ \A p \in Policies :
       \/ p = SIGNATURE_DISABLED
       \/ \E keys \in SUBSET KeyId : \E trusted \in [keys -> PublicKey] :
            p = SignatureRequired(trusted)
  /\ Clock \subseteq Int
  /\ Environment \in EnvironmentName

VARIABLES raw, policy, now

vars == <<raw, policy, now>>

Init ==
  /\ raw \in Bodies
  /\ policy \in Policies
  /\ now \in Clock

Age ==
  /\ now' \in {t \in Clock : t > now}
  /\ UNCHANGED <<raw, policy>>

Next == Age

Spec == Init /\ [][Next]_vars

LiveVerdict == VerifyEnvelope(raw, policy, Live(Environment, now))
CacheVerdict == VerifyEnvelope(raw, policy, CacheLoad(Environment, now))

TypeOK ==
  /\ raw \in Bodies /\ policy \in Policies /\ now \in Clock
  /\ {LiveVerdict, CacheVerdict} \subseteq Verdict

-----------------------------------------------------------------------------
(* Fail closed: whatever the shape of the signature, a body is accepted     *)
(* under a required policy only if it was signed, over exactly these bytes, *)
(* with a full-size key that the trust store lists under the claimed id.    *)
FailClosed ==
  policy.required /\ Accepted \in {LiveVerdict, CacheVerdict} =>
    /\ raw.sig.shape = "split" /\ raw.sig.exact
    /\ raw.sig.keyId \in DOMAIN policy.trusted
    /\ raw.sig.signer = policy.trusted[raw.sig.keyId]
    /\ raw.sig.signer \in FullSizeKey

(* The expiry asymmetry: a cache load answers what a live check answers,    *)
(* except that it accepts the body a live check refuses as expired.         *)
ExpiryAsymmetry ==
  CacheVerdict = IF LiveVerdict = "expired" THEN Accepted ELSE LiveVerdict

(* A live body is accepted exactly in the window from issuedAt to expiresAt *)
(* widened by the skew tolerance on both sides, edges included.             *)
LiveWindow ==
  LiveVerdict = Accepted <=>
    /\ CacheVerdict \in {Accepted, "issuedInTheFuture"}
    /\ now \in (raw.payload.issuedAt - 300)..(raw.payload.expiresAt + 300)

(* A malformed entry of our own trust store never disables a rotation set:  *)
(* the verdict is the one the store's usable entries give on their own.     *)
BadTrustEntryIsInert ==
  policy.required =>
    LET usable == {k \in DOMAIN policy.trusted : policy.trusted[k] \in FullSizeKey}
        pruned == SignatureRequired([k \in usable |-> policy.trusted[k]])
    IN LiveVerdict = VerifyEnvelope(raw, pruned, Live(Environment, now))

(* Expiry governs freshness, not validity: a body the cache once accepted   *)
(* is accepted again at every later reading of the clock, however long the  *)
(* outage was.                                                              *)
CacheNeverExpires ==
  [][CacheVerdict = Accepted => CacheVerdict' = Accepted]_vars
=============================================================================
