------------------------------ MODULE Verifier ------------------------------
(***************************************************************************)
(* Envelope verification (_verifier.py, with the shape checks of           *)
(* _envelope.py): is a response body signed by a key we trust, about our   *)
(* environment, and current?  Pure operators; Client calls them when a     *)
(* body arrives and when the cache file is read.                           *)
(*                                                                         *)
(* A body is abstracted to what the checks can tell apart:                 *)
(*   raw.json      "envelope"  - JSON of the envelope's shape              *)
(*                 "malformed" - anything parse_envelope answers None to   *)
(*                 "tooDeep"   - JSON nested past the interpreter's limit  *)
(*   raw.sig       the detached signature, see Sig                         *)
(*   raw.payload   the decoded payload document, see Payload               *)
(* Payload bytes are not kept: a signature either covers this body's exact *)
(* payload bytes or it does not (sig.exact).                               *)
(***************************************************************************)
EXTENDS Integers

CONSTANTS
  EnvironmentName,  \* environments a payload or a server key can claim
  KeyId,            \* signing key identifiers
  PublicKey,        \* key material
  FullSizeKey,      \* the key material that is PUBLIC_KEY_SIZE bytes long
  BadTime           \* a timestamp that is not RFC 3339

ASSUME VerifierAssumption ==
  /\ FullSizeKey \subseteq PublicKey
  /\ BadTime \notin Int

(* Mutant of CLOCK_SKEW_TOLERANCE_S.                                        *)
SKEW_OFF_BY_ONE == 299

SUPPORTED_SERVER_CONTRACT_VERSION == 1
CLOCK_SKEW_TOLERANCE_S == 300
KnownKind == {"boolean", "string", "number"}

RejectionCode ==
  {"malformedEnvelope", "missingSignature", "malformedSignature",
   "unsupportedSignatureAlgorithm", "unknownKeyId", "badSignature",
   "malformedPayload", "unsupportedContractVersion", "environmentMismatch",
   "expired", "issuedInTheFuture"}

Accepted == "accepted"

(* json.loads raises RecursionError on a document nested too deeply, and    *)
(* _load_strict_json catches only ValueError: verify_envelope raises.       *)
RecursionError == "RecursionError"

Verdict == RejectionCode \cup {Accepted, RecursionError}

-----------------------------------------------------------------------------
(* What arrives.                                                           *)

Sig ==
  [shape     : {"absent", "empty", "unsplit", "split"},
   algorithm : {"ed25519", "p256"},
   keyId     : KeyId,
   encoding  : {"empty", "dirty", "base64url"},
   signer    : PublicKey,
   exact     : BOOLEAN]

Payload ==
  [json        : {"object", "malformed", "tooDeep"},
   sv          : Nat,
   environment : EnvironmentName,
   issuedAt    : Int \cup {BadTime},
   expiresAt   : Int \cup {BadTime},
   kinds       : SUBSET STRING]

Envelope ==
  [json : {"envelope", "malformed", "tooDeep"}, sig : Sig, payload : Payload]

(* signature_required(trusted) and SIGNATURE_DISABLED.  trusted maps the    *)
(* key identifiers of the trust store to their key material.                *)
SignatureRequired(trusted) == [required |-> TRUE, trusted |-> trusted]
SIGNATURE_DISABLED == [required |-> FALSE, trusted |-> [k \in {} |-> k]]

Expectations ==
  [environment : EnvironmentName, now : Int, enforceExpiry : BOOLEAN]

-----------------------------------------------------------------------------
(* Mutant of Ed25519Verify: any signature by the key will do.               *)
SignedSomething(publicKey, sig) == sig.signer = publicKey

(* _ed25519.verify, on well-formed input: the signature was produced with   *)
(* this very key over this very message.  Key sizes are checked before.     *)
Ed25519Verify(publicKey, sig) == sig.signer = publicKey /\ sig.exact

(* Mutant of Usable: the size of a trust store entry goes unchecked.        *)
Listed(keyId, policy) == keyId \in DOMAIN policy.trusted

(* The trust store has the key, and at its full size.                       *)
Usable(keyId, policy) ==
  keyId \in DOMAIN policy.trusted /\ policy.trusted[keyId] \in FullSizeKey

(* check_signature: the first check that fails names the code.              *)
CheckSignature(sig, policy) ==
  IF sig.shape \in {"absent", "empty"} THEN "missingSignature"
  ELSE IF sig.shape = "unsplit" THEN "malformedSignature"
  ELSE IF sig.algorithm # "ed25519" THEN "unsupportedSignatureAlgorithm"
  ELSE IF sig.encoding # "base64url" THEN "malformedSignature"
  ELSE IF ~Usable(sig.keyId, policy) THEN "unknownKeyId"
  ELSE IF ~Ed25519Verify(policy.trusted[sig.keyId], sig) THEN "badSignature"
  ELSE Accepted

(* parse_payload succeeds: the binding fields are there and every flag's    *)
(* kind is one this build knows; one unknown kind rejects the whole payload.*)
PayloadParses(payload) ==
  payload.json = "object" /\ payload.kinds \subseteq KnownKind

(* verify_envelope, in the contract's order.                                *)
VerifyEnvelope(raw, policy, expect) ==
  LET payload == raw.payload
      sigCode == CheckSignature(raw.sig, policy)
  IN
  IF raw.json = "tooDeep" THEN RecursionError
  ELSE IF raw.json = "malformed" THEN "malformedEnvelope"
  ELSE IF policy.required /\ sigCode # Accepted THEN sigCode
  ELSE IF payload.json = "tooDeep" THEN RecursionError
  ELSE IF ~PayloadParses(payload) THEN "malformedPayload"
  ELSE IF payload.sv # SUPPORTED_SERVER_CONTRACT_VERSION
       THEN "unsupportedContractVersion"
  ELSE IF payload.environment # expect.environment THEN "environmentMismatch"
  ELSE IF BadTime \in {payload.issuedAt, payload.expiresAt}
       THEN "malformedPayload"
  ELSE IF payload.issuedAt - expect.now > CLOCK_SKEW_TOLERANCE_S
       THEN "issuedInTheFuture"
  ELSE IF expect.enforceExpiry
          /\ expect.now - payload.expiresAt > CLOCK_SKEW_TOLERANCE_S
       THEN "expired"
  ELSE Accepted

(* The two callers' expectations: a live response and the cache file.       *)
Live(environment, now) ==
  [environment |-> environment, now |-> now, enforceExpiry |-> TRUE]
(* Mutant of CacheLoad: the cache is held to expiry like a live response.   *)
ExpiringCache(environment, now) == Live(environment, now)

CacheLoad(environment, now) ==
  [environment |-> environment, now |-> now, enforceExpiry |-> FALSE]
=============================================================================
