------------------------- MODULE VerificationProofs -------------------------
(***************************************************************************)
(* Proofs about verification, for every body, policy and reading of the    *)
(* clock.  The checks before the two clock checks do not look at the clock *)
(* nor at whether expiry is enforced: StaticVerdict is what they come to.  *)
(***************************************************************************)
EXTENDS Verification, TLAPS

StaticVerdict(body, pol, environment) ==
  LET payload == body.payload
      sigCode == CheckSignature(body.sig, pol)
  IN
  IF body.json = "tooDeep" THEN RecursionError
  ELSE IF body.json = "malformed" THEN "malformedEnvelope"
  ELSE IF pol.required /\ sigCode # Accepted THEN sigCode
  ELSE IF payload.json = "tooDeep" THEN RecursionError
  ELSE IF ~PayloadParses(payload) THEN "malformedPayload"
  ELSE IF payload.sv # SUPPORTED_SERVER_CONTRACT_VERSION
       THEN "unsupportedContractVersion"
  ELSE IF payload.environment # environment THEN "environmentMismatch"
  ELSE IF BadTime \in {payload.issuedAt, payload.expiresAt} THEN "malformedPayload"
  ELSE Accepted

TooNew(body, t) == body.payload.issuedAt - t > CLOCK_SKEW_TOLERANCE_S
TooOld(body, t) == t - body.payload.expiresAt > CLOCK_SKEW_TOLERANCE_S

(* What check_signature may answer.                                         *)
LEMMA SignatureCodes ==
  ASSUME NEW sig, NEW pol
  PROVE  CheckSignature(sig, pol) \in
           {"missingSignature", "malformedSignature", "unknownKeyId", "badSignature",
            "unsupportedSignatureAlgorithm", Accepted}
BY DEF CheckSignature

(* The static checks answer none of the clock's codes.                      *)
LEMMA StaticCodes ==
  ASSUME NEW body, NEW pol, NEW environment
  PROVE  StaticVerdict(body, pol, environment) \in Verdict \ {"expired", "issuedInTheFuture"}
BY SignatureCodes DEF StaticVerdict, Verdict, RejectionCode, Accepted, RecursionError

(* verify_envelope of a live response: the static checks, then the clock.   *)
LEMMA LiveFactors ==
  ASSUME NEW body, NEW pol, NEW environment, NEW t
  PROVE  VerifyEnvelope(body, pol, Live(environment, t)) =
           IF StaticVerdict(body, pol, environment) # Accepted
           THEN StaticVerdict(body, pol, environment)
           ELSE IF TooNew(body, t) THEN "issuedInTheFuture"
           ELSE IF TooOld(body, t) THEN "expired"
           ELSE Accepted
BY SignatureCodes DEF VerifyEnvelope, StaticVerdict, Live, TooNew, TooOld, Accepted, RecursionError

(* verify_envelope of the cache file: the same, but for expiry.             *)
LEMMA CacheFactors ==
  ASSUME NEW body, NEW pol, NEW environment, NEW t
  PROVE  VerifyEnvelope(body, pol, CacheLoad(environment, t)) =
           IF StaticVerdict(body, pol, environment) # Accepted
           THEN StaticVerdict(body, pol, environment)
           ELSE IF TooNew(body, t) THEN "issuedInTheFuture"
           ELSE Accepted
BY SignatureCodes DEF VerifyEnvelope, StaticVerdict, CacheLoad, TooNew, TooOld, Accepted, RecursionError

(* A body past the static checks has its two instants.                      *)
LEMMA StaticTimes ==
  ASSUME NEW body \in Envelope, NEW pol, NEW environment,
         StaticVerdict(body, pol, environment) = Accepted
  PROVE  body.payload.issuedAt \in Int /\ body.payload.expiresAt \in Int
<1>1. body.payload \in Payload
  BY DEF Envelope
<1>2. BadTime \notin {body.payload.issuedAt, body.payload.expiresAt}
  BY SignatureCodes DEF StaticVerdict, Accepted, RecursionError
<1>3. QED
  BY <1>1, <1>2 DEF Payload

(* An accepted body under a required policy carries an accepted signature.  *)
LEMMA AcceptedIsSigned ==
  ASSUME NEW body, NEW pol, NEW environment, pol.required,
         StaticVerdict(body, pol, environment) = Accepted
  PROVE  CheckSignature(body.sig, pol) = Accepted
BY DEF StaticVerdict, Accepted, RecursionError

(* What an accepted signature is.                                           *)
LEMMA SignatureFacts ==
  ASSUME NEW sig \in Sig, NEW pol, CheckSignature(sig, pol) = Accepted
  PROVE  /\ sig.shape = "split" /\ sig.exact
         /\ sig.keyId \in DOMAIN pol.trusted
         /\ sig.signer = pol.trusted[sig.keyId]
         /\ sig.signer \in FullSizeKey
<1>1. sig.shape \notin {"absent", "empty", "unsplit"}
  BY DEF CheckSignature, Accepted
<1>2. Usable(sig.keyId, pol) /\ Ed25519Verify(pol.trusted[sig.keyId], sig)
  BY DEF CheckSignature, Accepted
<1>3. sig.shape = "split"
  BY <1>1 DEF Sig
<1>4. QED
  BY <1>2, <1>3 DEF Usable, Ed25519Verify

(* A trust store without its unusable entries, and its lookups.             *)
Pruned(pol) ==
  LET usable == {k \in DOMAIN pol.trusted : pol.trusted[k] \in FullSizeKey}
  IN SignatureRequired([k \in usable |-> pol.trusted[k]])

(* Signatures fare the same with the unusable entries left out.             *)
LEMMA PrunedSignature ==
  ASSUME NEW sig, NEW pol
  PROVE  CheckSignature(sig, Pruned(pol)) = CheckSignature(sig, pol)
<1> DEFINE usable == {k \in DOMAIN pol.trusted : pol.trusted[k] \in FullSizeKey}
<1>1. Pruned(pol).trusted = [k \in usable |-> pol.trusted[k]]
  BY DEF Pruned, SignatureRequired
<1>2. Usable(sig.keyId, Pruned(pol)) <=> Usable(sig.keyId, pol)
  BY <1>1 DEF Usable
<1>3. Usable(sig.keyId, pol) => Pruned(pol).trusted[sig.keyId] = pol.trusted[sig.keyId]
  BY <1>1 DEF Usable
<1>4. QED
  BY <1>2, <1>3 DEF CheckSignature

-----------------------------------------------------------------------------
(* Every variable keeps its type, and every verdict is one of Verdict.      *)
THEOREM TypeCorrect == Spec => []TypeOK
<1>1. ASSUME raw \in Bodies, policy \in Policies, now \in Clock PROVE TypeOK
  <2>1. LiveVerdict \in Verdict
    BY LiveFactors, StaticCodes DEF LiveVerdict, Verdict, RejectionCode, Accepted
  <2>2. CacheVerdict \in Verdict
    BY CacheFactors, StaticCodes DEF CacheVerdict, Verdict, RejectionCode, Accepted
  <2>3. QED
    BY <1>1, <2>1, <2>2 DEF TypeOK
<1>2. Init => raw \in Bodies /\ policy \in Policies /\ now \in Clock
  BY DEF Init
<1>3. /\ raw \in Bodies /\ policy \in Policies /\ now \in Clock /\ [Next]_vars
      => (raw \in Bodies /\ policy \in Policies /\ now \in Clock)'
  BY DEF Next, Age, vars
<1>4. QED
  BY <1>1, <1>2, <1>3, PTL DEF Spec

(* Fail closed, for every body and every trust store: what is accepted      *)
(* under a required policy was signed with a listed key of full size, over  *)
(* these bytes (check_signature, verify_envelope).                          *)
THEOREM VerificationFailsClosed == Spec => []FailClosed
<1>1. ASSUME TypeOK PROVE FailClosed
  <2> SUFFICES ASSUME policy.required, Accepted \in {LiveVerdict, CacheVerdict}
               PROVE  /\ raw.sig.shape = "split" /\ raw.sig.exact
                      /\ raw.sig.keyId \in DOMAIN policy.trusted
                      /\ raw.sig.signer = policy.trusted[raw.sig.keyId]
                      /\ raw.sig.signer \in FullSizeKey
    BY DEF FailClosed
  <2>1. StaticVerdict(raw, policy, Environment) = Accepted
    BY LiveFactors, CacheFactors DEF LiveVerdict, CacheVerdict, Accepted
  <2>2. raw.sig \in Sig
    BY <1>1, VerificationAssumption DEF TypeOK, Envelope
  <2>3. CheckSignature(raw.sig, policy) = Accepted
    BY <2>1, AcceptedIsSigned
  <2>4. QED
    BY <2>2, <2>3, SignatureFacts
<1>2. QED
  BY <1>1, TypeCorrect, PTL

(* A cache load differs from a live check in accepting the expired, and in  *)
(* nothing else.                                                            *)
THEOREM CacheDiffersInExpiryOnly == Spec => []ExpiryAsymmetry
<1>1. ExpiryAsymmetry
  BY LiveFactors, CacheFactors, StaticCodes
     DEF ExpiryAsymmetry, LiveVerdict, CacheVerdict, Accepted
<1>2. QED
  BY <1>1, PTL

(* The window of a live body, to the second, for every pair of instants.    *)
THEOREM WindowIsExact == Spec => []LiveWindow
<1>1. ASSUME TypeOK PROVE LiveWindow
  <2>1. raw \in Envelope /\ now \in Int
    BY <1>1, VerificationAssumption DEF TypeOK
  <2>2. CASE StaticVerdict(raw, policy, Environment) # Accepted
    BY <2>2, LiveFactors, CacheFactors, StaticCodes
       DEF LiveWindow, LiveVerdict, CacheVerdict
  <2>3. CASE StaticVerdict(raw, policy, Environment) = Accepted
    <3>1. raw.payload.issuedAt \in Int /\ raw.payload.expiresAt \in Int
      BY <2>1, <2>3, StaticTimes
    <3>2. CacheVerdict \in {Accepted, "issuedInTheFuture"}
      BY <2>3, CacheFactors DEF CacheVerdict
    <3>3. LiveVerdict = Accepted <=> ~TooNew(raw, now) /\ ~TooOld(raw, now)
      BY <2>3, LiveFactors DEF LiveVerdict, Accepted
    <3>4. (~TooNew(raw, now) /\ ~TooOld(raw, now)) <=>
            now \in (raw.payload.issuedAt - 300)..(raw.payload.expiresAt + 300)
      BY <2>1, <3>1 DEF TooNew, TooOld, CLOCK_SKEW_TOLERANCE_S
    <3>5. QED
      BY <3>2, <3>3, <3>4 DEF LiveWindow
  <2>4. QED
    BY <2>2, <2>3
<1>2. QED
  BY <1>1, TypeCorrect, PTL

(* A wrong-size entry of the trust store changes no verdict.                *)
THEOREM BadEntriesAreInert == Spec => []BadTrustEntryIsInert
<1>1. BadTrustEntryIsInert
  <2> SUFFICES ASSUME policy.required
               PROVE  LiveVerdict = VerifyEnvelope(raw, Pruned(policy), Live(Environment, now))
    BY DEF BadTrustEntryIsInert, Pruned
  <2>1. Pruned(policy).required
    BY DEF Pruned, SignatureRequired
  <2>2. CheckSignature(raw.sig, Pruned(policy)) = CheckSignature(raw.sig, policy)
    BY PrunedSignature
  <2>3. StaticVerdict(raw, Pruned(policy), Environment) = StaticVerdict(raw, policy, Environment)
    BY <2>1, <2>2 DEF StaticVerdict
  <2>4. QED
    BY <2>3, LiveFactors DEF LiveVerdict
<1>2. QED
  BY <1>1, PTL

(* Outage survival: the cache never turns down what it once accepted.       *)
THEOREM CacheOutlivesOutages == Spec => CacheNeverExpires
<1>1. ASSUME TypeOK, Next, CacheVerdict = Accepted PROVE CacheVerdict' = Accepted
  <2>1. /\ raw \in Envelope /\ now \in Int /\ now' \in Int /\ now' > now
        /\ UNCHANGED <<raw, policy>>
    BY <1>1, VerificationAssumption DEF TypeOK, Next, Age
  <2>2. StaticVerdict(raw, policy, Environment) = Accepted /\ ~TooNew(raw, now)
    BY <1>1, CacheFactors DEF CacheVerdict, Accepted
  <2>3. raw.payload.issuedAt \in Int
    BY <2>1, <2>2, StaticTimes
  <2>4. ~TooNew(raw, now')
    BY <2>1, <2>2, <2>3 DEF TooNew, CLOCK_SKEW_TOLERANCE_S
  <2>5. CacheVerdict' = VerifyEnvelope(raw, policy, CacheLoad(Environment, now'))
    BY <2>1 DEF CacheVerdict
  <2>6. QED
    BY <2>2, <2>4, <2>5, CacheFactors
<1>2. ASSUME UNCHANGED vars, CacheVerdict = Accepted PROVE CacheVerdict' = Accepted
  BY <1>2 DEF vars, CacheVerdict
<1>3. TypeOK /\ [Next]_vars => [CacheVerdict = Accepted => CacheVerdict' = Accepted]_vars
  BY <1>1, <1>2
<1>4. QED
  BY <1>3, TypeCorrect, PTL DEF Spec, CacheNeverExpires
=============================================================================
