----------------------------- MODULE MCVerifier -----------------------------
(***************************************************************************)
(* Verification over every combination of a bounded set of bodies, trust   *)
(* stores and clock readings.                                              *)
(***************************************************************************)
EXTENDS Verification

MCEnvironmentName == {"dev", "prod"}
MCKeyId == {"k1", "k2", "k3"}
MCPublicKey == {"pk1", "short"}
MCFullSizeKey == {"pk1"}

IssuedAt == 1000
ExpiresAt == 2800
\* One second either side of both edges of the accepted window.
MCClock == {699, 700, 1000, 2800, 3100, 3101}

SplitSig == [shape : {"split"}, algorithm : {"ed25519", "p256"},
             keyId : KeyId, encoding : {"empty", "dirty", "base64url"},
             signer : PublicKey, exact : BOOLEAN]
UnsplitSig == [shape : {"absent", "empty", "unsplit"}, algorithm : {"p256"},
               keyId : {"k1"}, encoding : {"empty"}, signer : {"pk1"},
               exact : {FALSE}]
MCPayload == [json : {"object", "malformed", "tooDeep"}, sv : {1, 99},
              environment : EnvironmentName, issuedAt : {IssuedAt, BadTime},
              expiresAt : {ExpiresAt, BadTime},
              kinds : {{"boolean", "string"}, {"boolean", "datetime"}}]
MCBodies == [json : {"envelope", "malformed", "tooDeep"},
               sig : SplitSig \cup UnsplitSig, payload : MCPayload]

\* k1 is usable; k2 is a trust store entry of the wrong size; k3 is unknown.
MCPolicies ==
  {SIGNATURE_DISABLED,
   SignatureRequired([k \in {"k1", "k2"} |-> IF k = "k1" THEN "pk1" ELSE "short"])}
=============================================================================
