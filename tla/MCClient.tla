------------------------------ MODULE MCClient ------------------------------
(***************************************************************************)
(* Client on small instances.  The bodies: two good rulesets, one for      *)
(* another environment, one whose payload nests too deeply to parse.  At   *)
(* the second reading of the clock the good ones have expired: a live      *)
(* check refuses them, a cache load accepts them.                          *)
(***************************************************************************)
EXTENDS Client, TLC

MCEnvironmentName == {"dev", "prod"}
MCKeyId == {"k1"}
MCPublicKey == {"pk1"}
MCClock == {1500, 9000}

NoSig == [shape |-> "absent", algorithm |-> "ed25519", keyId |-> "k1",
          encoding |-> "empty", signer |-> "pk1", exact |-> FALSE]

Ruleset(issuedAt, environment, json) ==
  [json |-> "envelope", sig |-> NoSig,
   payload |-> [json |-> json, sv |-> 1, environment |-> environment,
                issuedAt |-> issuedAt, expiresAt |-> issuedAt + 1800,
                kinds |-> {"boolean"}]]

Good1 == Ruleset(1000, "dev", "object")
Good2 == Ruleset(1001, "dev", "object")
WrongEnvironment == Ruleset(1000, "prod", "object")
TooDeep == Ruleset(1000, "dev", "tooDeep")

TwoGood == {Good1, Good2}
OneGood == {Good1}
TwoGoodOneDeep == {Good1, Good2, TooDeep}
AllBody == {Good1, Good2, WrongEnvironment, TooDeep}

-----------------------------------------------------------------------------
NoReply == [raised |-> "nothing", status |-> 0, body |-> None, fits |-> TRUE,
            etag |-> None, retryAfter |-> "absent"]
WithStatus(code) == [NoReply EXCEPT !.status = code]
Raising(exception) == [NoReply EXCEPT !.raised = exception]
Limiting(header) == [WithStatus(429) EXCEPT !.retryAfter = header]
Delivering(b, tag) == [WithStatus(200) EXCEPT !.body = b, !.etag = tag]

Deliveries == UNION {{Delivering(b, tag) : tag \in {b, None}} : b \in Body}

(* A redirect, a revoked key, a rate limit, a failing server, a body past   *)
(* the cap, a broken network, and what is not caught.                       *)
EveryReply ==
  Deliveries \cup {WithStatus(code) : code \in {204, 302, 304, 401, 403, 404, 500, 503}}
  \cup {Raising(exception) : exception \in Caught \cup Uncaught}
  \cup {Limiting(header) : header \in Header}
  \cup {[Delivering(b, b) EXCEPT !.fits = FALSE] : b \in Body}

(* A 304, a revoked key, and what is not caught.                            *)
SomeReply ==
  Deliveries \cup {WithStatus(304), WithStatus(401)}
  \cup {Raising(exception) : exception \in Uncaught}

LimitingReply == Deliveries \cup {WithStatus(304), Raising("HTTPException"),
                                  Limiting("pastDouble")}

CallerSymmetry == Permutations(Caller)
=============================================================================
