-------------------------- MODULE TransportProofs ---------------------------
(***************************************************************************)
(* Proofs about one exchange: what its outcome lets the poller conclude    *)
(* about what came over the network, whatever came.                        *)
(***************************************************************************)
EXTENDS Transport, TLAPS

Hinting == {[Bare("rateLimited") EXCEPT !.retryAfter = r] : r \in RetryAfter}

(* Helper: an outcome without a body is bare, or a rate limit.              *)
LEMMA BareOutcome ==
  ASSUME NEW outcome,
         outcome \in {Bare(kind) : kind \in FetchKind} \cup Hinting
  PROVE  /\ outcome \in Outcome
         /\ outcome.kind \in FetchKind
         /\ outcome.body = None /\ outcome.etag = None
         /\ outcome.retryAfter # "none" => outcome.kind = "rateLimited"
<1>1. CASE outcome \in {Bare(kind) : kind \in FetchKind}
  BY <1>1 DEF Bare, Outcome, FetchKind, RetryAfter
<1>2. CASE outcome \in Hinting
  <2>1. PICK r \in RetryAfter : outcome = [Bare("rateLimited") EXCEPT !.retryAfter = r]
    BY <1>2 DEF Hinting
  <2>2. QED
    BY <2>1 DEF Bare, Outcome, FetchKind, RetryAfter
<1>3. QED
  BY <1>1, <1>2

(* Helper: a status is mapped to what carries no body.                      *)
LEMMA MappedStatus ==
  ASSUME NEW x
  PROVE  /\ MapStatus(x) \in {Bare(kind) : kind \in FetchKind \ {"success"}} \cup Hinting
         /\ MapStatus(x).kind = "notModified" <=> x.status = 304
         /\ MapStatus(x).kind = "rateLimited" <=> x.status = 429
         /\ MapStatus(x).kind # "success"
         /\ MapStatus(x).retryAfter # "none" => MapStatus(x).retryAfter = ParseRetryAfter(x.retryAfter)
<1> DEFINE limited == [Bare("rateLimited") EXCEPT !.retryAfter = ParseRetryAfter(x.retryAfter)]
<1>1. ParseRetryAfter(x.retryAfter) \in RetryAfter
  BY DEF ParseRetryAfter, RetryAfter
<1>2. /\ limited \in Hinting /\ limited.kind = "rateLimited"
      /\ limited.retryAfter = ParseRetryAfter(x.retryAfter)
  BY <1>1 DEF Hinting, Bare
<1>3. \A kind : Bare(kind).kind = kind /\ Bare(kind).retryAfter = "none"
  BY DEF Bare
<1> HIDE DEF limited
<1>4. MapStatus(x) = IF x.status = 304 THEN Bare("notModified")
                     ELSE IF x.status \in {401, 403} THEN Bare("unauthorized")
                     ELSE IF x.status = 429 THEN limited
                     ELSE IF x.status >= 500 THEN Bare("serverError")
                     ELSE Bare("unexpectedStatus")
  BY DEF MapStatus, limited
<1>5. QED
  BY <1>2, <1>3, <1>4 DEF FetchKind

-----------------------------------------------------------------------------
(* Helper: the four ways an exchange that does not raise can go.            *)
LEMMA FetchCases ==
  ASSUME NEW x \in Exchange, x.raised \notin Uncaught
  PROVE  \/ x.raised \in Caught /\ FetchRuleset(x) = Bare("transportError")
         \/ /\ x.raised = "nothing" /\ x.status = 200 /\ ~x.fits
            /\ FetchRuleset(x) = Bare("responseTooLarge")
         \/ /\ x.raised = "nothing" /\ x.status = 200 /\ x.fits
            /\ FetchRuleset(x) =
                 [kind |-> "success", body |-> x.body, etag |-> x.etag, retryAfter |-> "none"]
         \/ /\ x.raised = "nothing" /\ x.status # 200
            /\ FetchRuleset(x) = MapStatus(x)
<1>1. x.raised \in Caught \cup {"nothing"} /\ "nothing" \notin Caught
  BY DEF Exchange, Caught
<1>2. QED
  BY <1>1 DEF FetchRuleset, ReadSuccess

(* Whatever comes over the network and is caught, the poller gets one of    *)
(* the eight outcomes, fully filled in: _record has no other branch to meet.*)
THEOREM EveryAnswerIsAnOutcome ==
  ASSUME NEW x \in Exchange, x.raised \notin Uncaught
  PROVE  FetchRuleset(x) \in Outcome /\ FetchRuleset(x).kind \in FetchKind
<1>1. ASSUME FetchRuleset(x) =
               [kind |-> "success", body |-> x.body, etag |-> x.etag, retryAfter |-> "none"]
      PROVE  FetchRuleset(x) \in Outcome /\ FetchRuleset(x).kind \in FetchKind
  BY <1>1 DEF Exchange, Outcome, FetchKind, RetryAfter
<1>2. ASSUME FetchRuleset(x) \in {Bare(kind) : kind \in FetchKind} \cup Hinting
      PROVE  FetchRuleset(x) \in Outcome /\ FetchRuleset(x).kind \in FetchKind
  BY <1>2, BareOutcome
<1>3. Bare("transportError") \in {Bare(kind) : kind \in FetchKind}
  BY DEF FetchKind
<1>4. Bare("responseTooLarge") \in {Bare(kind) : kind \in FetchKind}
  BY DEF FetchKind
<1>5. QED
  BY <1>1, <1>2, <1>3, <1>4, FetchCases, MappedStatus

(* Only a 200 that ended within the size cap delivers, and then its own     *)
(* body and ETag; nothing else - no redirect, no 204, no error page - hands *)
(* the poller a body to verify or an ETag to remember.                      *)
THEOREM OnlyAWhole200Delivers ==
  ASSUME NEW x \in Exchange, x.raised \notin Uncaught
  PROVE  LET outcome == FetchRuleset(x)
         IN /\ outcome.kind = "success"
                 <=> (x.raised = "nothing" /\ x.status = 200 /\ x.fits)
            /\ outcome.kind = "success" => outcome.body = x.body /\ outcome.etag = x.etag
            /\ outcome.kind # "success" => outcome.body = None /\ outcome.etag = None
<1> DEFINE outcome == FetchRuleset(x)
<1>1. CASE x.raised \in Caught /\ outcome = Bare("transportError")
  <2>1. x.raised # "nothing"
    BY <1>1 DEF Caught
  <2>2. QED
    BY <1>1, <2>1 DEF Bare
<1>2. CASE /\ x.raised = "nothing" /\ x.status = 200 /\ ~x.fits
           /\ outcome = Bare("responseTooLarge")
  BY <1>2 DEF Bare
<1>3. CASE /\ x.raised = "nothing" /\ x.status = 200 /\ x.fits
           /\ outcome = [kind |-> "success", body |-> x.body, etag |-> x.etag,
                         retryAfter |-> "none"]
  BY <1>3
<1>4. CASE x.raised = "nothing" /\ x.status # 200 /\ outcome = MapStatus(x)
  <2>1. outcome \in {Bare(kind) : kind \in FetchKind} \cup Hinting /\ outcome.kind # "success"
    BY <1>4, MappedStatus
  <2>2. QED
    BY <1>4, <2>1, BareOutcome
<1>5. QED
  BY <1>1, <1>2, <1>3, <1>4, FetchCases

(* Only a 304 confirms what is held, and only a 429 makes the server's hint *)
(* heard: an exception, an oversized body or another status never counts as *)
(* a success of the first kind or postpones the next attempt by its header. *)
THEOREM OnlyTheServerSaysSo ==
  ASSUME NEW x \in Exchange, x.raised \notin Uncaught
  PROVE  LET outcome == FetchRuleset(x)
         IN /\ outcome.kind = "notModified" <=> (x.raised = "nothing" /\ x.status = 304)
            /\ outcome.kind = "rateLimited" <=> (x.raised = "nothing" /\ x.status = 429)
            /\ outcome.retryAfter # "none" =>
                 /\ outcome.kind = "rateLimited"
                 /\ outcome.retryAfter = ParseRetryAfter(x.retryAfter)
<1> DEFINE outcome == FetchRuleset(x)
<1>1. CASE x.raised \in Caught /\ outcome = Bare("transportError")
  <2>1. x.raised # "nothing"
    BY <1>1 DEF Caught
  <2>2. QED
    BY <1>1, <2>1 DEF Bare
<1>2. CASE /\ x.raised = "nothing" /\ x.status = 200 /\ ~x.fits
           /\ outcome = Bare("responseTooLarge")
  BY <1>2 DEF Bare
<1>3. CASE /\ x.raised = "nothing" /\ x.status = 200 /\ x.fits
           /\ outcome = [kind |-> "success", body |-> x.body, etag |-> x.etag,
                         retryAfter |-> "none"]
  BY <1>3
<1>4. CASE x.raised = "nothing" /\ x.status # 200 /\ outcome = MapStatus(x)
  <2>1. outcome \in {Bare(kind) : kind \in FetchKind} \cup Hinting
    BY <1>4, MappedStatus
  <2>2. outcome.retryAfter # "none" => outcome.kind = "rateLimited"
    BY <2>1, BareOutcome
  <2>3. QED
    BY <1>4, <2>2, MappedStatus
<1>5. QED
  BY <1>1, <1>2, <1>3, <1>4, FetchCases
=============================================================================
