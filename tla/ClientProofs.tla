---------------------------- MODULE ClientProofs ----------------------------
(***************************************************************************)
(* Proofs about Client, for every number of callers and every set of       *)
(* bodies.  The safety properties are not inductive one by one: each       *)
(* relies on where the poller is in its attempt and on the launch having   *)
(* ended before the poller began, which Inductive adds.  One lemma per     *)
(* part of Inductive shows that part preserved by every step.              *)
(***************************************************************************)
EXTENDS Client, TransportProofs

(* The caller steps that touch nothing but the caller's own locals, but for *)
(* close() setting the stop event.                                          *)
Quiet(c) ==
  \/ CallStart(c) \/ CallClose(c) \/ AwaitFirstAttempt(c) \/ CheckReady(c)
  \/ ReadSnapshot(c) \/ RecheckReady(c) \/ ReadThread(c) \/ JoinThread(c)

(* A caller only ever moves between the places of a call, with locals and   *)
(* answers of their types (start() and close()).                            *)
LEMMA CallerTypeStep == TypeOK /\ [Next]_vars => CallerTypeOK'
<1> SUFFICES ASSUME TypeOK, [Next]_vars PROVE CallerTypeOK'
  OBVIOUS
<1>0. /\ pc \in [Caller -> Place] /\ limited \in [Caller -> BOOLEAN]
      /\ result \in [Caller -> Answer]
      /\ snapshot \in Snapshot \cup {None}
  BY DEF TypeOK, CallerTypeOK, SharedTypeOK
<1>1. ASSUME NEW c \in Caller, NEW from, NEW to \in Place, Goto(c, from, to)
      PROVE  pc' \in [Caller -> Place]
  BY <1>0, <1>1 DEF Goto
<1>2. ASSUME NEW c \in Caller, NEW from, NEW answer \in Answer,
             Return(c, from, answer)
      PROVE  CallerTypeOK'
  <2>1. "idle" \in Place
    BY DEF Place
  <2>2. pc' \in [Caller -> Place]
    BY <1>1, <1>2, <2>1 DEF Return
  <2>3. QED
    BY <1>0, <1>2, <2>2 DEF Return, CallerTypeOK
<1>3. ASSUME UNCHANGED callerVars PROVE CallerTypeOK'
  BY <1>0, <1>3 DEF callerVars, CallerTypeOK
<1>4. ASSUME NEW c \in Caller, CallStart(c) PROVE CallerTypeOK'
  BY <1>0, <1>4 DEF CallStart, Goto, CallerTypeOK, Place, Answer
<1>5. ASSUME NEW c \in Caller, CallClose(c) PROVE CallerTypeOK'
  BY <1>0, <1>5 DEF CallClose, Goto, CallerTypeOK, Place, Answer
<1>6. ASSUME NEW c \in Caller, EnterStart(c) PROVE CallerTypeOK'
  <2>1. pc' \in [Caller -> Place]
    BY <1>1, <1>6 DEF EnterStart, Place
  <2>2. QED
    BY <1>0, <1>6, <2>1 DEF EnterStart, CallerTypeOK
<1>7. ASSUME NEW c \in Caller, LoadCache(c) PROVE CallerTypeOK'
  <2>1. CASE Return(c, "load", "startRaised")
    BY <1>2, <2>1 DEF Answer
  <2>2. CASE \/ Goto(c, "load", "create") /\ UNCHANGED <<result, limited>>
             \/ Goto(c, "load", "restore") /\ UNCHANGED <<result, limited>>
    <3>1. pc' \in [Caller -> Place]
      BY <1>1, <2>2 DEF Place
    <3>2. QED
      BY <1>0, <2>2, <3>1 DEF CallerTypeOK
  <2>3. QED
    BY <1>7, <2>1, <2>2 DEF LoadCache
<1>8. ASSUME NEW c \in Caller,
             RestoreSnapshot(c) \/ CreateThread(c) \/ SpawnThread(c)
               \/ AwaitFirstAttempt(c)
      PROVE  CallerTypeOK'
  <2>1. pc' \in [Caller -> Place]
    BY <1>1, <1>8 DEF RestoreSnapshot, CreateThread, SpawnThread,
                      AwaitFirstAttempt, Place
  <2>2. QED
    BY <1>0, <1>8, <2>1 DEF RestoreSnapshot, CreateThread, SpawnThread,
                            AwaitFirstAttempt, CallerTypeOK
<1>9. ASSUME NEW c \in Caller, SpawnRaises(c) \/ RecheckReady(c) \/ JoinThread(c)
      PROVE  CallerTypeOK'
  BY <1>2, <1>9 DEF SpawnRaises, RecheckReady, JoinThread, Answer
<1>10. ASSUME NEW c \in Caller, CheckReady(c) PROVE CallerTypeOK'
  <2>1. CASE networkReady
    BY <1>2, <1>10, <2>1 DEF CheckReady, Answer
  <2>2. CASE ~networkReady
    <3>1. pc' \in [Caller -> Place]
      BY <1>1, <1>10, <2>2 DEF CheckReady, Place
    <3>2. QED
      BY <1>0, <1>10, <2>2, <3>1 DEF CheckReady, CallerTypeOK
  <2>3. QED
    BY <2>1, <2>2
<1>11. ASSUME NEW c \in Caller, ReadSnapshot(c) PROVE CallerTypeOK'
  <2>1. CASE snapshot # None /\ snapshot.fromCache
    BY <1>2, <1>11, <2>1 DEF ReadSnapshot, Answer
  <2>2. CASE ~(snapshot # None /\ snapshot.fromCache)
    <3>1. pc' \in [Caller -> Place]
      BY <1>1, <1>11, <2>2 DEF ReadSnapshot, Place
    <3>2. QED
      BY <1>0, <1>11, <2>2, <3>1 DEF ReadSnapshot, CallerTypeOK
  <2>3. QED
    BY <2>1, <2>2
<1>12. ASSUME NEW c \in Caller, ReadThread(c) PROVE CallerTypeOK'
  <2>1. CASE thread = "none"
    BY <1>2, <1>12, <2>1 DEF ReadThread, Answer
  <2>2. CASE thread # "none"
    <3>1. pc' \in [Caller -> Place]
      BY <1>1, <1>12, <2>2 DEF ReadThread, Place
    <3>2. QED
      BY <1>0, <1>12, <2>2, <3>1 DEF ReadThread, CallerTypeOK
  <2>3. QED
    BY <2>1, <2>2
<1>13. ASSUME PollerStep PROVE UNCHANGED callerVars
  BY <1>13 DEF PollerStep, PollLoop, Fetch, FetchRaises, CheckStop,
       RecordSuccess, RecordOther, StoreCache, PublishSnapshot, NoteFresh,
       SetNetworkReady, SetFirstAttempt, Backoff
<1>14. QED
  BY <1>3, <1>4, <1>5, <1>6, <1>7, <1>8, <1>9, <1>10, <1>11, <1>12, <1>13
     DEF Next, CallStep, StartStep, CloseStep, vars

-----------------------------------------------------------------------------
(* What a quiet step leaves alone: all the client state but the stop event, *)
(* which it may set.                                                        *)
LEMMA QuietFrame ==
  ASSUME TypeOK, NEW c \in Caller, Quiet(c)
  PROVE  /\ UNCHANGED <<snapshot, file, diagnosticVars, firstAttempt, networkReady,
                        startVars, pollerVars>>
         /\ stop => stop'
         /\ \A d \in Caller : Launching(d) \/ Launching(d)' => pc'[d] = pc[d]
         /\ \A d \in Caller : result'[d] = "ready" => networkReady \/ result[d] = "ready"
<1>0. /\ pc \in [Caller -> Place] /\ result \in [Caller -> Answer]
      /\ stop \in BOOLEAN
  BY DEF TypeOK, CallerTypeOK, SharedTypeOK
<1>1. ASSUME NEW from, NEW to, Goto(c, from, to),
             from \notin {"load", "restore", "create", "spawn"},
             to \notin {"load", "restore", "create", "spawn"}
      PROVE  \A d \in Caller : Launching(d) \/ Launching(d)' => pc'[d] = pc[d]
  BY <1>0, <1>1 DEF Goto, Launching
<1>2. ASSUME NEW from, NEW answer, Return(c, from, answer),
             from \notin {"load", "restore", "create", "spawn"}
      PROVE  /\ \A d \in Caller : Launching(d) \/ Launching(d)' => pc'[d] = pc[d]
             /\ \A d \in Caller : result'[d] = "ready" =>
                                  result[d] = "ready" \/ answer = "ready"
  BY <1>0, <1>1, <1>2 DEF Return
<1>3. CASE CallStart(c)
  <2>1. \A d \in Caller : Launching(d) \/ Launching(d)' => pc'[d] = pc[d]
    BY <1>1, <1>3 DEF CallStart
  <2>2. QED
    BY <1>0, <1>3, <2>1 DEF CallStart, eventVars
<1>4. CASE CallClose(c)
  <2>1. \A d \in Caller : Launching(d) \/ Launching(d)' => pc'[d] = pc[d]
    BY <1>1, <1>4 DEF CallClose
  <2>2. QED
    BY <1>0, <1>4, <2>1 DEF CallClose, eventVars
<1>5. CASE AwaitFirstAttempt(c)
  BY <1>1, <1>5 DEF AwaitFirstAttempt, eventVars
<1>6. CASE CheckReady(c)
  BY <1>1, <1>2, <1>6 DEF CheckReady, eventVars
<1>7. CASE ReadSnapshot(c)
  BY <1>1, <1>2, <1>7 DEF ReadSnapshot, eventVars
<1>8. CASE RecheckReady(c)
  BY <1>2, <1>8 DEF RecheckReady, eventVars
<1>9. CASE ReadThread(c)
  BY <1>1, <1>2, <1>9 DEF ReadThread, eventVars
<1>10. CASE JoinThread(c)
  BY <1>2, <1>10 DEF JoinThread, eventVars
<1>11. QED
  BY <1>3, <1>4, <1>5, <1>6, <1>7, <1>8, <1>9, <1>10 DEF Quiet

(* The poller leaves alone everything that belongs to start() and close().  *)
LEMMA PollerFrame ==
  ASSUME PollerStep
  PROVE  /\ UNCHANGED <<startVars, callerVars, stop>>
         /\ poller # "unborn" /\ poller' # "unborn"
BY DEF PollerStep, PollLoop, Fetch, FetchRaises, CheckStop,
       RecordSuccess, RecordRejected, RecordOther, StoreCache, PublishSnapshot,
       NoteFresh, SetNetworkReady, SetFirstAttempt, Backoff, At, eventVars

(* The case split the proofs below share: a quiet step, one of the six      *)
(* steps of the launch, a step of the poller, or none.                      *)
LEMMA StepCases ==
  ASSUME [Next]_vars
  PROVE  \/ \E c \in Caller : \/ Quiet(c) \/ EnterStart(c) \/ LoadCache(c)
                              \/ RestoreSnapshot(c) \/ CreateThread(c)
                              \/ SpawnThread(c) \/ SpawnRaises(c)
         \/ PollerStep
         \/ UNCHANGED vars
BY DEF Next, CallStep, StartStep, CloseStep, Quiet

-----------------------------------------------------------------------------
(* Every write to the client's fields, events and locks is of their type.   *)
LEMMA SharedTypeStep == Inductive /\ [Next]_vars => SharedTypeOK'
<1> SUFFICES ASSUME Inductive, [Next]_vars PROVE SharedTypeOK'
  OBVIOUS
<1> USE DEF SharedTypeOK
<1>0. TypeOK /\ SharedTypeOK /\ outcome \in Outcome
  BY DEF Inductive, TypeOK, PollerTypeOK
<1>1. ASSUME NEW c \in Caller, Quiet(c) PROVE SharedTypeOK'
  <2>1. stop' \in BOOLEAN
    BY <1>0, <1>1 DEF Quiet, CallStart, CallClose, AwaitFirstAttempt, CheckReady,
       ReadSnapshot, RecheckReady, ReadThread, JoinThread, eventVars
  <2>2. QED
    BY <1>0, <1>1, <2>1, QuietFrame DEF diagnosticVars, startVars
<1>2. ASSUME NEW c \in Caller, EnterStart(c) PROVE SharedTypeOK'
  <2>1. startLock' \in {startLock, c} /\ (started' = started \/ started' = TRUE)
    BY <1>2 DEF EnterStart
  <2>2. UNCHANGED <<snapshot, file, diagnosticVars, eventVars, thread>>
    BY <1>2 DEF EnterStart
  <2>3. started' \in BOOLEAN
    BY <1>0, <2>1, Zenon
  <2>4. QED
    BY <1>0, <2>1, <2>2, <2>3 DEF diagnosticVars, eventVars
<1>3. ASSUME NEW c \in Caller, LoadCache(c) PROVE SharedTypeOK'
  <2>1. /\ cacheState' \in {"loaded", "loadFailed", cacheState}
        /\ startLock' \in {startLock, None}
    BY <1>3 DEF LoadCache
  <2>2. UNCHANGED <<snapshot, file, etag, status, rejection, failures, eventVars,
                    started, thread>>
    BY <1>3 DEF LoadCache
  <2>3. QED
    BY <1>0, <2>1, <2>2 DEF eventVars
<1>4. ASSUME NEW c \in Caller, RestoreSnapshot(c) PROVE SharedTypeOK'
  <2>1. file \in Body
    BY <1>4 DEF Inductive, BeforePoller, CacheAcceptable, RestoreSnapshot, Goto
  <2>2. snapshot' \in Snapshot
    BY <1>4, <2>1 DEF RestoreSnapshot, Snapshot
  <2>3. UNCHANGED <<file, diagnosticVars, eventVars, startVars>>
    BY <1>4 DEF RestoreSnapshot
  <2>4. QED
    BY <1>0, <2>2, <2>3 DEF diagnosticVars, eventVars, startVars
<1>5. ASSUME NEW c \in Caller, CreateThread(c) \/ SpawnThread(c) \/ SpawnRaises(c)
      PROVE  SharedTypeOK'
  BY <1>0, <1>5 DEF CreateThread, SpawnThread, SpawnRaises, diagnosticVars, eventVars
<1>6. ASSUME PollerStep PROVE SharedTypeOK'
  <2>0. UNCHANGED <<startVars, stop>>
    BY <1>6, PollerFrame
  <2>1. CASE UNCHANGED <<snapshot, file, diagnosticVars, eventVars>>
    BY <1>0, <2>0, <2>1 DEF diagnosticVars, eventVars, startVars
  <2>2. CASE CheckStop \/ SetNetworkReady \/ SetFirstAttempt
    <3>1. /\ firstAttempt' = firstAttempt \/ firstAttempt' = TRUE
          /\ networkReady' = networkReady \/ networkReady' = TRUE
          /\ UNCHANGED <<snapshot, file, diagnosticVars>>
      BY <2>2 DEF CheckStop, SetNetworkReady, SetFirstAttempt
    <3>2. firstAttempt' \in BOOLEAN /\ networkReady' \in BOOLEAN
      BY <1>0, <3>1, Zenon
    <3>3. QED
      BY <1>0, <2>0, <3>1, <3>2 DEF diagnosticVars, startVars
  <2>3. CASE RecordSuccess
    <3>1. /\ status' \in {status, "rejectedEnvelope"}
          /\ rejection' \in RejectionCode \cup {rejection}
          /\ failures' \in {failures, OneMoreFailure}
          /\ UNCHANGED <<snapshot, file, etag, cacheState, eventVars, startVars>>
      BY <2>3 DEF RecordSuccess, RecordRejected
    <3>2. OneMoreFailure \in 0..MaxFailures
      BY <1>0, ClientAssumption DEF OneMoreFailure
    <3>3. QED
      BY <1>0, <3>1, <3>2 DEF Status, eventVars, startVars
  <2>4. CASE RecordOther
    <3>1. outcome.kind \in Status
      BY <1>0, <2>4 DEF RecordOther, Inductive, AttemptInv, Outcome, Status, At, FetchKind
    <3>2. OneMoreFailure \in 0..MaxFailures /\ 0 \in 0..MaxFailures
      BY <1>0, ClientAssumption DEF OneMoreFailure
    <3>3. /\ status' \in Status /\ failures' \in 0..MaxFailures
          /\ UNCHANGED <<snapshot, file, etag, rejection, cacheState, eventVars,
                         startVars>>
      BY <2>4, <3>1, <3>2 DEF RecordOther
    <3>4. QED
      BY <1>0, <3>3 DEF eventVars, startVars
  <2>5. CASE StoreCache
    <3>1. file' \in {file, outcome.body, Torn}
      BY <2>5 DEF StoreCache
    <3>2. outcome.body \in Body \cup {None}
      BY <1>0 DEF Outcome
    <3>3. QED
      BY <1>0, <2>5, <3>1, <3>2 DEF StoreCache, diagnosticVars, eventVars, startVars
  <2>6. CASE PublishSnapshot
    <3>1. outcome.body \in Body
      BY <2>6 DEF PublishSnapshot, Inductive, AttemptInv, At
    <3>2. snapshot' \in Snapshot
      BY <2>6, <3>1 DEF PublishSnapshot, Snapshot
    <3>3. UNCHANGED <<file, diagnosticVars, eventVars, startVars>>
      BY <2>6 DEF PublishSnapshot
    <3>4. QED
      BY <1>0, <3>2, <3>3 DEF diagnosticVars, eventVars, startVars
  <2>7. CASE NoteFresh
    BY <1>0, <2>7, ClientAssumption DEF NoteFresh, Outcome, Status, eventVars, startVars
  <2>8. QED
    BY <1>6, <2>1, <2>2, <2>3, <2>4, <2>5, <2>6, <2>7
       DEF PollerStep, PollLoop, Fetch, FetchRaises, Backoff
<1>7. CASE UNCHANGED vars
  BY <1>0, <1>7 DEF vars, diagnosticVars, eventVars, startVars
<1>8. QED
  BY <1>1, <1>2, <1>3, <1>4, <1>5, <1>6, <1>7, StepCases

(* What a fetch may answer: an outcome of the right type, whose kind says   *)
(* what it carries; a 200 has a body, and an ETag only of that body.        *)
LEMMA AnswerShape ==
  ASSUME NEW a \in Answers
  PROVE  /\ a \in Outcome
         /\ a.kind # "none"
         /\ a.kind = "success" => a.body \in Body /\ a.etag \in {None, a.body}
<1>1. PICK x \in Reply : a = FetchRuleset(x) /\ x.raised \notin Uncaught
  BY DEF Answers
<1>2. /\ x \in Exchange
      /\ x.status = 200 => x.body \in Body
      /\ x.etag \in {None, x.body}
  BY ClientAssumption
<1>3. a \in Outcome /\ a.kind # "none"
  BY <1>1, <1>2, EveryAnswerIsAnOutcome DEF FetchKind
<1>4. a.kind = "success" => x.status = 200 /\ a.body = x.body /\ a.etag = x.etag
  BY <1>1, <1>2, OnlyAWhole200Delivers
<1>5. QED
  BY <1>2, <1>3, <1>4

(* The poller's place and locals keep their types.                          *)
LEMMA PollerTypeStep == Inductive /\ [Next]_vars => PollerTypeOK'
<1> SUFFICES ASSUME Inductive, [Next]_vars PROVE PollerTypeOK'
  OBVIOUS
<1> USE DEF PollerTypeOK
<1>0. TypeOK /\ PollerTypeOK
  BY DEF Inductive, TypeOK
<1>1. CASE UNCHANGED pollerVars
  BY <1>0, <1>1 DEF pollerVars
<1>2. ASSUME NEW c \in Caller, SpawnThread(c) PROVE PollerTypeOK'
  BY <1>0, <1>2 DEF SpawnThread, PollerPlace
<1>3. ASSUME PollerStep PROVE PollerTypeOK'
  <2>1. poller' \in PollerPlace
    BY <1>3 DEF PollerStep, PollLoop, Fetch, FetchRaises, CheckStop,
       RecordSuccess, RecordRejected, RecordOther, StoreCache, PublishSnapshot,
       NoteFresh, SetNetworkReady, SetFirstAttempt, Backoff, PollerPlace
  <2>2. CASE UNCHANGED <<outcome, stored>>
    BY <1>0, <2>1, <2>2
  <2>3. CASE Fetch
    <3>1. outcome' \in Answers /\ stored' = stored
      BY <2>3 DEF Fetch
    <3>2. Answers \subseteq Outcome
      BY AnswerShape
    <3>3. QED
      BY <1>0, <2>1, <3>1, <3>2
  <2>4. CASE StoreCache
    BY <1>0, <2>1, <2>4 DEF StoreCache
  <2>5. CASE Backoff
    BY <1>0, <2>1, <2>5 DEF Backoff, NoOutcome, Bare, Outcome, RetryAfter
  <2>6. QED
    BY <1>3, <2>2, <2>3, <2>4, <2>5 DEF PollerStep, PollLoop, FetchRaises,
       CheckStop, RecordSuccess, RecordOther, PublishSnapshot, NoteFresh,
       SetNetworkReady, SetFirstAttempt
<1>4. ASSUME NEW c \in Caller,
             EnterStart(c) \/ LoadCache(c) \/ RestoreSnapshot(c) \/ CreateThread(c)
               \/ SpawnRaises(c)
      PROVE  UNCHANGED pollerVars
  BY <1>4 DEF EnterStart, LoadCache, RestoreSnapshot, CreateThread, SpawnRaises
<1>5. QED
  BY <1>0, <1>1, <1>2, <1>3, <1>4, StepCases, QuietFrame DEF vars

-----------------------------------------------------------------------------
(* The critical section of start(): one caller launches, holding            *)
(* _start_lock, and there is no poller until it is done.                    *)
LEMMA LaunchStep == Inductive /\ [Next]_vars => LaunchInv'
<1> SUFFICES ASSUME Inductive, [Next]_vars PROVE LaunchInv'
  OBVIOUS
<1>0. /\ TypeOK /\ LaunchInv
      /\ pc \in [Caller -> Place] /\ startLock \in Caller \cup {None}
      /\ None \notin Caller
  BY ClientAssumption DEF Inductive, TypeOK, CallerTypeOK, SharedTypeOK
<1>1. ASSUME NEW c \in Caller, Quiet(c) PROVE LaunchInv'
  <2>1. /\ UNCHANGED <<startLock, started, thread, poller>>
        /\ \A d \in Caller : Launching(d) \/ Launching(d)' => pc'[d] = pc[d]
    BY <1>0, <1>1, QuietFrame DEF startVars, pollerVars
  <2>2. \A d \in Caller : Launching(d)' <=> Launching(d)
    BY <2>1 DEF Launching
  <2>3. \A d \in Caller : Launching(d)' => pc'[d] = pc[d]
    BY <2>1
  <2>4. QED
    BY <1>0, <2>1, <2>2, <2>3 DEF LaunchInv, Launching
<1>2. ASSUME NEW c \in Caller, EnterStart(c) PROVE LaunchInv'
  BY <1>0, <1>2 DEF EnterStart, Goto, LaunchInv, Launching, pollerVars
<1>3. ASSUME NEW c \in Caller, LoadCache(c) PROVE LaunchInv'
  BY <1>0, <1>3 DEF LoadCache, Goto, Return, LaunchInv, Launching, pollerVars
<1>4. ASSUME NEW c \in Caller, RestoreSnapshot(c) PROVE LaunchInv'
  BY <1>0, <1>4 DEF RestoreSnapshot, Goto, LaunchInv, Launching, startVars, pollerVars
<1>5. ASSUME NEW c \in Caller, CreateThread(c) PROVE LaunchInv'
  BY <1>0, <1>5 DEF CreateThread, Goto, LaunchInv, Launching, pollerVars
<1>6. ASSUME NEW c \in Caller, SpawnThread(c) PROVE LaunchInv'
  BY <1>0, <1>6 DEF SpawnThread, Goto, LaunchInv, Launching
<1>7. ASSUME NEW c \in Caller, SpawnRaises(c) PROVE LaunchInv'
  BY <1>0, <1>7 DEF SpawnRaises, Goto, Return, LaunchInv, Launching, pollerVars
<1>8. ASSUME PollerStep PROVE LaunchInv'
  BY <1>0, <1>8, PollerFrame DEF LaunchInv, Launching, startVars, callerVars
<1>9. CASE UNCHANGED vars
  BY <1>0, <1>9 DEF vars, startVars, pollerVars, callerVars, LaunchInv, Launching
<1>10. QED
  BY <1>1, <1>2, <1>3, <1>4, <1>5, <1>6, <1>7, <1>8, <1>9, StepCases

-----------------------------------------------------------------------------
(* Until the thread is spawned nothing has come from the network, and what  *)
(* start() is about to restore was verified.                                *)
LEMMA BeforePollerStep == Inductive /\ [Next]_vars => BeforePoller'
<1> SUFFICES ASSUME Inductive, [Next]_vars PROVE BeforePoller'
  OBVIOUS
<1>0. /\ TypeOK /\ LaunchInv /\ BeforePoller
      /\ pc \in [Caller -> Place] /\ None \notin Caller
  BY ClientAssumption DEF Inductive, TypeOK, CallerTypeOK
<1> USE DEF BeforePoller
<1>1. ASSUME NEW c \in Caller, Quiet(c) PROVE BeforePoller'
  <2>1. /\ UNCHANGED <<snapshot, file, etag, status, failures, cacheState,
                       firstAttempt, networkReady, started, poller, outcome, stored>>
        /\ \A d \in Caller : Launching(d) \/ Launching(d)' => pc'[d] = pc[d]
    BY <1>0, <1>1, QuietFrame DEF diagnosticVars, startVars, pollerVars
  <2>2. \A d \in Caller : pc'[d] \in {"load", "restore"} => pc'[d] = pc[d]
    BY <2>1 DEF Launching
  <2>3. QED
    BY <1>0, <2>1, <2>2 DEF CacheAcceptable, NoOutcome, Bare
<1>2. ASSUME NEW c \in Caller, EnterStart(c) PROVE BeforePoller'
  BY <1>0, <1>2 DEF EnterStart, Goto, diagnosticVars, eventVars, pollerVars,
     CacheAcceptable, NoOutcome, Bare
<1>3. ASSUME NEW c \in Caller, LoadCache(c) PROVE BeforePoller'
  <2>0. /\ pc[c] = "load" /\ started
        /\ UNCHANGED <<snapshot, file, etag, status, failures, eventVars, started, pollerVars>>
        /\ cacheState' = cacheState \/ cacheState' \in {"loaded", "loadFailed"}
        /\ \A d \in Caller \ {c} : pc'[d] = pc[d]
        /\ pc'[c] \in {"create", "restore", "idle"}
    BY <1>0, <1>3 DEF LoadCache, Goto, Return, LaunchInv, Launching
  <2>1. ASSUME pc'[c] = "restore" PROVE file \in CacheAcceptable
    <3>1. file # None /\ Accepted \in CacheVerdicts
      BY <1>0, <1>3, <2>1 DEF LoadCache, Goto, Return
    <3>2. file # Torn
      BY <3>1 DEF CacheVerdicts, Accepted
    <3>3. file \in Body
      BY <1>0, <3>1, <3>2 DEF TypeOK, SharedTypeOK
    <3>4. QED
      BY <3>1, <3>2, <3>3 DEF CacheVerdicts, CacheAcceptable
  <2>2. QED
    BY <1>0, <2>0, <2>1 DEF eventVars, pollerVars, CacheAcceptable, NoOutcome, Bare
<1>4. ASSUME NEW c \in Caller, RestoreSnapshot(c) PROVE BeforePoller'
  BY <1>0, <1>4 DEF RestoreSnapshot, Goto, LaunchInv, Launching, diagnosticVars,
     eventVars, startVars, pollerVars, CacheAcceptable, NoOutcome, Bare
<1>5. ASSUME NEW c \in Caller, CreateThread(c) \/ SpawnThread(c) \/ SpawnRaises(c)
      PROVE  BeforePoller'
  <2>1. /\ UNCHANGED <<snapshot, file, etag, status, failures, cacheState, eventVars,
                       started, outcome, stored>>
        /\ poller' = "unborn" => poller = "unborn"
    BY <1>5 DEF CreateThread, SpawnThread, SpawnRaises, diagnosticVars, pollerVars
  <2>2. \A d \in Caller : pc'[d] \in {"load", "restore"} => pc'[d] = pc[d]
    BY <1>0, <1>5 DEF CreateThread, SpawnThread, SpawnRaises, Goto, Return
  <2>3. QED
    BY <1>0, <2>1, <2>2 DEF eventVars, CacheAcceptable, NoOutcome, Bare
<1>6. ASSUME PollerStep PROVE BeforePoller'
  <2>1. poller # "unborn" /\ poller' # "unborn" /\ UNCHANGED <<startVars, callerVars>>
    BY <1>6, PollerFrame
  <2>2. started /\ started' /\ \A c \in Caller : pc'[c] \notin {"load", "restore"}
    BY <1>0, <2>1 DEF LaunchInv, Launching, startVars, callerVars
  <2>3. QED
    BY <2>1, <2>2
<1>7. CASE UNCHANGED vars
  BY <1>0, <1>7 DEF vars, diagnosticVars, eventVars, startVars, pollerVars, callerVars,
     CacheAcceptable, NoOutcome, Bare
<1>8. QED
  BY <1>1, <1>2, <1>3, <1>4, <1>5, <1>6, <1>7, StepCases

-----------------------------------------------------------------------------
(* What one attempt carries from the fetch to the delay: the outcome, the   *)
(* store's answer, and the file and snapshot they stand for.                *)
LEMMA AttemptStep == Inductive /\ [Next]_vars => AttemptInv'
<1> SUFFICES ASSUME Inductive, [Next]_vars PROVE AttemptInv'
  OBVIOUS
<1>0. /\ TypeOK /\ LaunchInv /\ BeforePoller /\ AttemptInv
      /\ poller \in PollerPlace /\ outcome \in Outcome
      /\ cacheState = "disabled" <=> ~CacheEnabled
  BY DEF Inductive, TypeOK, PollerTypeOK, ReportInv
<1> USE DEF AttemptInv
<1>1. ASSUME UNCHANGED <<pollerVars, snapshot, file, status, cacheState>>
      PROVE  AttemptInv'
  BY <1>0, <1>1 DEF pollerVars, FromNetwork, LiveAcceptable
<1>2. ASSUME NEW c \in Caller, LoadCache(c) PROVE AttemptInv'
  <2>1. /\ UNCHANGED <<pollerVars, snapshot, file, status>>
        /\ cacheState' = cacheState \/ cacheState' \in {"loaded", "loadFailed"}
    BY <1>2 DEF LoadCache
  <2>2. QED
    BY <1>0, <2>1 DEF pollerVars, FromNetwork, LiveAcceptable
<1>3. ASSUME NEW c \in Caller, RestoreSnapshot(c) \/ SpawnThread(c) PROVE AttemptInv'
  <2>1. poller = "unborn" /\ outcome = NoOutcome /\ stored = None
    BY <1>0, <1>3 DEF RestoreSnapshot, SpawnThread, Goto, LaunchInv, Launching,
       BeforePoller
  <2>2. poller' \in {"unborn", "loop"} /\ outcome' = outcome /\ stored' = stored
    BY <1>3, <2>1 DEF RestoreSnapshot, SpawnThread, pollerVars
  <2>3. QED
    BY <2>1, <2>2 DEF NoOutcome, Bare
<1>4. ASSUME NEW c \in Caller,
             EnterStart(c) \/ CreateThread(c) \/ SpawnRaises(c)
      PROVE  UNCHANGED <<pollerVars, snapshot, file, status, cacheState>>
  BY <1>4 DEF EnterStart, CreateThread, SpawnRaises, diagnosticVars
<1>5. ASSUME NEW c \in Caller, Quiet(c)
      PROVE  UNCHANGED <<pollerVars, snapshot, file, status, cacheState>>
  BY <1>0, <1>5, QuietFrame DEF diagnosticVars
<1>6. CASE PollLoop \/ FetchRaises \/ CheckStop \/ SetNetworkReady \/ SetFirstAttempt
  BY <1>0, <1>6 DEF PollLoop, FetchRaises, CheckStop, SetNetworkReady,
     SetFirstAttempt, At, diagnosticVars, FromNetwork
<1>7. CASE Fetch
  <2>1. /\ outcome' \in Outcome /\ outcome'.kind # "none"
        /\ outcome'.kind = "success" =>
             outcome'.body \in Body /\ outcome'.etag \in {None, outcome'.body}
    BY <1>7, AnswerShape DEF Fetch
  <2>2. QED
    BY <1>0, <1>7, <2>1 DEF Fetch, At
<1>8. CASE RecordSuccess
  <2>1. /\ At("record") /\ outcome.kind = "success"
        /\ UNCHANGED <<snapshot, file, cacheState, outcome, stored>>
    BY <1>8 DEF RecordSuccess
  <2>2. CASE poller' \in {"store", "publish"}
    <3>1. \E now \in Clock :
            VerifyEnvelope(outcome.body, Policy, Live(Environment, now)) = Accepted
      BY <1>8, <2>2 DEF RecordSuccess, RecordRejected
    <3>2. outcome.body \in LiveAcceptable
      BY <1>0, <2>1, <3>1 DEF LiveAcceptable
    <3>3. poller' = IF CacheEnabled THEN "store" ELSE "publish"
      BY <1>8, <2>2 DEF RecordSuccess, RecordRejected
    <3>4. poller' = "store" => CacheEnabled /\ stored' = None
      BY <1>0, <2>1, <3>3 DEF At
    <3>5. poller' = "publish" => stored' = None /\ cacheState' # "stored"
      BY <1>0, <2>1, <3>3 DEF At
    <3>6. outcome'.body \in LiveAcceptable /\ outcome' = outcome
      BY <2>1, <3>2
    <3>7. QED
      BY <1>0, <2>1, <2>2, <3>4, <3>5, <3>6, ClientAssumption
  <2>3. CASE poller' = "first" /\ status' = "rejectedEnvelope"
    BY <1>0, <2>1, <2>3
  <2>4. CASE poller' = "died"
    BY <1>0, <2>1, <2>4
  <2>5. QED
    BY <1>8, <2>2, <2>3, <2>4 DEF RecordSuccess, RecordRejected
<1>9. CASE RecordOther
  <2>1. outcome.kind # "neverFetched"
    BY <1>0, ClientAssumption DEF Outcome, FetchKind
  <2>2. QED
    BY <1>0, <1>9, <2>1 DEF RecordOther, At
<1>10. CASE StoreCache
  <2>1. /\ poller = "store" /\ poller' = "publish"
        /\ UNCHANGED <<snapshot, status, cacheState, outcome>>
    BY <1>10 DEF StoreCache, At, diagnosticVars
  <2>2. stored' # None
    <3>1. stored' = TRUE \/ stored' = FALSE
      BY <1>10 DEF StoreCache
    <3>2. QED
      BY <3>1, ClientAssumption
  <2>3. stored' = TRUE => file' \in {outcome.body, Torn}
    BY <1>10 DEF StoreCache
  <2>4. QED
    BY <1>0, <2>1, <2>2, <2>3
<1>11. CASE PublishSnapshot
  BY <1>0, <1>11 DEF PublishSnapshot, At, diagnosticVars, FromNetwork
<1>12. CASE NoteFresh
  BY <1>0, <1>12 DEF NoteFresh, At, FromNetwork
<1>13. CASE Backoff
  BY <1>0, <1>13 DEF Backoff, NoOutcome, Bare
<1>14. ASSUME PollerStep PROVE AttemptInv'
  BY <1>14, <1>6, <1>7, <1>8, <1>9, <1>10, <1>11, <1>12, <1>13 DEF PollerStep
<1>15. QED
  BY <1>1, <1>2, <1>3, <1>4, <1>5, <1>14, StepCases DEF vars, diagnosticVars

-----------------------------------------------------------------------------
(* What each kind of step does to the data: nothing, a cache load, or one   *)
(* step of the poller.                                                      *)
LEMMA DataFrame ==
  ASSUME Inductive, NEW c \in Caller,
         Quiet(c) \/ EnterStart(c) \/ CreateThread(c) \/ SpawnThread(c) \/ SpawnRaises(c)
  PROVE  /\ UNCHANGED <<snapshot, file, diagnosticVars, firstAttempt, networkReady,
                        outcome, stored>>
         /\ poller' \in {poller, "loop"} /\ (poller' # poller => poller = "unborn")
         /\ stop => stop'
         /\ \A d \in Caller : result'[d] = "ready" => networkReady \/ result[d] = "ready"
<1>0. /\ TypeOK /\ LaunchInv /\ pc \in [Caller -> Place] /\ result \in [Caller -> Answer]
  BY DEF Inductive, TypeOK, CallerTypeOK
<1>1. CASE Quiet(c)
  BY <1>0, <1>1, QuietFrame DEF pollerVars
<1>2. CASE EnterStart(c) \/ CreateThread(c)
  BY <1>2 DEF EnterStart, CreateThread, eventVars, pollerVars
<1>3. CASE SpawnThread(c)
  BY <1>0, <1>3 DEF SpawnThread, Goto, LaunchInv, Launching, eventVars
<1>4. CASE SpawnRaises(c)
  <2>1. result' = [result EXCEPT ![c] = "startRaised"]
    BY <1>4 DEF SpawnRaises, Return
  <2>2. UNCHANGED <<snapshot, file, diagnosticVars, eventVars, pollerVars>>
    BY <1>4 DEF SpawnRaises
  <2>3. QED
    BY <1>0, <2>1, <2>2 DEF eventVars, pollerVars
<1>5. QED
  BY <1>1, <1>2, <1>3, <1>4

(* The cache load and its publication come before there is a poller, and    *)
(* touch nothing but the snapshot, the cache state and the caller's own.    *)
LEMMA CacheFrame ==
  ASSUME Inductive, NEW c \in Caller, LoadCache(c) \/ RestoreSnapshot(c)
  PROVE  /\ UNCHANGED <<file, etag, status, rejection, failures, eventVars, pollerVars>>
         /\ poller = "unborn" /\ ~networkReady /\ ~firstAttempt /\ etag = None
         /\ status = "neverFetched" /\ cacheState # "stored" /\ cacheState' # "stored"
         /\ (cacheState' = "disabled" <=> cacheState = "disabled")
         /\ \A d \in Caller : result'[d] = "ready" => result[d] = "ready"
<1>0. /\ TypeOK /\ LaunchInv /\ BeforePoller /\ ReportInv
      /\ pc \in [Caller -> Place] /\ result \in [Caller -> Answer]
  BY DEF Inductive, TypeOK, CallerTypeOK
<1>1. pc[c] \in {"load", "restore"}
  BY DEF LoadCache, RestoreSnapshot, Goto, Return
<1>2. poller = "unborn"
  BY <1>0, <1>1 DEF LaunchInv, Launching
<1>3. /\ UNCHANGED <<file, etag, status, rejection, failures, eventVars, pollerVars>>
      /\ \/ cacheState' = cacheState
         \/ CacheEnabled /\ cacheState' \in {"loaded", "loadFailed"}
      /\ result' = result \/ result' = [result EXCEPT ![c] = "startRaised"]
  <2>1. CASE LoadCache(c)
    BY <2>1 DEF LoadCache, Return
  <2>2. CASE RestoreSnapshot(c)
    BY <2>2 DEF RestoreSnapshot, diagnosticVars
  <2>3. QED
    BY <2>1, <2>2
<1>4. QED
  BY <1>0, <1>2, <1>3 DEF BeforePoller, ReportInv

(* A published network snapshot is a snapshot, is not None and is not from  *)
(* the cache.                                                               *)
LEMMA NetworkSnapshot ==
  ASSUME NEW b \in Body
  PROVE  FromNetwork(b) # None /\ FromNetwork(b).fromCache = FALSE /\ FromNetwork(b).body = b
<1>1. FromNetwork(b) \in [body : Body, fromCache : BOOLEAN]
  BY DEF FromNetwork
<1>2. QED
  BY <1>1, ClientAssumption DEF FromNetwork

(* The ready event, and the READY answers given, stay backed by a network   *)
(* snapshot.                                                                *)
LEMMA ReadyStep == Inductive /\ [Next]_vars => ReadyMeansNetwork' /\ ReportInv'
<1> SUFFICES ASSUME Inductive, [Next]_vars PROVE ReadyMeansNetwork' /\ ReportInv'
  OBVIOUS
<1>0. /\ TypeOK /\ AttemptInv /\ ReportInv /\ ReadyMeansNetwork
  BY DEF Inductive
<1> USE DEF ReportInv, ReadyMeansNetwork
<1>1. ASSUME NEW c \in Caller,
             Quiet(c) \/ EnterStart(c) \/ CreateThread(c) \/ SpawnThread(c) \/ SpawnRaises(c)
      PROVE  ReadyMeansNetwork' /\ ReportInv'
  BY <1>0, <1>1, DataFrame DEF diagnosticVars
<1>2. ASSUME NEW c \in Caller, LoadCache(c) \/ RestoreSnapshot(c)
      PROVE  ReadyMeansNetwork' /\ ReportInv'
  BY <1>0, <1>2, CacheFrame DEF eventVars, pollerVars
<1>3. ASSUME PollerStep PROVE ReadyMeansNetwork' /\ ReportInv'
  <2>1. UNCHANGED result
    BY <1>3, PollerFrame DEF callerVars
  <2>2. CASE UNCHANGED <<snapshot, status, cacheState, networkReady>> /\ poller # "ready"
    BY <1>0, <2>1, <2>2
  <2>3. CASE SetNetworkReady
    <3>1. snapshot # None /\ ~snapshot.fromCache /\ UNCHANGED snapshot
      BY <1>0, <2>3, NetworkSnapshot DEF SetNetworkReady, AttemptInv, At
    <3>2. networkReady' /\ UNCHANGED <<status, cacheState>>
      BY <2>3 DEF SetNetworkReady, diagnosticVars
    <3>3. QED
      BY <1>0, <2>1, <3>1, <3>2
  <2>4. CASE RecordSuccess \/ RecordOther
    <3>1. UNCHANGED <<snapshot, cacheState, networkReady>> /\ poller = "record"
      BY <2>4 DEF RecordSuccess, RecordOther, At, eventVars
    <3>2. status' = status \/ status' # "fresh"
      BY <1>0, <2>4, ClientAssumption DEF RecordSuccess, RecordRejected, RecordOther,
         TypeOK, PollerTypeOK, Outcome, FetchKind
    <3>3. QED
      BY <1>0, <2>1, <3>1, <3>2
  <2>5. CASE PublishSnapshot
    <3>1. snapshot' # None /\ ~snapshot'.fromCache
      BY <1>0, <2>5, NetworkSnapshot DEF PublishSnapshot, AttemptInv, At, FromNetwork
    <3>2. QED
      BY <1>0, <2>1, <2>5, <3>1 DEF PublishSnapshot, At, diagnosticVars, eventVars
  <2>6. CASE NoteFresh
    <3>1. snapshot' # None /\ ~snapshot'.fromCache
      BY <1>0, <2>6, NetworkSnapshot DEF NoteFresh, AttemptInv, At
    <3>2. stored # None => CacheEnabled
      BY <1>0, <2>6 DEF NoteFresh, AttemptInv, At
    <3>3. cacheState' = "disabled" <=> cacheState = "disabled"
      BY <1>0, <2>6, <3>2 DEF NoteFresh
    <3>4. QED
      BY <1>0, <2>1, <2>6, <3>1, <3>3 DEF NoteFresh, At, eventVars
  <2>7. QED
    BY <1>3, <2>2, <2>3, <2>4, <2>5, <2>6 DEF PollerStep, PollLoop, Fetch,
       FetchRaises, CheckStop, StoreCache, SetFirstAttempt, Backoff, At,
       diagnosticVars, eventVars
<1>4. CASE UNCHANGED vars
  BY <1>0, <1>4 DEF vars, diagnosticVars, eventVars, pollerVars, callerVars
<1>5. QED
  BY <1>1, <1>2, <1>3, <1>4, StepCases

(* The ETag stays that of the snapshot.                                     *)
LEMMA EtagStep == Inductive /\ [Next]_vars => EtagNamesSnapshot'
<1> SUFFICES ASSUME Inductive, [Next]_vars PROVE EtagNamesSnapshot'
  OBVIOUS
<1>0. TypeOK /\ AttemptInv /\ BeforePoller /\ EtagNamesSnapshot
  BY DEF Inductive
<1> USE DEF EtagNamesSnapshot, FromNetwork
<1>1. ASSUME NEW c \in Caller,
             Quiet(c) \/ EnterStart(c) \/ CreateThread(c) \/ SpawnThread(c) \/ SpawnRaises(c)
      PROVE  EtagNamesSnapshot'
  BY <1>0, <1>1, DataFrame DEF diagnosticVars
<1>2. ASSUME NEW c \in Caller, LoadCache(c) \/ RestoreSnapshot(c)
      PROVE  EtagNamesSnapshot'
  BY <1>0, <1>2, CacheFrame DEF pollerVars
<1>3. ASSUME PollerStep PROVE EtagNamesSnapshot'
  <2>1. CASE PublishSnapshot
    BY <2>1 DEF PublishSnapshot
  <2>2. CASE NoteFresh
    BY <1>0, <2>2 DEF NoteFresh, AttemptInv, At
  <2>3. CASE UNCHANGED <<snapshot, etag>> /\ poller # "note"
    BY <1>0, <2>3
  <2>4. QED
    BY <1>3, <2>1, <2>2, <2>3 DEF PollerStep, PollLoop, Fetch, FetchRaises,
       CheckStop, RecordSuccess, RecordOther, StoreCache, SetNetworkReady,
       SetFirstAttempt, Backoff, At, diagnosticVars
<1>4. CASE UNCHANGED vars
  BY <1>0, <1>4 DEF vars, diagnosticVars, pollerVars
<1>5. QED
  BY <1>1, <1>2, <1>3, <1>4, StepCases

(* Count, status and rejection are written together, under the lock, and    *)
(* stay coherent.                                                           *)
LEMMA DiagnosticsStep == Inductive /\ [Next]_vars => DiagnosticsCoherent'
<1> SUFFICES ASSUME Inductive, [Next]_vars PROVE DiagnosticsCoherent'
  OBVIOUS
<1>0. /\ TypeOK /\ AttemptInv /\ DiagnosticsCoherent
      /\ failures \in 0..MaxFailures /\ MaxFailures \in Nat \ {0}
      /\ outcome \in Outcome
  BY ClientAssumption DEF Inductive, TypeOK, SharedTypeOK, PollerTypeOK
<1> USE DEF DiagnosticsCoherent
<1>1. ASSUME UNCHANGED <<status, rejection, failures>> PROVE DiagnosticsCoherent'
  BY <1>0, <1>1
<1>2. ASSUME NEW c \in Caller PROVE ~(\/ Quiet(c) \/ EnterStart(c) \/ CreateThread(c)
        \/ SpawnThread(c) \/ SpawnRaises(c) \/ LoadCache(c) \/ RestoreSnapshot(c))
      \/ UNCHANGED <<status, rejection, failures>>
  BY DataFrame, CacheFrame DEF diagnosticVars
<1>3. OneMoreFailure # 0
  BY <1>0 DEF OneMoreFailure
<1>4. CASE RecordSuccess
  <2>1. \/ UNCHANGED <<status, rejection, failures>>
        \/ /\ status' = "rejectedEnvelope" /\ rejection' \in RejectionCode
           /\ failures' = OneMoreFailure
    BY <1>4 DEF RecordSuccess, RecordRejected
  <2>2. QED
    BY <1>1, <1>3, <2>1, ClientAssumption
<1>5. CASE RecordOther
  <2>1. outcome.kind \in FetchKind \ {"success"}
    BY <1>0, <1>5 DEF RecordOther, AttemptInv, Outcome, At
  <2>2. status' = outcome.kind /\ rejection' = rejection
        /\ failures' = IF outcome.kind = "notModified" THEN 0 ELSE OneMoreFailure
    BY <1>5 DEF RecordOther
  <2>3. QED
    BY <1>3, <2>1, <2>2, ClientAssumption DEF FetchKind
<1>6. CASE NoteFresh
  BY <1>6 DEF NoteFresh
<1>7. ASSUME PollerStep PROVE DiagnosticsCoherent'
  BY <1>7, <1>1, <1>4, <1>5, <1>6 DEF PollerStep, PollLoop, Fetch, FetchRaises,
     CheckStop, StoreCache, PublishSnapshot, SetNetworkReady, SetFirstAttempt,
     Backoff, diagnosticVars
<1>8. QED
  BY <1>1, <1>2, <1>7, StepCases DEF vars, diagnosticVars

(* "stored" stays a statement about the snapshot's own file.                *)
LEMMA CacheStateStep == Inductive /\ [Next]_vars => CacheStateTruthful'
<1> SUFFICES ASSUME Inductive, [Next]_vars PROVE CacheStateTruthful'
  OBVIOUS
<1>0. TypeOK /\ AttemptInv /\ BeforePoller /\ CacheStateTruthful /\ ReportInv
  BY DEF Inductive
<1> USE DEF CacheStateTruthful
<1>1. ASSUME NEW c \in Caller,
             Quiet(c) \/ EnterStart(c) \/ CreateThread(c) \/ SpawnThread(c) \/ SpawnRaises(c)
      PROVE  CacheStateTruthful'
  BY <1>0, <1>1, DataFrame DEF diagnosticVars
<1>2. ASSUME NEW c \in Caller, LoadCache(c) \/ RestoreSnapshot(c)
      PROVE  CacheStateTruthful'
  BY <1>2, CacheFrame
<1>3. ASSUME PollerStep PROVE CacheStateTruthful'
  <2>1. CASE StoreCache \/ PublishSnapshot
    BY <2>1 DEF StoreCache, PublishSnapshot
  <2>2. CASE NoteFresh
    <3>1. /\ snapshot' = FromNetwork(outcome.body) /\ file' = file
          /\ stored = TRUE => file \in {outcome.body, Torn}
          /\ stored = None => cacheState # "stored"
          /\ outcome.body \in Body
      BY <1>0, <2>2 DEF NoteFresh, AttemptInv, At
    <3>2. cacheState' = "stored" => stored = TRUE
      <4>1. stored \in BOOLEAN \cup {None}
        BY <1>0 DEF TypeOK, PollerTypeOK
      <4>2. QED
        BY <2>2, <3>1, <4>1 DEF NoteFresh
    <3>3. QED
      BY <3>1, <3>2, NetworkSnapshot
  <2>3. CASE UNCHANGED <<snapshot, file, cacheState>> /\ poller \notin {"publish", "note"}
    BY <1>0, <2>3
  <2>4. QED
    BY <1>3, <2>1, <2>2, <2>3 DEF PollerStep, PollLoop, Fetch, FetchRaises,
       CheckStop, RecordSuccess, RecordOther, SetNetworkReady, SetFirstAttempt,
       Backoff, At, diagnosticVars
<1>4. CASE UNCHANGED vars
  BY <1>0, <1>4 DEF vars, diagnosticVars, pollerVars
<1>5. QED
  BY <1>1, <1>2, <1>3, <1>4, StepCases

(* The first-attempt event is only set behind a recorded attempt, or behind *)
(* a stop.                                                                  *)
LEMMA FirstAttemptStep == Inductive /\ [Next]_vars => FirstAttemptReported'
<1> SUFFICES ASSUME Inductive, [Next]_vars PROVE FirstAttemptReported'
  OBVIOUS
<1>0. TypeOK /\ AttemptInv /\ ReportInv /\ FirstAttemptReported /\ outcome \in Outcome
  BY DEF Inductive, TypeOK, PollerTypeOK
<1>1. ReportInv'
  BY ReadyStep
<1>2. SUFFICES ASSUME firstAttempt', ~stop' PROVE status' # "neverFetched"
  BY <1>1 DEF FirstAttemptReported, ReportInv
<1> USE DEF FirstAttemptReported
<1>3. ASSUME NEW c \in Caller,
             Quiet(c) \/ EnterStart(c) \/ CreateThread(c) \/ SpawnThread(c) \/ SpawnRaises(c)
      PROVE  status' # "neverFetched"
  BY <1>0, <1>2, <1>3, DataFrame DEF diagnosticVars
<1>4. ASSUME NEW c \in Caller PROVE ~(LoadCache(c) \/ RestoreSnapshot(c))
  BY <1>2, CacheFrame DEF eventVars
<1>5. ASSUME PollerStep PROVE status' # "neverFetched"
  <2>1. ~stop
    BY <1>2, <1>5, PollerFrame
  <2>2. CASE SetFirstAttempt
    BY <1>0, <2>2 DEF SetFirstAttempt, AttemptInv, At, diagnosticVars
  <2>3. CASE RecordOther
    BY <1>0, <2>3, ClientAssumption DEF RecordOther, Outcome, FetchKind
  <2>4. CASE status' \in {"rejectedEnvelope", "fresh"}
    BY <2>4
  <2>5. CASE UNCHANGED <<status, firstAttempt>>
    BY <1>0, <1>2, <2>1, <2>5
  <2>6. QED
    BY <1>5, <2>1, <2>2, <2>3, <2>4, <2>5 DEF PollerStep, PollLoop, Fetch,
       FetchRaises, CheckStop, RecordSuccess, RecordRejected, StoreCache,
       PublishSnapshot, NoteFresh, SetNetworkReady, Backoff, diagnosticVars, eventVars
<1>6. CASE UNCHANGED vars
  BY <1>0, <1>2, <1>6 DEF vars, diagnosticVars, eventVars
<1>7. QED
  BY <1>3, <1>4, <1>5, <1>6, StepCases

-----------------------------------------------------------------------------
(* A caller waits only once the launch has begun; the poller announces the  *)
(* attempt before it rests, and leaves only when stopped.                   *)
LEMMA WaiterStep == Inductive /\ [Next]_vars => WaiterInv'
<1> SUFFICES ASSUME Inductive, [Next]_vars PROVE WaiterInv'
  OBVIOUS
<1>0. TypeOK /\ WaiterInv /\ pc \in [Caller -> Place]
  BY DEF Inductive, TypeOK, CallerTypeOK
<1> DEFINE Inside == {"load", "restore", "create", "spawn", "wait"}
<1>1. ASSUME NEW c \in Caller, Quiet(c) PROVE WaiterInv'
  <2>1. UNCHANGED <<startVars, pollerVars, firstAttempt>> /\ (stop => stop')
    BY <1>0, <1>1, QuietFrame
  <2>2. ASSUME NEW from, NEW to, Goto(c, from, to), to \notin Inside
        PROVE  \A d \in Caller : pc'[d] \in Inside => pc[d] \in Inside
    BY <1>0, <2>2 DEF Goto
  <2>3. \A d \in Caller : pc'[d] \in Inside => pc[d] \in Inside
    BY <1>1, <2>2 DEF Quiet, CallStart, CallClose, AwaitFirstAttempt, CheckReady,
       ReadSnapshot, RecheckReady, ReadThread, JoinThread, Return
  <2>4. QED
    BY <1>0, <2>1, <2>3 DEF WaiterInv, startVars, pollerVars
<1>2. ASSUME NEW c \in Caller, EnterStart(c) PROVE WaiterInv'
  BY <1>0, <1>2 DEF EnterStart, Goto, WaiterInv, eventVars, pollerVars
<1>3. ASSUME NEW c \in Caller,
             LoadCache(c) \/ RestoreSnapshot(c) \/ CreateThread(c) \/ SpawnRaises(c)
      PROVE  WaiterInv'
  <2>1. pc[c] \in Inside /\ UNCHANGED <<started, pollerVars, eventVars>>
    BY <1>3 DEF LoadCache, RestoreSnapshot, CreateThread, SpawnRaises, Return, Goto, startVars
  <2>2. started
    BY <1>0, <2>1 DEF WaiterInv
  <2>3. QED
    BY <1>0, <2>1, <2>2 DEF WaiterInv, eventVars, pollerVars
<1>4. ASSUME NEW c \in Caller, SpawnThread(c) PROVE WaiterInv'
  BY <1>0, <1>4 DEF SpawnThread, Goto, WaiterInv, eventVars
<1>5. ASSUME PollerStep PROVE WaiterInv'
  <2>1. UNCHANGED <<started, pc, stop>>
    BY <1>5, PollerFrame DEF startVars, callerVars
  <2>2. /\ poller' = "delay" => firstAttempt'
        /\ poller' = "exited" => stop
    BY <1>0, <1>5 DEF PollerStep, PollLoop, Fetch, FetchRaises, CheckStop, RecordSuccess,
       RecordRejected, RecordOther, StoreCache, PublishSnapshot, NoteFresh, SetNetworkReady,
       SetFirstAttempt, Backoff
  <2>3. QED
    BY <1>0, <2>1, <2>2 DEF WaiterInv
<1>6. CASE UNCHANGED vars
  BY <1>0, <1>6 DEF vars, startVars, pollerVars, callerVars, eventVars, WaiterInv
<1>7. QED
  BY <1>1, <1>2, <1>3, <1>4, <1>5, <1>6, StepCases

-----------------------------------------------------------------------------
(* What start() relies on between its two looks at the ready event: no      *)
(* cache load comes in between, and a network snapshot is announced.        *)
LEMMA RecheckStep == Inductive /\ [Next]_vars => RecheckInv'
<1> SUFFICES ASSUME Inductive, [Next]_vars PROVE RecheckInv'
  OBVIOUS
<1>0. /\ TypeOK /\ LaunchInv /\ RecheckInv /\ AttemptInv /\ pc \in [Caller -> Place]
      /\ startLock \in Caller \cup {None} /\ None \notin Caller
  BY ClientAssumption DEF Inductive, TypeOK, SharedTypeOK, CallerTypeOK
<1> DEFINE Past == {"wait", "ready", "read", "recheck"}
<1> USE DEF RecheckInv
<1>1. ASSUME NEW c \in Caller, Quiet(c) PROVE RecheckInv'
  <2>1. UNCHANGED <<snapshot, networkReady, startVars, poller>>
    BY <1>0, <1>1, QuietFrame DEF pollerVars
  <2>2. ASSUME NEW to, NEW from, Goto(c, from, to), to \in Past => from \in Past
        PROVE  \A d \in Caller : pc'[d] \in Past => pc[d] \in Past
    BY <1>0, <2>2 DEF Goto
  <2>3. \A d \in Caller : pc'[d] \in Past => pc[d] \in Past
    BY <1>1, <2>2 DEF Quiet, CallStart, CallClose, AwaitFirstAttempt, CheckReady,
       ReadSnapshot, RecheckReady, ReadThread, JoinThread, Return
  <2>4. ASSUME NEW to, NEW from, Goto(c, from, to), to # "recheck"
        PROVE  \A d \in Caller : pc'[d] = "recheck" => pc[d] = "recheck"
    BY <1>0, <2>4 DEF Goto
  <2>5. CASE ReadSnapshot(c)
    <3>1. CASE snapshot # None /\ snapshot.fromCache
      <4>1. \A d \in Caller : pc'[d] = "recheck" => pc[d] = "recheck"
        BY <2>4, <2>5, <3>1 DEF ReadSnapshot, Return
      <4>2. QED
        BY <1>0, <2>1, <2>3, <4>1 DEF startVars
    <3>2. CASE ~(snapshot # None /\ snapshot.fromCache)
      BY <1>0, <2>1, <2>3, <3>2 DEF startVars
    <3>3. QED
      BY <3>1, <3>2
  <2>6. CASE ~ReadSnapshot(c)
    <3>1. \A d \in Caller : pc'[d] = "recheck" => pc[d] = "recheck"
      BY <1>1, <2>4, <2>6 DEF Quiet, CallStart, CallClose, AwaitFirstAttempt, CheckReady,
         RecheckReady, ReadThread, JoinThread, Return
    <3>2. QED
      BY <1>0, <2>1, <2>3, <3>1 DEF startVars
  <2>7. QED
    BY <2>5, <2>6
<1>2. ASSUME NEW c \in Caller, EnterStart(c) PROVE RecheckInv'
  <2>1. /\ UNCHANGED <<snapshot, networkReady, poller>> /\ startLock = None
        /\ \A d \in Caller : d # c => pc'[d] = pc[d]
        /\ pc'[c] = IF started THEN "wait" ELSE "load"
    BY <1>0, <1>2 DEF EnterStart, Goto, eventVars, pollerVars
  <2>2. CASE started
    BY <1>0, <1>2, <2>1, <2>2 DEF EnterStart
  <2>3. CASE ~started
    <3>1. \A d \in Caller : pc'[d] \notin Past
      BY <1>0, <2>1, <2>3
    <3>2. QED
      BY <1>0, <2>1, <3>1
  <2>4. QED
    BY <2>2, <2>3
<1>3. ASSUME NEW c \in Caller,
             LoadCache(c) \/ RestoreSnapshot(c) \/ CreateThread(c) \/ SpawnRaises(c)
      PROVE  RecheckInv'
  <2>1. pc[c] \in {"load", "restore", "create", "spawn"} /\ startLock = c
    BY <1>0, <1>3 DEF LoadCache, RestoreSnapshot, CreateThread, SpawnRaises, Return,
       Goto, LaunchInv, Launching
  <2>2. \A d \in Caller : pc[d] \notin Past
    BY <1>0, <2>1
  <2>3. \E to \in {"idle", "restore", "create", "spawn"} : pc' = [pc EXCEPT ![c] = to]
    BY <1>3 DEF LoadCache, RestoreSnapshot, CreateThread, SpawnRaises, Return, Goto
  <2>4. \A d \in Caller : pc'[d] \notin Past
    BY <1>0, <2>2, <2>3
  <2>5. /\ UNCHANGED <<networkReady, poller>>
        /\ snapshot' = snapshot \/ snapshot'.fromCache = TRUE
    BY <1>3 DEF LoadCache, RestoreSnapshot, CreateThread, SpawnRaises, eventVars, pollerVars
  <2>6. QED
    BY <1>0, <2>4, <2>5
<1>4. ASSUME NEW c \in Caller, SpawnThread(c) PROVE RecheckInv'
  <2>1. startLock = c /\ poller = "unborn"
    BY <1>0, <1>4 DEF SpawnThread, Goto, LaunchInv, Launching
  <2>2. \A d \in Caller : pc[d] \notin Past
    BY <1>0, <2>1
  <2>3. started
    BY <1>0, <2>1 DEF LaunchInv
  <2>4. QED
    BY <1>0, <1>4, <2>1, <2>2, <2>3 DEF SpawnThread, Goto, eventVars
<1>5. ASSUME PollerStep PROVE RecheckInv'
  <2>1. UNCHANGED <<started, startLock, pc>>
    BY <1>5, PollerFrame DEF startVars, callerVars
  <2>2. CASE PublishSnapshot
    <3>1. poller' = "note" /\ snapshot'.fromCache = FALSE
      BY <2>2 DEF PublishSnapshot
    <3>2. QED
      BY <1>0, <2>1, <3>1
  <2>3. CASE SetNetworkReady
    BY <1>0, <2>1, <2>3 DEF SetNetworkReady, diagnosticVars
  <2>4. CASE NoteFresh
    BY <1>0, <2>1, <2>4 DEF NoteFresh
  <2>5. CASE UNCHANGED <<snapshot, networkReady>> /\ poller \notin {"note", "ready"}
    BY <1>0, <2>1, <2>5
  <2>6. QED
    BY <1>5, <2>2, <2>3, <2>4, <2>5 DEF PollerStep, PollLoop, Fetch, FetchRaises,
       CheckStop, RecordSuccess, RecordOther, StoreCache, SetFirstAttempt, Backoff, At,
       eventVars
<1>6. CASE UNCHANGED vars
  BY <1>0, <1>6 DEF vars, startVars, pollerVars, callerVars, eventVars
<1>7. QED
  BY <1>1, <1>2, <1>3, <1>4, <1>5, <1>6, StepCases

-----------------------------------------------------------------------------
(* A client just constructed is inside the invariant.                       *)
LEMMA InductiveInit == Init => Inductive
<1> SUFFICES ASSUME Init PROVE Inductive
  OBVIOUS
<1> USE DEF Init
<1>1. TypeOK
  <2>1. SharedTypeOK
    <3>1. failures \in 0..MaxFailures /\ cacheState \in {"disabled", "empty"}
      BY ClientAssumption
    <3>2. /\ firstAttempt \in BOOLEAN /\ networkReady \in BOOLEAN /\ stop \in BOOLEAN
          /\ started \in BOOLEAN
      OBVIOUS
    <3>3. QED
      BY <3>1, <3>2 DEF SharedTypeOK, Status
  <2>2. PollerTypeOK
    BY DEF PollerTypeOK, PollerPlace, NoOutcome, Bare, Outcome, RetryAfter
  <2>3. CallerTypeOK
    BY DEF CallerTypeOK, Place, Answer
  <2>4. QED
    BY <2>1, <2>2, <2>3 DEF TypeOK
<1>2. LaunchInv /\ BeforePoller
  BY ClientAssumption DEF LaunchInv, Launching, BeforePoller
<1>3. AttemptInv /\ ReportInv /\ WaiterInv /\ RecheckInv
  BY DEF AttemptInv, ReportInv, WaiterInv, RecheckInv, NoOutcome, Bare
<1>4. /\ ReadyMeansNetwork /\ EtagNamesSnapshot /\ DiagnosticsCoherent
      /\ CacheStateTruthful /\ FirstAttemptReported
  BY DEF ReadyMeansNetwork, EtagNamesSnapshot, DiagnosticsCoherent,
         CacheStateTruthful, FirstAttemptReported
<1>5. QED
  BY <1>1, <1>2, <1>3, <1>4 DEF Inductive

(* Every step of every thread preserves the invariant.                      *)
LEMMA InductiveStep == Inductive /\ [Next]_vars => Inductive'
BY CallerTypeStep, SharedTypeStep, PollerTypeStep, LaunchStep, BeforePollerStep,
   AttemptStep, ReadyStep, EtagStep, DiagnosticsStep, CacheStateStep,
   FirstAttemptStep, WaiterStep, RecheckStep DEF Inductive, TypeOK

(* The inductive invariant holds of every reachable state, for any number   *)
(* of application threads, any bodies and any clock.                        *)
THEOREM Invariance == Spec => []Inductive
BY InductiveInit, InductiveStep, PTL DEF Spec

(* Every field, event and local of the client keeps its type.               *)
THEOREM TypeCorrect == Spec => []TypeOK
<1>1. Inductive => TypeOK
  BY DEF Inductive
<1>2. QED
  BY <1>1, Invariance, PTL

(* READY is never hollow: after the ready event, or a start() that answered *)
(* READY, the getters answer from a ruleset that came over the network      *)
(* (_record publishes before it sets the event; _load_cache is done before  *)
(* there is a poller).                                                      *)
THEOREM ReadyIsNeverHollow == Spec => []ReadyMeansNetwork
<1>1. Inductive => ReadyMeansNetwork
  BY DEF Inductive
<1>2. QED
  BY <1>1, Invariance, PTL

(* The ETag sent is that of the snapshot served, so a 304 certifies what is *)
(* served (_record writes the two in order, on one thread).                 *)
THEOREM EtagIsOfTheSnapshot == Spec => []EtagNamesSnapshot
<1>1. Inductive => EtagNamesSnapshot
  BY DEF Inductive
<1>2. QED
  BY <1>1, Invariance, PTL

(* diagnostics() never shows a failure count, a status and a rejection that *)
(* contradict each other.                                                   *)
THEOREM DiagnosticsExplainThemselves == Spec => []DiagnosticsCoherent
<1>1. Inductive => DiagnosticsCoherent
  BY DEF Inductive
<1>2. QED
  BY <1>1, Invariance, PTL

(* cache_state "stored" is about the ruleset being served.                  *)
THEOREM StoredMeansStored == Spec => []CacheStateTruthful
<1>1. Inductive => CacheStateTruthful
  BY DEF Inductive
<1>2. QED
  BY <1>1, Invariance, PTL

(* A start() released by the first attempt finds it recorded, and finds the *)
(* ready event set if it brought a ruleset.                                 *)
THEOREM AttemptIsOnRecord == Spec => []FirstAttemptReported
<1>1. Inductive => FirstAttemptReported
  BY DEF Inductive
<1>2. QED
  BY <1>1, Invariance, PTL

(* No start() waits for an announcement that nobody will make: the poller   *)
(* is on its way to it, or is being launched, unless the client was closed, *)
(* the thread died, or the launch came to none.                             *)
THEOREM NoLostWakeup == Spec => []WaiterIsRemembered
<1>1. Inductive => WaiterIsRemembered
  <2> SUFFICES ASSUME Inductive, NEW c \in Caller, pc[c] = "wait", ~firstAttempt, ~stop
               PROVE  \/ poller \in Attempting \cup {"died"}
                      \/ startLock # None \/ NeverLaunched
    BY DEF WaiterIsRemembered
  <2>1. started
    BY DEF Inductive, WaiterInv
  <2>2. poller \notin {"delay", "exited"}
    BY DEF Inductive, WaiterInv
  <2>3. poller \in PollerPlace
    BY DEF Inductive, TypeOK, PollerTypeOK
  <2>4. QED
    BY <2>1, <2>2, <2>3 DEF PollerPlace, Attempting, NeverLaunched
<1>2. QED
  BY <1>1, Invariance, PTL

-----------------------------------------------------------------------------
(* However many threads race through start(), one poller is launched, and   *)
(* it is never restarted (start()'s lock and _started flag).                *)
THEOREM ThreadIsNeverReplaced == Spec => OnePoller
<1> DEFINE A == /\ thread = "running" => thread' = "running"
                /\ poller \in {"exited", "died"} => poller' = poller
<1>1. Inductive /\ [Next]_vars => [A]_vars
  <2> SUFFICES ASSUME Inductive, [Next]_vars PROVE A \/ UNCHANGED vars
    BY DEF vars
  <2>0. LaunchInv
    BY DEF Inductive
  <2>1. ASSUME NEW c \in Caller, CreateThread(c) \/ SpawnThread(c) PROVE A
    <3>1. pc[c] \in {"create", "spawn"}
      BY <2>1 DEF CreateThread, SpawnThread, Goto
    <3>2. thread # "running" /\ poller = "unborn"
      BY <2>0, <3>1 DEF LaunchInv
    <3>3. QED
      BY <3>2
  <2>2. CASE UNCHANGED <<thread, poller>>
    BY <2>2
  <2>3. ASSUME PollerStep PROVE A
    <3>1. thread' = thread
      BY <2>3, PollerFrame DEF startVars
    <3>2. poller \notin {"exited", "died"}
      BY <2>3 DEF PollerStep, PollLoop, Fetch, FetchRaises, CheckStop,
         RecordSuccess, RecordOther, StoreCache, PublishSnapshot, NoteFresh,
         SetNetworkReady, SetFirstAttempt, Backoff, At
    <3>3. QED
      BY <3>1, <3>2
  <2>4. ASSUME NEW c \in Caller,
               Quiet(c) \/ EnterStart(c) \/ LoadCache(c) \/ RestoreSnapshot(c)
                 \/ SpawnRaises(c)
        PROVE  UNCHANGED <<thread, poller>>
    <3>1. CASE Quiet(c)
      BY <3>1, QuietFrame DEF Inductive, startVars, pollerVars
    <3>2. CASE ~Quiet(c)
      BY <2>4, <3>2 DEF EnterStart, LoadCache, RestoreSnapshot, SpawnRaises,
         startVars, pollerVars
    <3>3. QED
      BY <3>1, <3>2
  <2>5. QED
    BY <2>1, <2>2, <2>3, <2>4, StepCases
<1>2. QED
  BY <1>1, Invariance, PTL DEF Spec, OnePoller

-----------------------------------------------------------------------------
(* Once closed, and with no attempt being recorded, a client changes its    *)
(* file, ETag, status, failures and ready event no more; and its snapshot   *)
(* and cache_state only by the cache load of a start() that is launching,   *)
(* before there is a poller (_client.py:149, 229, 240).                     *)
THEOREM NothingAfterClose == Spec => CloseIsFinal
<1> DEFINE A == stop /\ poller \in Unrecorded =>
                  /\ stop' /\ poller' \in Unrecorded
                  /\ UNCHANGED <<file, etag, status, rejection, failures, networkReady>>
                  /\ UNCHANGED <<snapshot, cacheState>> \/ CacheLoaded
<1>1. Inductive /\ [Next]_vars => [A]_vars
  <2> DEFINE Quieted ==
        /\ stop' /\ poller' \in Unrecorded
        /\ UNCHANGED <<snapshot, file, diagnosticVars, networkReady>>
  <2> SUFFICES ASSUME Inductive, [Next]_vars, stop, poller \in Unrecorded
               PROVE  A \/ UNCHANGED vars
    OBVIOUS
  <2>1. Quieted => A
    BY DEF diagnosticVars
  <2>2. ASSUME NEW c \in Caller,
               Quiet(c) \/ EnterStart(c) \/ CreateThread(c) \/ SpawnThread(c)
                 \/ SpawnRaises(c)
        PROVE  Quieted
    <3>1. poller' \in Unrecorded
      BY <2>2, DataFrame DEF Unrecorded
    <3>2. QED
      BY <2>2, <3>1, DataFrame
  <2>3. ASSUME NEW c \in Caller, LoadCache(c) \/ RestoreSnapshot(c) PROVE A
    <3>1. /\ UNCHANGED <<file, etag, status, rejection, failures, eventVars, pollerVars>>
          /\ poller = "unborn"
      BY <2>3, CacheFrame
    <3>2. startLock # None
      BY <2>3, ClientAssumption DEF Inductive, LaunchInv, Launching, LoadCache,
         RestoreSnapshot, Goto, Return
    <3>3. cacheState' \in {cacheState, "loaded", "loadFailed"}
      BY <2>3 DEF LoadCache, RestoreSnapshot, diagnosticVars
    <3>4. \/ snapshot' = snapshot
          \/ snapshot = None /\ snapshot' = [body |-> file, fromCache |-> TRUE]
      BY <2>3 DEF Inductive, BeforePoller, LoadCache, RestoreSnapshot, Goto
    <3>5. CacheLoaded
      BY <3>1, <3>2, <3>3, <3>4 DEF CacheLoaded
    <3>6. QED
      BY <3>1, <3>5 DEF eventVars, pollerVars
  <2>4. ASSUME PollerStep PROVE Quieted
    <3>1. stop' = stop
      BY <2>4, PollerFrame
    <3>2. PollLoop \/ Fetch \/ FetchRaises \/ CheckStop \/ Backoff
      BY <2>4 DEF PollerStep, RecordSuccess, RecordOther, StoreCache, PublishSnapshot,
         NoteFresh, SetNetworkReady, SetFirstAttempt, At, Unrecorded
    <3>3. poller' \in Unrecorded
      BY <3>2 DEF PollLoop, Fetch, FetchRaises, CheckStop, Backoff, Unrecorded
    <3>4. UNCHANGED <<snapshot, file, diagnosticVars, networkReady>>
      BY <3>2 DEF PollLoop, Fetch, FetchRaises, CheckStop, Backoff, eventVars
    <3>5. QED
      BY <3>1, <3>3, <3>4
  <2> HIDE DEF A, Quieted
  <2>5. QED
    BY <2>1, <2>2, <2>3, <2>4, StepCases
<1>2. QED
  BY <1>1, Invariance, PTL DEF Spec, CloseIsFinal

(* start() never reports defaults over a network ruleset whose ready event  *)
(* was set before its second look, however many start() calls race and      *)
(* wherever the poller is.                                                  *)
THEOREM TimedOutOnlyEarly == Spec => TimedOutIsEarly
<1> DEFINE A == \A c \in Caller :
                  pc[c] = "recheck" /\ pc'[c] = "idle" /\ result'[c] = "timedOut" =>
                    snapshot = None \/ poller \in {"note", "ready"}
<1>1. Inductive /\ [Next]_vars => [A]_vars
  <2> SUFFICES ASSUME Inductive, [Next]_vars, NEW c \in Caller,
                      pc[c] = "recheck", pc'[c] = "idle", result'[c] = "timedOut"
               PROVE  snapshot = None \/ poller \in {"note", "ready"}
    OBVIOUS
  <2>0. /\ pc \in [Caller -> Place] /\ result \in [Caller -> Answer]
        /\ RecheckInv
    BY DEF Inductive, TypeOK, CallerTypeOK
  <2>1. ASSUME NEW d \in Caller, NEW from, NEW to, Goto(d, from, to)
        PROVE  d = c /\ from = "recheck"
    BY <2>0, <2>1 DEF Goto
  <2>2. ~PollerStep /\ ~(UNCHANGED vars)
    BY PollerFrame DEF callerVars, vars
  <2>3. PICK d \in Caller : CallStart(d) \/ CallClose(d) \/ CallStep(d)
    BY <2>2 DEF Next
  <2>4. RecheckReady(c)
    BY <2>1, <2>3 DEF CallStart, CallClose, CallStep, StartStep, CloseStep, EnterStart,
       LoadCache, RestoreSnapshot, CreateThread, SpawnThread, SpawnRaises,
       AwaitFirstAttempt, CheckReady, ReadSnapshot, ReadThread, JoinThread, RecheckReady,
       Return
  <2>5. result'[c] = IF networkReady THEN "ready" ELSE "timedOut"
    BY <2>0, <2>4 DEF RecheckReady, Return
  <2>6. ~networkReady
    BY <2>5
  <2>7. QED
    BY <2>0, <2>6 DEF RecheckInv
<1>2. QED
  BY <1>1, Invariance, PTL DEF Spec, TimedOutIsEarly

-----------------------------------------------------------------------------
(* The client implements the cascade: cache only into an empty client, then *)
(* only live-verified bodies, and nothing else in the file.                 *)
THEOREM FollowsTheCascade == Spec => ImplementsCascade
<1>1. Init => Abstract!Init
  BY DEF Init, Abstract!Init
<1>2. Inductive /\ [Next]_vars => [Abstract!Next]_(Abstract!cascadeVars)
  <2> SUFFICES ASSUME Inductive, [Next]_vars
               PROVE  Abstract!Next \/ UNCHANGED <<snapshot, file>>
    BY DEF Abstract!cascadeVars
  <2>0. TypeOK /\ BeforePoller /\ AttemptInv
    BY DEF Inductive
  <2>1. ASSUME NEW c \in Caller, RestoreSnapshot(c) PROVE Abstract!RestoreFromCache
    BY <2>0, <2>1 DEF RestoreSnapshot, Goto, BeforePoller, Abstract!RestoreFromCache
  <2>2. CASE PublishSnapshot
    <3>1. Abstract!Adopt
      BY <2>0, <2>2 DEF PublishSnapshot, At, AttemptInv, Abstract!Adopt
    <3>2. QED
      BY <3>1 DEF Abstract!Next
  <2>3. CASE StoreCache
    <3>1. /\ file' = file \/ file' \in LiveAcceptable \cup {Torn}
          /\ snapshot' = snapshot
      BY <2>0, <2>3 DEF StoreCache, At, AttemptInv
    <3>2. QED
      BY <3>1 DEF Abstract!Next, Abstract!Persist
  <2>4. ASSUME NEW c \in Caller,
               Quiet(c) \/ EnterStart(c) \/ LoadCache(c) \/ CreateThread(c)
                 \/ SpawnThread(c) \/ SpawnRaises(c)
        PROVE  UNCHANGED <<snapshot, file>>
    BY <2>4, DataFrame DEF LoadCache
  <2>5. CASE PollerStep /\ ~PublishSnapshot /\ ~StoreCache
    BY <2>5 DEF PollerStep, PollLoop, Fetch, FetchRaises, CheckStop,
       RecordSuccess, RecordOther, NoteFresh, SetNetworkReady, SetFirstAttempt, Backoff
  <2>6. QED
    BY <2>1, <2>2, <2>3, <2>4, <2>5, StepCases DEF Abstract!Next, vars
<1>3. QED
  BY <1>1, <1>2, Invariance, PTL DEF Spec, ImplementsCascade, Abstract!Spec
=============================================================================
