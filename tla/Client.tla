------------------------------- MODULE Client -------------------------------
(***************************************************************************)
(* The client core (_client.py) in one process lifetime: application       *)
(* threads that call start() and close() in any order, as often as they    *)
(* like and concurrently, and the daemon poller that start() launches.     *)
(*                                                                         *)
(* Every statement another thread can see is a step of its own.  The       *)
(* critical sections under _state_lock are single steps: nothing blocks    *)
(* inside them.  _start_lock is held across several steps and is explicit. *)
(*                                                                         *)
(* An ETag names the body it was sent with, so the ETag of body b is       *)
(* written b.  Of Transport's constants, Body is also what the cache file  *)
(* may hold, and None also Python's None and a missing file.               *)
(***************************************************************************)
EXTENDS Verifier, Transport

CONSTANTS
  Caller,          \* application threads
  Torn,            \* the content of a file whose write was cut short
  Clock,           \* the readings now_s() may return, in any order
  Policy,          \* configuration.signature
  Environment,     \* configuration.environment
  CacheEnabled,    \* configuration.cache_path is set
  Reply,           \* the exchanges a fetch may come to
  MaxFailures      \* bound: consecutive_failures saturates here

ASSUME ClientAssumption ==
  /\ Body \subseteq Envelope
  /\ None \notin Body /\ Torn \notin Body /\ None # Torn
  /\ None \notin Caller /\ None \notin BOOLEAN
  /\ None \notin RejectionCode
  /\ None \notin [body : Body, fromCache : BOOLEAN]
  /\ Clock \subseteq Int /\ Clock # {}
  /\ Environment \in EnvironmentName
  /\ CacheEnabled \in BOOLEAN
  /\ Reply \subseteq Exchange
  /\ \A x \in Reply : x.etag \in {None, x.body} /\ (x.status = 200 => x.body \in Body)
  /\ MaxFailures \in Nat \ {0}

VARIABLES
  snapshot,        \* _snapshot
  etag,            \* _etag
  status,          \* _last_fetch_status
  rejection,       \* _last_rejection
  failures,        \* _consecutive_failures
  cacheState,      \* _cache_state
  file,            \* the file at cache_path
  firstAttempt,    \* the _first_attempt event
  networkReady,    \* the _network_ready event
  stop,            \* the _stop event
  startLock,       \* the holder of _start_lock, or None
  started,         \* _started
  thread,          \* _thread: "none", "assigned" (not yet started), "running"
  poller,          \* where the poller thread is
  outcome,         \* the poller's local: the last FetchOutcome
  stored,          \* _record's local: what FileCache.store answered
  pc,              \* where each caller is
  limited,         \* the caller's start() was given a timeout
  result           \* what the caller's last call came to

diagnosticVars == <<etag, status, rejection, failures, cacheState>>
eventVars == <<firstAttempt, networkReady, stop>>
startVars == <<startLock, started, thread>>
pollerVars == <<poller, outcome, stored>>
callerVars == <<pc, limited, result>>
vars == <<snapshot, file, diagnosticVars, eventVars, startVars, pollerVars,
          callerVars>>

Snapshot == [body : Body, fromCache : BOOLEAN]

Status ==
  (FetchKind \ {"success"}) \cup {"neverFetched", "fresh", "rejectedEnvelope"}

PollerPlace ==
  {"unborn", "loop", "fetching", "fetched", "record", "store", "publish", "note",
   "ready", "first", "delay", "exited", "died"}

Place == {"idle", "lock", "load", "restore", "create", "spawn", "wait", "ready",
          "read", "recheck", "thread", "join"}

Answer == {"none", "ready", "cacheOnly", "timedOut", "closed", "startRaised",
           "closeRaised"}

SharedTypeOK ==
  /\ snapshot \in Snapshot \cup {None}
  /\ etag \in Body \cup {None}
  /\ status \in Status
  /\ rejection \in RejectionCode \cup {None}
  /\ failures \in 0..MaxFailures
  /\ cacheState \in {"disabled", "empty", "loaded", "loadFailed",
                     "stored", "storeFailed"}
  /\ file \in Body \cup {None, Torn}
  /\ firstAttempt \in BOOLEAN /\ networkReady \in BOOLEAN /\ stop \in BOOLEAN
  /\ startLock \in Caller \cup {None}
  /\ started \in BOOLEAN
  /\ thread \in {"none", "assigned", "running"}

PollerTypeOK ==
  /\ poller \in PollerPlace
  /\ outcome \in Outcome
  /\ stored \in BOOLEAN \cup {None}

CallerTypeOK ==
  /\ pc \in [Caller -> Place]
  /\ limited \in [Caller -> BOOLEAN]
  /\ result \in [Caller -> Answer]

TypeOK == SharedTypeOK /\ PollerTypeOK /\ CallerTypeOK

Init ==
  /\ snapshot = None
  /\ etag = None /\ status = "neverFetched" /\ rejection = None
  /\ failures = 0
  /\ cacheState = IF CacheEnabled THEN "empty" ELSE "disabled"
  /\ file \in Body \cup {None, Torn}
  /\ firstAttempt = FALSE /\ networkReady = FALSE /\ stop = FALSE
  /\ startLock = None /\ started = FALSE /\ thread = "none"
  /\ poller = "unborn" /\ outcome = NoOutcome /\ stored = None
  /\ pc = [c \in Caller |-> "idle"]
  /\ limited = [c \in Caller |-> FALSE]
  /\ result = [c \in Caller |-> "none"]

-----------------------------------------------------------------------------
(* start()                                                                 *)

Goto(c, from, to) ==
  /\ pc[c] = from
  /\ pc' = [pc EXCEPT ![c] = to]

(* The call's arguments and locals end with it.                            *)
Return(c, from, answer) ==
  /\ Goto(c, from, "idle")
  /\ result' = [result EXCEPT ![c] = answer]
  /\ limited' = [limited EXCEPT ![c] = FALSE]

CallStart(c) ==
  /\ Goto(c, "idle", "lock")
  /\ limited' \in {[limited EXCEPT ![c] = b] : b \in BOOLEAN}
  /\ result' = [result EXCEPT ![c] = "none"]
  /\ UNCHANGED <<snapshot, file, diagnosticVars, eventVars, startVars,
                 pollerVars>>

(* Mutant of EnterStart: a second start() is not told from the first.       *)
EnterAlways(c) ==
  /\ startLock = None
  /\ Goto(c, "lock", "load")
  /\ startLock' = c /\ started' = TRUE
  /\ UNCHANGED <<snapshot, file, diagnosticVars, eventVars, thread, pollerVars,
                 limited, result>>

(* Mutant of EnterStart: a later start() re-arms a closed client.           *)
EnterAndRearm(c) ==
  /\ startLock = None
  /\ IF started
     THEN Goto(c, "lock", "wait") /\ UNCHANGED <<startLock, started>>
     ELSE Goto(c, "lock", "load") /\ startLock' = c /\ started' = TRUE
  /\ stop' = FALSE
  /\ UNCHANGED <<snapshot, file, diagnosticVars, firstAttempt, networkReady,
                 thread, pollerVars, limited, result>>

(* Only the first call goes on holding the lock; a later one falls through  *)
(* to the wait.                                                             *)
EnterStart(c) ==
  /\ startLock = None
  /\ IF started
     THEN /\ Goto(c, "lock", "wait")
          /\ UNCHANGED <<startLock, started>>
     ELSE /\ Goto(c, "lock", "load")
          /\ startLock' = c
          /\ started' = TRUE
  /\ UNCHANGED <<snapshot, file, diagnosticVars, eventVars, thread, pollerVars,
                 limited, result>>

(* Mutant of CacheVerdicts: we wrote the file, so it is not verified again. *)
TrustedCache == {Accepted}

(* _load_cache: a file that is missing, empty or unreadable leaves          *)
(* everything as it is; anything else is re-verified with expiry            *)
(* unenforced.  A truncated file does not parse.                            *)
CacheVerdicts ==
  IF file = Torn
  THEN {"malformedEnvelope"}
  ELSE {VerifyEnvelope(file, Policy, CacheLoad(Environment, t)) : t \in Clock}

LoadCache(c) ==
  /\ \/ /\ Goto(c, "load", "create")
        /\ UNCHANGED <<cacheState, startLock, result, limited>>
     \/ /\ CacheEnabled /\ file # None
        /\ \E verdict \in CacheVerdicts :
             \/ /\ verdict = Accepted
                /\ cacheState' = "loaded"
                /\ Goto(c, "load", "restore")
                /\ UNCHANGED <<startLock, result, limited>>
             \/ /\ verdict \in RejectionCode
                /\ cacheState' = "loadFailed"
                /\ Goto(c, "load", "create")
                /\ UNCHANGED <<startLock, result, limited>>
             \/ /\ verdict = RecursionError
                /\ Return(c, "load", "startRaised")
                /\ startLock' = None
                /\ UNCHANGED cacheState
  /\ UNCHANGED <<snapshot, file, etag, status, rejection, failures, eventVars,
                 started, thread, pollerVars>>

(* Mutant of RestoreSnapshot: the envelope is published, not its snapshot.  *)
RestoreRaw(c) ==
  /\ Goto(c, "restore", "create")
  /\ snapshot' = file
  /\ UNCHANGED <<file, diagnosticVars, eventVars, startVars, pollerVars,
                 limited, result>>

(* The snapshot is published after the note, outside the lock.              *)
RestoreSnapshot(c) ==
  /\ Goto(c, "restore", "create")
  /\ snapshot' = [body |-> file, fromCache |-> TRUE]
  /\ UNCHANGED <<file, diagnosticVars, eventVars, startVars, pollerVars,
                 limited, result>>

(* _thread is assigned before the thread is started.                        *)
CreateThread(c) ==
  /\ Goto(c, "create", "spawn")
  /\ thread' = "assigned"
  /\ UNCHANGED <<snapshot, file, diagnosticVars, eventVars, startLock, started,
                 pollerVars, limited, result>>

SpawnThread(c) ==
  /\ Goto(c, "spawn", "wait")
  /\ thread' = "running"
  /\ poller' = "loop"
  /\ startLock' = None
  /\ UNCHANGED <<snapshot, file, diagnosticVars, eventVars, started, outcome,
                 stored, limited, result>>

(* The interpreter can start no more threads: Thread.start() raises.        *)
SpawnRaises(c) ==
  /\ Return(c, "spawn", "startRaised")
  /\ startLock' = None
  /\ UNCHANGED <<snapshot, file, diagnosticVars, eventVars, started, thread,
                 pollerVars>>

(* Mutant of AwaitFirstAttempt: the timeout is not passed on.               *)
AwaitWithoutTimeout(c) ==
  /\ Goto(c, "wait", "ready")
  /\ firstAttempt
  /\ UNCHANGED <<snapshot, file, diagnosticVars, eventVars, startVars,
                 pollerVars, limited, result>>

(* _first_attempt.wait(timeout): without a timeout, only the event ends it. *)
AwaitFirstAttempt(c) ==
  /\ Goto(c, "wait", "ready")
  /\ firstAttempt \/ limited[c]
  /\ UNCHANGED <<snapshot, file, diagnosticVars, eventVars, startVars,
                 pollerVars, limited, result>>

(* Mutant of CheckReady: the wrong event.                                   *)
CheckAttempted(c) ==
  /\ IF firstAttempt
     THEN Return(c, "ready", "ready")
     ELSE Goto(c, "ready", "read") /\ UNCHANGED <<result, limited>>
  /\ UNCHANGED <<snapshot, file, diagnosticVars, eventVars, startVars,
                 pollerVars>>

CheckReady(c) ==
  /\ IF networkReady
     THEN Return(c, "ready", "ready")
     ELSE Goto(c, "ready", "read") /\ UNCHANGED <<result, limited>>
  /\ UNCHANGED <<snapshot, file, diagnosticVars, eventVars, startVars,
                 pollerVars>>

ReadSnapshot(c) ==
  /\ IF snapshot # None /\ snapshot.fromCache
     THEN Return(c, "read", "cacheOnly")
     ELSE /\ Goto(c, "read", "recheck")
          /\ UNCHANGED <<result, limited>>
  /\ UNCHANGED <<snapshot, file, diagnosticVars, eventVars, startVars,
                 pollerVars>>

(* Mutant of RecheckReady: no second look.                                  *)
GiveUp(c) ==
  /\ Return(c, "recheck", "timedOut")
  /\ UNCHANGED <<snapshot, file, diagnosticVars, eventVars, startVars,
                 pollerVars>>

RecheckReady(c) ==
  /\ Return(c, "recheck", IF networkReady THEN "ready" ELSE "timedOut")
  /\ UNCHANGED <<snapshot, file, diagnosticVars, eventVars, startVars,
                 pollerVars>>

-----------------------------------------------------------------------------
(* close()                                                                 *)

CallClose(c) ==
  /\ Goto(c, "idle", "thread")
  /\ stop' = TRUE
  /\ result' = [result EXCEPT ![c] = "none"]
  /\ UNCHANGED <<snapshot, file, diagnosticVars, firstAttempt, networkReady,
                 startVars, pollerVars, limited>>

(* close() does not take _start_lock: it sees _thread as start() left it.   *)
ReadThread(c) ==
  /\ IF thread = "none"
     THEN Return(c, "thread", "closed")
     ELSE Goto(c, "thread", "join") /\ UNCHANGED <<result, limited>>
  /\ UNCHANGED <<snapshot, file, diagnosticVars, eventVars, startVars,
                 pollerVars>>

(* Thread.join(timeout) raises RuntimeError on a thread not yet started;    *)
(* otherwise it returns, the poller finished or the timeout elapsed.  The   *)
(* http_timeout_s configured is no longer than a join can be asked for.     *)
JoinThread(c) ==
  /\ Return(c, "join", IF thread = "assigned" THEN "closeRaised" ELSE "closed")
  /\ UNCHANGED <<snapshot, file, diagnosticVars, eventVars, startVars,
                 pollerVars>>

-----------------------------------------------------------------------------
(* _poll_loop and _record: the poller thread.                              *)

At(place) == poller = place

(* while not _stop.is_set(), then _etag is read; only this thread writes it.*)
PollLoop ==
  /\ At("loop")
  /\ poller' = IF stop THEN "exited" ELSE "fetching"
  /\ UNCHANGED <<snapshot, file, diagnosticVars, eventVars, startVars, outcome,
                 stored, callerVars>>

(* What fetch_ruleset may answer.                                           *)
Answers == {FetchRuleset(x) : x \in {y \in Reply : y.raised \notin Uncaught}}

Fetch ==
  /\ At("fetching")
  /\ poller' = "fetched"
  /\ outcome' \in Answers
  /\ UNCHANGED <<snapshot, file, diagnosticVars, eventVars, startVars, stored,
                 callerVars>>

(* What fetch_ruleset does not catch ends the thread, with no word of it.   *)
FetchRaises ==
  /\ At("fetching")
  /\ \E x \in Reply : x.raised \in Uncaught
  /\ poller' = "died"
  /\ UNCHANGED <<snapshot, file, diagnosticVars, eventVars, startVars, outcome,
                 stored, callerVars>>

(* Mutant of CheckStop: the attempt is announced before it is recorded.     *)
AnnounceEarly ==
  /\ At("fetched")
  /\ poller' = IF stop THEN "exited" ELSE "record"
  /\ firstAttempt' = TRUE
  /\ UNCHANGED <<snapshot, file, diagnosticVars, networkReady, stop, startVars,
                 outcome, stored, callerVars>>

(* Mutant of CheckStop: an answer that came is recorded, closed or not.     *)
RecordAnyway ==
  /\ At("fetched")
  /\ poller' = "record"
  /\ UNCHANGED <<snapshot, file, diagnosticVars, eventVars, startVars, outcome,
                 stored, callerVars>>

(* A close() during the fetch: the answer is dropped.                       *)
CheckStop ==
  /\ At("fetched")
  /\ IF stop
     THEN poller' = "exited" /\ firstAttempt' = TRUE
     ELSE poller' = "record" /\ UNCHANGED firstAttempt
  /\ UNCHANGED <<snapshot, file, diagnosticVars, networkReady, stop, startVars,
                 outcome, stored, callerVars>>

(* Mutant of OneMoreFailure: failures are not counted.                      *)
NoMoreFailure == failures

OneMoreFailure == IF failures < MaxFailures THEN failures + 1 ELSE failures

RecordRejected(verdict) ==
  /\ status' = "rejectedEnvelope"
  /\ rejection' = verdict
  /\ failures' = OneMoreFailure
  /\ poller' = "first"

(* _record of a 200: verified against one reading of the clock.             *)
RecordSuccess ==
  /\ At("record") /\ outcome.kind = "success"
  /\ \E now \in Clock :
       LET verdict == VerifyEnvelope(outcome.body, Policy, Live(Environment, now))
       IN \/ /\ verdict = Accepted
             /\ poller' = IF CacheEnabled THEN "store" ELSE "publish"
             /\ UNCHANGED <<status, rejection, failures>>
          \/ /\ verdict \in RejectionCode
             /\ RecordRejected(verdict)
          \/ /\ verdict = RecursionError
             /\ poller' = "died"
             /\ UNCHANGED <<status, rejection, failures>>
  /\ UNCHANGED <<snapshot, file, etag, cacheState, eventVars, startVars, outcome,
                 stored, callerVars>>

(* _record of everything else: a 304 counts as a success.                   *)
RecordOther ==
  /\ At("record") /\ outcome.kind # "success"
  /\ status' = outcome.kind
  /\ failures' = IF outcome.kind = "notModified" THEN 0 ELSE OneMoreFailure
  /\ poller' = "first"
  /\ UNCHANGED <<snapshot, file, etag, rejection, cacheState, eventVars,
                 startVars, outcome, stored, callerVars>>

(* Mutant of StoreCache: what store() answers is not looked at.             *)
StoreUnchecked ==
  /\ At("store")
  /\ poller' = "publish"
  /\ stored' = TRUE
  /\ file' \in {file, outcome.body, Torn}
  /\ UNCHANGED <<snapshot, diagnosticVars, eventVars, startVars, outcome,
                 callerVars>>

(* FileCache.store: replaces the file and answers TRUE, or answers FALSE    *)
(* and leaves it.  os.write may write less than it was given: then the      *)
(* truncated file replaces the old one and the answer is TRUE all the same. *)
StoreCache ==
  /\ At("store")
  /\ poller' = "publish"
  /\ \/ stored' = TRUE /\ file' \in {outcome.body, Torn}
     \/ stored' = FALSE /\ UNCHANGED file
  /\ UNCHANGED <<snapshot, diagnosticVars, eventVars, startVars, outcome,
                 callerVars>>

PublishSnapshot ==
  /\ At("publish")
  /\ poller' = "note"
  /\ snapshot' = [body |-> outcome.body, fromCache |-> FALSE]
  /\ UNCHANGED <<file, diagnosticVars, eventVars, startVars, outcome, stored,
                 callerVars>>

(* Mutant of NoteFresh: a response without an ETag keeps the last one.       *)
KeepEtag ==
  /\ At("note")
  /\ poller' = "ready"
  /\ status' = "fresh" /\ rejection' = None /\ failures' = 0
  /\ etag' = IF outcome.etag = None THEN etag ELSE outcome.etag
  /\ cacheState' = IF stored = None THEN cacheState
                   ELSE IF stored THEN "stored" ELSE "storeFailed"
  /\ UNCHANGED <<snapshot, file, eventVars, startVars, outcome, stored,
                 callerVars>>

NoteFresh ==
  /\ At("note")
  /\ poller' = "ready"
  /\ status' = "fresh" /\ rejection' = None /\ failures' = 0
  /\ etag' = outcome.etag
  /\ cacheState' = IF stored = None THEN cacheState
                   ELSE IF stored THEN "stored" ELSE "storeFailed"
  /\ UNCHANGED <<snapshot, file, eventVars, startVars, outcome, stored,
                 callerVars>>

SetNetworkReady ==
  /\ At("ready")
  /\ poller' = "first"
  /\ networkReady' = TRUE
  /\ UNCHANGED <<snapshot, file, diagnosticVars, firstAttempt, stop, startVars,
                 outcome, stored, callerVars>>

(* Mutant of SetFirstAttempt: only a success counts as an attempt.          *)
SetFirstSuccess ==
  /\ At("first")
  /\ poller' = "delay"
  /\ firstAttempt' = networkReady
  /\ UNCHANGED <<snapshot, file, diagnosticVars, networkReady, stop, startVars,
                 outcome, stored, callerVars>>

SetFirstAttempt ==
  /\ At("first")
  /\ poller' = "delay"
  /\ firstAttempt' = TRUE
  /\ UNCHANGED <<snapshot, file, diagnosticVars, networkReady, stop, startVars,
                 outcome, stored, callerVars>>

(* The delay is computed, then waited for.  float() of a Retry-After past   *)
(* the range of a double raises OverflowError before the cap applies.       *)
DelayOverflows ==
  failures > 0 /\ outcome.kind = "rateLimited" /\ outcome.retryAfter = "overflow"

Backoff ==
  /\ At("delay")
  /\ poller' = IF DelayOverflows THEN "died"
               ELSE IF stop THEN "exited" ELSE "loop"
  /\ outcome' = NoOutcome /\ stored' = None
  /\ UNCHANGED <<snapshot, file, diagnosticVars, eventVars, startVars,
                 callerVars>>

-----------------------------------------------------------------------------
StartStep(c) ==
  \/ EnterStart(c) \/ LoadCache(c) \/ RestoreSnapshot(c) \/ CreateThread(c)
  \/ SpawnThread(c) \/ SpawnRaises(c) \/ AwaitFirstAttempt(c) \/ CheckReady(c)
  \/ ReadSnapshot(c) \/ RecheckReady(c)

CloseStep(c) == ReadThread(c) \/ JoinThread(c)

CallStep(c) == StartStep(c) \/ CloseStep(c)

PollerStep ==
  \/ PollLoop \/ Fetch \/ FetchRaises \/ CheckStop \/ RecordSuccess
  \/ RecordOther \/ StoreCache \/ PublishSnapshot \/ NoteFresh
  \/ SetNetworkReady \/ SetFirstAttempt \/ Backoff

Next ==
  \/ \E c \in Caller : CallStart(c) \/ CallClose(c) \/ CallStep(c)
  \/ PollerStep

Spec == Init /\ [][Next]_vars

(* A thread inside a call is scheduled until it blocks; the poller too, and *)
(* its fetch and its wait end, both being bounded by timeouts.  Nothing     *)
(* obliges the application to call anything.                                *)
FairSpec == Spec /\ WF_vars(PollerStep) /\ \A c \in Caller : WF_vars(CallStep(c))

-----------------------------------------------------------------------------
(* Safety                                                                  *)

FromNetwork(b) == [body |-> b, fromCache |-> FALSE]

(* READY is never hollow: once the network-ready event is set, or any       *)
(* start() has reported READY, the getters answer from a ruleset that came  *)
(* over the network - a late cache load never displaces it, nothing clears  *)
(* it.                                                                      *)
ReadyMeansNetwork ==
  networkReady \/ (\E c \in Caller : result[c] = "ready") =>
    /\ snapshot # None
    /\ ~snapshot.fromCache

(* The ETag the next request is made conditional on is that of the very     *)
(* snapshot being served; so a 304 never certifies a ruleset the client     *)
(* does not hold.  Between publication and the note the snapshot is ahead.  *)
EtagNamesSnapshot ==
  etag # None /\ poller # "note" => snapshot = FromNetwork(etag)

(* diagnostics() explains itself: the failure count is zero exactly when    *)
(* the last fetch succeeded or none was made, a rejection is reported with  *)
(* the status that says so, and a fresh ruleset clears it.                  *)
DiagnosticsCoherent ==
  /\ failures = 0 <=> status \in {"neverFetched", "fresh", "notModified"}
  /\ status = "rejectedEnvelope" => rejection # None
  /\ status = "fresh" => rejection = None

(* cache_state "stored" is about the snapshot being served: the file holds  *)
(* that body, or what a short write left of it, never an older one.         *)
CacheStateTruthful ==
  cacheState = "stored" /\ poller \notin {"publish", "note"} =>
    file \in {snapshot.body, Torn}

(* An unlimited start() that comes back has the first attempt's result to   *)
(* report: unless closed meanwhile, the attempt is on record, and if it     *)
(* brought a ruleset the ready event says so.                               *)
FirstAttemptReported ==
  firstAttempt /\ ~stop =>
    /\ status # "neverFetched"
    /\ status = "fresh" /\ poller # "ready" => networkReady

(* The poller on its way to announcing the first attempt.                   *)
Attempting ==
  {"loop", "fetching", "fetched", "record", "store", "publish", "note", "ready", "first"}

(* The start() that was to launch it left without a thread running: by its  *)
(* own exception, from the cache or from Thread.start().                    *)
NeverLaunched == started /\ startLock = None /\ poller = "unborn"

(* No wake-up is lost: a start() blocked until the first attempt is waiting *)
(* for something.  Unless the client was closed, the poller is on its way   *)
(* to announce the attempt or is being launched; or the thread died, or no  *)
(* launch came to one (_client.py:158, 242, 245).                           *)
WaiterIsRemembered ==
  (\E c \in Caller : pc[c] = "wait") /\ ~firstAttempt /\ ~stop =>
    poller \in Attempting \cup {"died"} \/ startLock # None \/ NeverLaunched

(* One client has one poller: however many threads race through start(),    *)
(* the thread that runs is never replaced by another, nor restarted.        *)
OnePoller ==
  [][/\ thread = "running" => thread' = "running"
     /\ poller \in {"exited", "died"} => poller' = poller]_vars

(* The poller not launched, between two attempts, or with an answer it has  *)
(* not looked at.                                                           *)
Unrecorded == {"unborn", "loop", "fetching", "fetched", "delay", "exited", "died"}

(* What the launching start() still does on a client already closed: it     *)
(* loads the cache, and serves from it if nothing is served.                *)
CacheLoaded ==
  /\ poller = "unborn" /\ startLock # None
  /\ cacheState' \in {cacheState, "loaded", "loadFailed"}
  /\ \/ snapshot' = snapshot
     \/ snapshot = None /\ snapshot' = [body |-> file, fromCache |-> TRUE]

(* close() is final for the network, called before, during or after the     *)
(* launch: unless the poller is recording an attempt already, a late answer *)
(* is dropped, no call takes the stop back, and neither the file nor the    *)
(* ETag, the status, the failures or the ready event is touched again       *)
(* (_client.py:241).  It is not final for the cache: a start() that is      *)
(* launching, or that comes after the close, still loads it, so cache_state *)
(* and the snapshot may change until the launch is over, and only so        *)
(* (_client.py:149, 229).                                                   *)
CloseIsFinal ==
  [][stop /\ poller \in Unrecorded =>
       /\ stop' /\ poller' \in Unrecorded
       /\ UNCHANGED <<file, etag, status, rejection, failures, networkReady>>
       /\ UNCHANGED <<snapshot, cacheState>> \/ CacheLoaded]_vars

(* A start() answers "timed out, serving defaults" only when there is       *)
(* nothing to serve, or when a ruleset was published a moment ago and its   *)
(* poller has yet to note it and set the ready event: the second look at    *)
(* that event misses no ruleset announced before it (_client.py:159-164).   *)
TimedOutIsEarly ==
  [][\A c \in Caller :
       pc[c] = "recheck" /\ pc'[c] = "idle" /\ result'[c] = "timedOut" =>
         snapshot = None \/ poller \in {"note", "ready"}]_vars

(* The cascade: see the module of that name.                                *)
LiveAcceptable ==
  {b \in Body : \E now \in Clock :
     VerifyEnvelope(b, Policy, Live(Environment, now)) = Accepted}
CacheAcceptable ==
  {b \in Body : \E now \in Clock :
     VerifyEnvelope(b, Policy, CacheLoad(Environment, now)) = Accepted}

Abstract == INSTANCE Cascade WITH held <- snapshot, durable <- file

(* What is served follows the cascade: network over cache over nothing,     *)
(* and never a step back.                                                   *)
ImplementsCascade == Abstract!Spec

-----------------------------------------------------------------------------
(* The inductive strengthening of the safety properties.                    *)

(* Inside the critical section of start().                                  *)
Launching(c) == pc[c] \in {"load", "restore", "create", "spawn"}

(* One caller at most launches, it holds _start_lock, and it is the first   *)
(* to get there; until it is done there is no poller.                       *)
LaunchInv ==
  /\ \A c \in Caller : Launching(c) <=> startLock = c
  /\ ~started => startLock = None /\ thread = "none"
  /\ \A c \in Caller : pc[c] \in {"load", "restore", "create"} => thread = "none"
  /\ \A c \in Caller : pc[c] = "spawn" => thread = "assigned"
  /\ thread = "running" <=> poller # "unborn"
  /\ thread = "running" => startLock = None

(* Before there is a poller nothing came from the network, and what is      *)
(* about to be restored is the cache file, as verified.                     *)
BeforePoller ==
  /\ poller = "unborn" =>
       ~networkReady /\ ~firstAttempt /\ etag = None /\ status = "neverFetched"
       /\ failures = 0 /\ outcome = NoOutcome /\ stored = None
       /\ cacheState # "stored"
  /\ ~started => snapshot = None
  /\ \A c \in Caller : pc[c] \in {"load", "restore"} => snapshot = None
  /\ \A c \in Caller : pc[c] = "restore" => file \in CacheAcceptable

(* What the poller carries from step to step of one attempt.                *)
AttemptInv ==
  /\ poller \in {"fetched", "record", "store", "publish", "note", "ready"}
       => outcome.kind # "none"
  /\ outcome.kind = "success" =>
       outcome.body \in Body /\ outcome.etag \in {None, outcome.body}
  /\ poller \in {"store", "publish", "note", "ready"} => outcome.kind = "success"
  /\ poller \in {"store", "publish"} => outcome.body \in LiveAcceptable
  /\ poller \in {"loop", "fetching", "fetched", "record", "store"} => stored = None
  /\ poller \in {"note", "ready"} => snapshot = FromNetwork(outcome.body)
  /\ poller \in {"publish", "note"} /\ stored = TRUE => file \in {outcome.body, Torn}
  /\ poller \in {"publish", "note"} /\ stored = None => cacheState # "stored"
  /\ poller = "store" => CacheEnabled
  /\ poller \in {"publish", "note"} /\ stored # None => CacheEnabled
  /\ poller = "ready" => status = "fresh"
  /\ poller = "first" => status # "neverFetched"

(* What the reports already given and the notes already made commit to.     *)
ReportInv ==
  /\ \A c \in Caller : result[c] = "ready" => networkReady
  /\ status = "fresh" /\ poller # "ready" => networkReady
  /\ cacheState = "stored" => snapshot # None
  /\ cacheState = "disabled" <=> ~CacheEnabled

(* Nobody waits before the launch, and the poller neither rests nor leaves  *)
(* before the attempt is announced, except when stopped.                    *)
WaiterInv ==
  /\ \A c \in Caller :
       pc[c] \in {"load", "restore", "create", "spawn", "wait"} => started
  /\ poller = "delay" => firstAttempt
  /\ poller = "exited" => stop

(* Past the lock of start() the launch is over, so no cache load comes      *)
(* between a call's two looks; and a network snapshot has its ready event,  *)
(* or is about to.                                                          *)
RecheckInv ==
  /\ \A c \in Caller :
       pc[c] \in {"wait", "ready", "read", "recheck"} => started /\ startLock = None
  /\ \A c \in Caller :
       pc[c] = "recheck" => snapshot = None \/ ~snapshot.fromCache
  /\ snapshot # None /\ poller \notin {"note", "ready"} =>
       snapshot.fromCache \/ networkReady

Inductive ==
  /\ TypeOK /\ LaunchInv /\ BeforePoller /\ AttemptInv /\ ReportInv /\ WaiterInv
  /\ RecheckInv
  /\ ReadyMeansNetwork /\ EtagNamesSnapshot /\ DiagnosticsCoherent
  /\ CacheStateTruthful /\ FirstAttemptReported

-----------------------------------------------------------------------------
(* Liveness                                                                *)

InStart(c) == pc[c] \in {"lock", "load", "restore", "create", "spawn", "wait",
                         "ready", "read", "recheck"}
InClose(c) == pc[c] \in {"thread", "join"}

(* close() and a start() with a timeout always come back to the caller,     *)
(* whatever other threads do and whatever became of the poller.             *)
CallReturns ==
  \A c \in Caller :
    InClose(c) \/ (InStart(c) /\ limited[c]) ~> pc[c] = "idle"

(* A start() without a timeout comes back too, unless the client is closed, *)
(* or the poller dies, or the start() that was to launch it raised.         *)
StartReturnsUnlessPollerGone ==
  \A c \in Caller :
    InStart(c) ~> pc[c] = "idle" \/ stop \/ poller = "died" \/ NeverLaunched

(* After close() the poller ends, even one parked in a long backoff.        *)
CloseEndsPoller == stop /\ thread = "running" ~> poller \in {"exited", "died"}

-----------------------------------------------------------------------------
(* What the code's comments say and the code does not do                   *)

(* close() is "idempotent, and safe before start": it never raises.         *)
CloseNeverRaises == \A c \in Caller : result[c] # "closeRaised"

(* start() "never raises", whatever the cache file holds.                   *)
StartNeverRaises == \A c \in Caller : result[c] # "startRaised"

(* "timed-out-serving-defaults": when a start() answers so, there is no     *)
(* snapshot to serve from.                                                  *)
TimedOutServesDefaults ==
  [][\A c \in Caller :
       pc[c] = "recheck" /\ result'[c] = "timedOut" => snapshot = None]_vars

(* start() blocks "until the first fetch attempt completes"; closing the    *)
(* client, before or meanwhile, completes it.                               *)
StartReturns ==
  \A c \in Caller :
    InStart(c) ~> pc[c] = "idle" \/ poller = "died" \/ NeverLaunched

(* "Every failure becomes backoff": what ever a fetch comes to, the poller  *)
(* reaches its wait or was told to stop.                                    *)
EveryFailureBacksOff ==
  poller = "fetching" ~> poller \in {"delay", "exited"}
=============================================================================
