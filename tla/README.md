# FortressFlag Python SDK: a formal model

TLA+ modules, TLC runs and TLAPS proofs for the SDK in `src/fortressflag`. The SDK downloads a
signed ruleset, keeps it in memory and optionally in a cache file, and answers flag lookups from
it. This project is about the part that is hard to test: threads, failures, ordering, crashes.

## Inventory

| Component | Source | State it keeps | Operations |
|---|---|---|---|
| Client core | `_client.py` | snapshot, state under `_state_lock`, three events, `_started`, `_thread` | `start`, `close`, the poller's loop, `_record`, `_load_cache` |
| Getters, diagnostics | `_client.py` | counters under `_counters_lock` | `bool_value`, `string_value`, `number_value`, `diagnostics` |
| Verification | `_verifier.py`, `_envelope.py` | none | `verify_envelope`, `check_signature`, the parsers |
| Ed25519 | `_ed25519.py` | none | `verify` |
| Durable cache | `_cache.py` | a file, temporary files, a descriptor | `load`, `store` |
| Backoff | `_backoff.py` | none (the failure count is the client's) | the three delay functions |
| Transport | `_transport.py` | none | `fetch_ruleset`, `parse_retry_after_seconds` |
| Evaluation | `_evaluate.py`, `_ruleset.py`, `_semver.py`, `_bucket.py` | none | `evaluate_flag`, `decode_value`, ... |
| Configuration | `_configuration.py` | none | `resolve_configuration`, `parse_key` |

How they interact. Application threads call `start()` and `close()` on a `Client`, in any order
and concurrently. The first `start()` loads the cache (`FileCache.load`, then
`verify_envelope` without expiry), and launches one daemon thread. That thread loops: it fetches
(`Transport`), verifies what came (`verify_envelope` with expiry), stores it (`FileCache.store`),
publishes the snapshot, notes the outcome under the state lock, sets the ready event, sets the
first-attempt event, computes a delay (`_backoff.py`) and waits on the stop event. `close()` sets
the stop event and joins the thread with a timeout. The getters read the snapshot, one reference,
without a lock, walk its rules, and bump a counter under a lock of their own.

What is hard: `start()` racing `start()`, `close()` and the poller; the order of publication, note
and event; an exception that leaves the poller; a cache file that is missing, old, truncated or
not ours; several processes on one cache path, killed at any point; clocks that jump; delays at
their limits; answers computed while rulesets are replaced. `PROJECT.json` lists each hazard with its line.

What makes each component correct:

- Client: READY is never hollow; the ETag is that of the snapshot served; what is served goes
  network over cache over nothing and never back; diagnostics do not contradict themselves; one
  poller; calls return; `close()` ends the poller.
- Verification: fail closed; live bodies only in their window; cached ones for ever.
- Cache: readers see one whole envelope or none, whatever fails or crashes; nothing leaks.
- Backoff: the load on a failing backend falls; the wait never passes the cap.
- Getters and evaluation: one ruleset per answer; the first match that has one; counters that agree
  with what the application got; a percentage that only adds when it is raised.
- The whole, over restarts: a 304 is true; nothing served goes back; a restart and an outage lose
  nothing that was stored; a change on the server arrives.

## Modules

| Module | What it is | Runs and proofs |
|---|---|---|
| `Cascade` | abstract: what is served, and what is in the cache file | implemented by `Client` |
| `Verifier` | `verify_envelope` and `check_signature` as operators | used by the next and by `Client` |
| `Transport` | `fetch_ruleset`: from an exchange to an outcome, as operators | used by `Client` and `Lifecycle`; `TransportProofs` |
| `Verification` | a body in front of a client's policy while time passes; EXTENDS `Verifier` | `MCVerifier`, `VerificationProofs` |
| `Client` | one process: callers, poller, events, locks; EXTENDS `Verifier`, `Transport` | `MCClient`, `ClientProofs` |
| `AtomicFile` | abstract: `store` and `load` as calls that exchange, and read, a file in one step | implemented by `FileCache` |
| `FileCache` | `load` and `store`, system call by system call, in several processes | `MCFileCache`, `FileCacheProofs` |
| `Backoff` | the delays, over any sequence of outcomes | `MCBackoff`, `BackoffProofs` |
| `Evaluate` | conditions, versions, gate and `decode_value` as operators of the code | `EvaluateProofs` |
| `Contract` | what a flag promises, by definitions of its own: the reference for `Lookup`; EXTENDS `Evaluate` for its data | `EvaluateProofs` |
| `AtomicLookup` | abstract: a getter as a call that decides its answer from the current ruleset in one step | implemented by `Lookup` |
| `Lookup` | getters and `diagnostics()` while rulesets are published; EXTENDS `Contract` | `MCLookup` (two configurations), `LookupProofs` |
| `Lifecycle` | several processes, crashes and restarts, the cache file, the server; instantiates `Transport` | `MCLifecycle` (two configurations), `LifecycleProofs` |

### Client

Every statement another thread can see is an action: `start()` is `CallStart`, `EnterStart` (the
lock and the `_started` test), `LoadCache`, `RestoreSnapshot`, `CreateThread`, `SpawnThread` or
`SpawnRaises`, `AwaitFirstAttempt`, `CheckReady`, `ReadSnapshot`, `RecheckReady`; `close()` is
`CallClose`, `ReadThread`, `JoinThread`; the poller is `PollLoop`, `Fetch` or `FetchRaises`,
`CheckStop`, `RecordSuccess` or `RecordOther`, `StoreCache`, `PublishSnapshot`, `NoteFresh`,
`SetNetworkReady`, `SetFirstAttempt`, `Backoff`. A section under `_state_lock` is one action: the
lock is never held over a call that blocks. `_start_lock` is held over several steps and is a
variable. The variables carry the fields' names without the underscore.

Abstractions: a body is a record of what verification tells apart; an ETag is the body it came with
(the server names a body by it), or None; the clock gives any reading of a set at any time, so it
may jump in both directions; a Retry-After is one of three classes; a fetch or a wait takes some
time, and both end. `last_fetch_at` is left out: nothing in the code decides by it.

`StoreCache` answers TRUE having put the body, or a truncated body, in the file, or FALSE. That is
what `FileCache` says of `store()`.

`Reply` is the set of exchanges the network may produce; what `_poll_loop` makes of one is
`Transport`'s business.

### Transport

An exchange is a response (a status, a body that fits the size cap or not, the two headers that are
read) or the exception raised instead of one. `FetchRuleset`, `ReadSuccess`, `MapStatus` and
`ParseRetryAfter` are the four functions of `_transport.py`. `Caught` is the `except` clause;
`Uncaught` is the rest: `http.client.HTTPException`, which is neither an `OSError` nor a `ValueError`; the
`TypeError` of a base URL whose scheme has no handler; the `OverflowError` of an infinite timeout; and
the `ValueError` of a malformed base URL, which `Request()` raises before the `try` is entered. urllib is
external: the opener has no redirect handler, so a 3xx is a status like any other.

### Verifier and Verification

`CheckSignature` and `VerifyEnvelope` are in the order of the code, so which code is answered is
part of the model. A signature is "by this key, over exactly these bytes" or not: `_ed25519.py` is
taken as given. A document that nests past the interpreter's limit makes `json.loads` raise
`RecursionError`, which no caller catches; it is a verdict of its own.

`Verification` puts any body in front of any policy and lets the clock advance. `LiveVerdict` and
`CacheVerdict` are the two calls the client makes: `_record`'s, which enforces expiry, and
`_load_cache`'s, which does not. The properties compare the two, and each with itself later.

### FileCache

A directory entry names an inode; a descriptor keeps its inode whatever the name does. Each system
call of `store()` may fail and go down the error path. `Crash` may come between any two. The
descriptor's number may be given to another thread's file once it is closed (`ReuseDescriptor`).
`ShortWrites` says whether `os.write` may write less than it is given: TRUE in the runs, any in the
proofs.

`AtomicFile` is what a caller may rely on: of a store, one step exchanges the file (for the envelope,
or, with short writes, for a truncated one), or none does and the answer is FALSE; of a load, one step
takes what it gives; a kill ends a call before its step or after it. `Stage` says whether a store or a
load is under way in the abstract, `Seen` what a load that has a file open will give. The step that
counts is `Replace` of a store and `Open` of a load: before the first the temporary file is nobody
else's, and after the second the inode is not written again, which is what has to be proved.

### Backoff

Times are integers, in tenths of a second; a jittered delay is the range the draw is from. The
limits at which Python raises (`float()`, `int()`, `Event.wait()`) are constants, of which
`BackoffAssumption` says that a wait can be as long as the cap with its jitter (`threading.TIMEOUT_MAX`
is weeks at least). NaN and Inf are model values. `header` remembers the Retry-After of the last
outcome, for the properties.

The docstring of the hint (`_backoff.py:51-54`) says that a hostile Retry-After must not disable updates
until a restart. `NeverPastCeiling` says where the code keeps that and where it does not: after a failure
the poller is alive and its wait is within the cap and its jitter, unless the Retry-After is one that
`int()` still reads (up to 4300 digits) and `float()` cannot hold; that one ends the poller.
`MCBackoffHint.cfg` shows it doing so.

### Evaluate and Lookup

A rule's conditions, a version, a gate and a JSON value are records; a text is an atom with its split
at the dots and the texts it contains. The bucket of a context key and a flag is a constant function
into 0..99, or `Unencodable` for a key that has no UTF-8 form: SHA-256 is taken as given.
`FirstMatch` sums up the walk by the operators of the code: the least rule that has an answer gives
it, and the default does when none has.

`Contract` says the same again without them, in the words of the docstrings of `_semver.py` and
`evaluate_flag`, so that a slip in the version comparison, the gate or the decoding is not made on
both sides. A version is older than another at the first place where their pieces differ, missing
pieces being 0; a text can be compared when every piece has one to ten digits; a gate of n lets in the
buckets 0..n-1; a kind carries the JSON types of a set; and `Promised` relates a flag, a context and a
result: some rule gives it and none before it gives anything or breaks, or none does and the default
gives it. Of `Evaluate` it uses the data only.

`Lookup` is the code's own loop. A getter is `CallGetter`, `ReadSnapshot` (one read, and the checks on
it), `NextRule` once per rule, `FallToDefault`, `Count` (the counter, and the getter's type test);
`diagnostics()` is two steps, the snapshot and the state. The poller's `Publish` and `Note` fall between
any two of them. `AnswersFirstMatch` is about the moment a call returns: its value is what `Contract`
promises for the ruleset it read. An exception leaves the call without a count.

`AtomicLookup` is the promise: a getter asks; at some point of the call the ruleset current there
decides the whole answer; the call returns it, and is counted in that step. The refinement mapping lets
`ReadSnapshot` decide: `Seen` is what a call holds from then on, and its return must show what
`Answer`, by `FirstMatch`, gives in it, however many steps the walk took and whatever was published
meanwhile. `Shown` hides an answer until the call returns.

### Lifecycle

Here time is long: a ruleset is its version number, and what `Client` does in a dozen steps is taken
in the steps a crash, another process or the server can fall between: `Load`, `Receive` (the answer is
settled at the server, and lands later), `Land` (verification), `StoreCache`, `Publish`, `Note`, `Wait`,
and `Crash` at any of them. `Reach` is a request an honest server answers: 304 exactly when the ETag
sent is of the ruleset exported. `Miss` is every other: a corrupted body, a status, an exception. The
server exports one version after another, and old versions expire. A store may fail, or be cut
short unnoticed. What `Client`'s and `FileCache`'s runs and proofs establish is built in: one
poller per process, and a file that is a register of whole or truncated envelopes.

`offered`, `seen`, `certified` and `writer` are history: no action's guard reads them.

## Runs

All `MCClient` runs disable the deadlock check: an application thread really can wait for ever once
the poller is gone, and a system where everyone has returned really may stop. `MCBackoff` and
`MCVerifier` likewise stop (the poller died; the clock is at its last reading). `MCFileCache` keeps
the check. In `MCLookup` the application may stop asking, in `MCLifecycle` every poller may be dead.

| Run | Shows | Bounds, and why they are enough |
|---|---|---|
| `client` | the safety properties, that no waiting `start()` is forgotten, one poller, what `close()` is final for, when a `start()` may answer TIMED_OUT, and that `Client` implements `Cascade`, with a cache file of any content | two callers: every race is between two calls, or a call and the poller; two good bodies and one that cannot be parsed: the ETag and file properties need a new one and an old one, the cascade one that must not be shown; two clock readings, one past expiry; the failure count saturates at 1, because the code only compares it with 0; of the failures a revoked key stands for the statuses that change nothing, which `_record` treats alike (`fetch_raises` and `convergence` have them all) |
| `client_liveness` | calls return, `close()` ends the poller | one body, no cache: neither decides whether a thread is blocked; the overflow hint is in, as it ends the thread |
| `verifier` | fail closed, expiry asymmetry, the window, bad trust store entries | readings one second either side of each edge; a good, a wrong-size and an unknown key |
| `file_cache` | that `FileCache` implements `AtomicFile`, kills, failures and short writes included; no leaks | two processes: every interference is pairwise; four inodes: the file, one temporary file each, and one left by a crash or still being read |
| `backoff` | load bound, growth, ceiling and what ends the poller, floor | twelve failures: the cap is reached at eleven; hints below, amid and past the schedule and past each limit |
| `lookup` | that `Lookup` implements `AtomicLookup`; diagnostics one publication ahead at most | two readers, as they interact only through counters; two publications: the ruleset read, and one that replaces it in mid-walk, twice; four rulesets, each the hazard of another: order of rules, answer, kind, presence |
| `evaluation` | the walk against `Contract`'s `Promised`, ramping up, counters | one reader, nothing published (what publications do to a call is `lookup`'s question); every condition of nine operators and three values on six tag texts (equal, padded, smaller, not a version, a piece of ten and one of eleven digits), every value type, gates 0, 50 and none, buckets 49 and 50 and a key without one |
| `lifecycle` | 304s, restarts, outages, no going back | two processes on one path; two rulesets, old and new; one crash, at any step; the proofs hold for any number of each |
| `convergence` | a change arrives | one process (the others reach it through the file only, which `lifecycle` has); three rulesets, two crashes, every status and exception the mapping tells apart |

Three more runs, each with one property quoted from a comment or the README, show where code and text
part. Each is a finding in `PROJECT.json`, with the quoted line:

| Run | The text says | What the run shows |
|---|---|---|
| `fetch_raises` | every failure becomes backoff, a malformed base URL included | a broken response, or the malformed URL, raises out of `fetch_ruleset` and ends the poller |
| `start_hangs` | `start()` blocks until the first attempt completes | on a closed client the event is never set |
| `getter_raises` | evaluation never raises | `float()` of a huge integer, and `encode()` of a lone surrogate, leave the getter |

Others are stated in the modules, each with a configuration that refutes it, outside the list of runs:

| Property | Configuration | What it shows |
|---|---|---|
| `Client.CloseNeverRaises` | `MCClientClose.cfg` | `close()` is "safe before start", and joins a thread that `start()` has created and not started |
| `Client.StartNeverRaises` | `MCClientStart.cfg` | a cache file that nests too deeply makes `start()` raise |
| `Client.TimedOutServesDefaults` | `MCClientTimedOut.cfg` | a timeout between publication and ready event answers TIMED_OUT while the ruleset is served |
| `FileCache.NeverTruncated` | `MCFileCacheTorn.cfg` | a short write is not noticed, and replaces the good envelope |
| `FileCache.NeverClosesAnothersFile` | `MCFileCacheFd.cfg` | when the replace fails, the descriptor's number is closed a second time |
| `Backoff.IntervalIsFloored` | `MCBackoffFloor.cfg` | nan and inf pass the floor, and the wait returns at once |
| `Backoff.HintNeverEndsPolling` | `MCBackoffHint.cfg` | a Retry-After past the doubles raises before the cap |
| `Backoff.SpreadsEveryDelay` | `MCBackoffSpread.cfg` | a server hint is waited for without jitter |
| `Lifecycle.RestartNeverRollsBack` | `MCLifecycleShared.cfg` | a slow writer on a shared `cache_path` takes another process back at its restart; the code promises nothing here |

A related remark without a run: `_backoff.py` calls 1800 s "the ceiling", and jitter is applied after
the cap, so a wait may be 2160 s; `NeverPastCeiling` states the bound the code keeps.

The mutants in the modules are marked "Mutant of X": each is a plausible slip in X, and
`PROJECT.json` names the property that catches it. `AnswersFirstMatch` also catches, each by itself, a
gate tested with `>`, a limit of nine or eleven digits, and a `semver_gte` that leaves out the equal.

### Fairness

`FairSpec` gives weak fairness to the poller as a whole and to each caller inside a call. The first
is justified because a runnable thread is scheduled, and because its fetch and its wait are bounded
(a socket timeout; at most the cap); the second because a caller inside a call blocks only on
`_start_lock` (held for a bounded time), on the first-attempt event (its guard) and on a join with a
timeout. Nothing obliges the application to call anything, or the network to answer well.
`StartReturnsUnlessPollerGone` names its exceptions because the code has them: a closed client, a
dead poller, a failed launch. In the model a bounded socket timeout stands for an end of the fetch;
a server that trickles bytes within the timeout can prolong one fetch in reality.

`Lifecycle`'s `FairSpec` gives weak fairness to a process's own steps, for the same reasons, and strong
fairness to `Reach`: a server that is asked for ever is, now and then, reached. That is an assumption
about the world and not about the code; without it nothing can arrive. Nothing obliges the server to
export, rulesets to expire, or a process to start or crash. `Converges` excepts a ruleset that is
replaced or expires before it is fetched, and a dead poller (`fetch_raises`).

## Proofs

`ClientProofs` proves, for any set of callers, bodies and clock readings, that `Inductive` is an
invariant, and from it every property of the run `client`, `ImplementsCascade` included.
`Inductive` adds to the properties what they rest on:

- `LaunchInv`: at most one caller is launching, it holds `_start_lock`, and the thread exists
  exactly when the launch is over. This is why the cache load cannot displace a network snapshot.
- `BeforePoller`: until then nothing has come from the network, and a body about to be restored has
  been verified.
- `AttemptInv`: at each point of an attempt, what the outcome, the store's answer, the file and the
  snapshot have to do with one another. This is what carries "verified" from the check to the
  publication, three steps later, and the body from the publication to the ETag.
- `ReportInv`: what was answered or noted stays true.
- `WaiterInv`: nobody waits before the launch, and the poller neither rests nor leaves before the
  attempt is announced, except when stopped. It makes `WaiterIsRemembered` (no lost wake-up) the safety
  half of `StartReturnsUnlessPollerGone`: whoever waits is waiting for a step that fairness will bring.

`NothingAfterClose` (the property `CloseIsFinal`) is an action property of the same invariant. It has no
exception for a `close()` before or during the launch, and so says what `close()` is final for: the
file, the ETag, the status, the failures and the ready event, as long as no attempt is being recorded.
For the cache it is not: a `start()` that is launching, or the first one after the `close()`, still loads
it (`_client.py:149-152`, `229-234`), and `CacheLoaded` is that one change, of `cache_state` and from
nothing served to what is in the file. That nothing else can happen then rests on `LaunchInv`.

`TimedOutOnlyEarly` proves `TimedOutIsEarly`: a `start()` that answers TIMED_OUT has nothing to serve, or
answers between the publication of a ruleset and its ready event (`MCClientTimedOut.cfg` shows that
gap). `RecheckInv` is what it adds: a caller at the second look at the ready event came there because
it saw no snapshot from the cache, so a snapshot then is from the network, and its event is set unless
the poller is between the two.

One lemma per part shows it preserved by every step. `StepCases` gives the split they share: a step
that touches only a caller's own (`Quiet`), the six steps of a launch, the poller, or stuttering.
What a fetch may answer is cited from `TransportProofs`. The assumption is `ClientAssumption` (types of
the constants; None and Torn are not bodies).

`TransportProofs` proves what an outcome lets the poller conclude about any exchange: a body and an
ETag come only of a 200 within the size cap, a confirmation only of a 304, a hint only of a 429.

`FileCacheProofs` proves, for any number of processes and inodes, the inductive invariant (who holds
which file and descriptor where; which files are apart; what is in a file about to be published), and
from it type correctness, `CleanupSparesCache`, `NothingHeldWhenIdle`, `ReadSeesOneFile` (what a load has
open does not change under it) and, with or without short writes, that `FileCache` implements
`AtomicFile`: one lemma per system call says which abstract step it is, or that it is none. Assuming
there are no short writes, `WholeWithoutShortWrites` proves `NeverTruncated`; `MCFileCacheTorn.cfg` shows
that the assumption is needed.

`VerificationProofs` proves the five properties of the run `verifier`, and type correctness, for any bodies, policies, clock
readings and environment. The checks before the two clock checks look neither at the clock nor at
`enforce_expiry`: `StaticVerdict` is what they come to, and `LiveFactors` and `CacheFactors` show
that either verdict is `StaticVerdict` followed by its clock checks. The rest follows: what the two
share, what the window is, and that time alone only turns "issued in the future" into acceptance.
The assumption is `VerificationAssumption` (bodies are envelopes; a policy is one of the two
helpers'; times are integers).

`LookupProofs` proves, for any rulesets, readers and calls, that a getter answers what `Contract`
promises for the ruleset it read (`GettersKeepPromise`): `ReturnsAnswer` shows that what is returned is
`FirstMatch`, and `FirstMatchIsPromised` of `EvaluateProofs` that this is the promise. `HeldInv` says how
far a call got in the checks of the ruleset it holds; `WalkInv` that the rules behind the loop had no answer, so that the
one it stops at is the least; `ReportInv` bounds how far a diagnostics record is apart. That the
counters agree with what was given rests on `WalkInv` too: a served value is of the type the getter
asked for. `CohortsOnlyGrow` joins this with `RolloutIsMonotonic` of `EvaluateProofs`, which is about
`FirstMatch` alone. `GettersLinearize` is the refinement of `AtomicLookup`: `ReadSnapshotDecides` shows
that the read of the snapshot is the abstract decision, and `NextRuleIsAtomic`, `FallToDefaultIsAtomic`
and `CountReturns` that the loop comes to the answer decided there. The assumptions are
`EvaluateAssumption` and `LookupAssumption` (types of the constants).

`EvaluateProofs` is about one flag, for any rules and contexts. The version comparison is a preorder for
any length; so the five version operators agree with each other, and an upgrade keeps every lower
bound. `FirstMatchIsPromised` joins the operators of the code to those of `Contract`, a lemma each:
`OlderIsLess` for the comparison, `MeantIsHolds` for a condition, `DeliveredIsDecoded` for a value,
`RuleKeepsPromise` for a rule with its gate. `SilentRuleIsInert` says that a rule without an answer might as well be taken out of the flag;
from it follow that a gate of 0 is no rule (`ZeroGateIsNoRule`) and that an unknown operator or a
missing tag degrades to the later rules (`UnknownFailsClosed`). `FirstAnswerDecides` says that nothing
behind the first rule with an answer matters, `FullGateIsNoGate` and `ConditionsOnlyNarrow` what a
rule's gate and conditions can do. The theorems on gates suppose a key that has a bucket: with
`Unencodable` the getter raises (`getter_raises`).

`LifecycleProofs` proves the five properties of `lifecycle` for any processes, failures, and
numbers of rulesets and crashes. `Inductive` adds: nothing is ahead of the server (`NothingAhead`); a
ruleset under way is no older than anything the process ever served, since the answer was settled
after that was published (`RulesetUnderWay`); between publication and note the ETag may lag, and at
no other point (`EtagNamesServed`), which is why a 304 tells the truth. `RestartResumes` is what is true of
`RestartNeverRollsBack`, which `MCLifecycleShared.cfg` refutes: it holds of a file the process itself
replaced last.

`BackoffProofs` proves the five properties of `backoff` for any intervals, hints and limits, by
`DelayInv`: which delay function the wait at hand came from. `AsksAgainInTime` is `NeverPastCeiling` with
its exception, and rests on the assumption that a wait can be as long as the ceiling. The doublings before the cap are ten
numbers, so `Doubling` states them one by one, and the rest is linear. `FloorHolds` assumes that the
configured interval is a number; `MCBackoffFloor.cfg` shows that the assumption is needed.

Only model-checked: the liveness properties, `CallReturns`, `StartReturnsUnlessPollerGone`,
`CloseEndsPoller` of `Client` and `Converges` of `Lifecycle` (fairness is out of
the prover's reach). The bounds of their runs are all there is for them.

## How to check

    tlc -workers 2 -config MCClient.cfg MCClient
    tlapm ClientProofs.tla

and likewise for the other runs of `PROJECT.json` (module and configuration are named there) and the
other proof modules. The `client`, `client_liveness` and `lifecycle` runs take two to three minutes
each, `evaluation` a little over one, the others less.

## Not modelled

- Ed25519 (255-bit field arithmetic) and the value of the SHA-256 bucket: taken as given, as what
  they decide.
- Functions of text that change no state: `parse_key`, `key_prefix`, RFC 3339 times, base64url, the
  shape checks of `parse_flag_config`. A payload whose flags cannot be walked is one that does not
  parse.
- What `diagnostics()` reports beyond the order of its reads; `last_fetch_at`.
- The state of a disk after power loss: the code does not sync, and promises nothing.
- `Lifecycle` with `close()`, and `Client` over `FileCache` step by step: the two are joined by what
  `FileCache` is proved to do. One module with both has too many states to check, and would repeat
  both.
- A clock that goes back, in `Lifecycle`: a body "issued in the future" is refused in `Client` and
  `Verification`, and `Lifecycle` takes the clock to be monotone. It also takes the server to be honest:
  a signed ruleset of an earlier day, replayed within its window, would be served.
- `start()` with a timeout past `threading.TIMEOUT_MAX`, an `OSError` while a load reads (it ends the
  load as a missing file does), a `cache_path` with a NUL byte.
- The example program and the package's re-exports.
