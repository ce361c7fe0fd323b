------------------------------ MODULE Backoff -------------------------------
(***************************************************************************)
(* How long the poller waits (_backoff.py, and the delay that _poll_loop   *)
(* chooses): one client over any sequence of fetch outcomes.               *)
(*                                                                         *)
(* Times are in tenths of a second.  A jittered delay is a range: the      *)
(* random draw is somewhere in it.  The floats of the code are exact on    *)
(* the values that matter here; NaN and Inf are the two that are not       *)
(* numbers of any size.                                                    *)
(***************************************************************************)
EXTENDS Integers

CONSTANTS
  Interval,      \* configured poll intervals: integers, NaN or Inf
  Seconds,       \* the numbers a Retry-After header may spell in digits
  NaN, Inf,      \* float("nan"), float("inf")
  MAX_DOUBLE,    \* float() of an integer past it raises OverflowError
  MAX_DIGITS,    \* int() of a numeral past it (4300 digits) raises ValueError
  MAX_WAIT,      \* Event.wait() for longer raises OverflowError
  MaxFailures    \* bound: failures in a row

BACKOFF_CAP == 18000
BACKOFF_BASE == 20
MINIMUM_POLL_INTERVAL == 300

(* The longest wait a failure may bring: the cap, jittered.                 *)
BACKOFF_CEILING == BACKOFF_CAP + BACKOFF_CAP \div 5

(* threading.TIMEOUT_MAX is weeks at least.                                 *)
ASSUME BackoffAssumption ==
  /\ Interval \ {NaN, Inf} \subseteq Int /\ NaN # Inf
  /\ NaN \notin Int /\ Inf \notin Int
  /\ Seconds \subseteq Nat
  /\ MAX_DOUBLE \in Nat /\ MAX_DIGITS \in Nat /\ MAX_DOUBLE < MAX_DIGITS
  /\ MAX_WAIT \in Nat /\ BACKOFF_CEILING <= MAX_WAIT
  /\ MaxFailures \in Nat \ {0}

VARIABLES
  interval,   \* the resolved poll_interval_s
  failures,   \* _consecutive_failures
  poller,     \* "polling", "waiting", or "died"
  header,     \* the Retry-After of the last outcome, or NoHeader
  delay,      \* the wait chosen last: its least and its greatest length
  waited,     \* the least time waited since the last success
  hinted      \* some wait since the last success was the server's choice

vars == <<interval, failures, poller, header, delay, waited, hinted>>

NoHeader == -1
Lesser(a, b) == IF a <= b THEN a ELSE b
Exactly(t) == [low |-> t, high |-> t]

TypeOK ==
  /\ interval \in Int \cup {NaN, Inf}
  /\ failures \in 0..MaxFailures
  /\ poller \in {"polling", "waiting", "died"}
  /\ header \in Seconds \cup {NoHeader}
  /\ delay \in [low : Nat, high : Nat]
  /\ waited \in Nat
  /\ hinted \in BOOLEAN

-----------------------------------------------------------------------------
(* Mutant of Resolve: no floor.                                             *)
AsConfigured(configured) == configured

(* max(poll_interval_s, floor): 30 > nan is false, so nan is kept.          *)
Resolve(configured) ==
  IF configured \in {NaN, Inf} \/ configured > MINIMUM_POLL_INTERVAL
  THEN configured
  ELSE MINIMUM_POLL_INTERVAL

(* inf - inf is nan, and a draw between nan and anything is nan; a wait for *)
(* nan seconds returns at once.                                             *)
Jittered(t) ==
  IF t \in {NaN, Inf}
  THEN Exactly(0)
  ELSE [low |-> t - t \div 5, high |-> t + t \div 5]

(* Mutant of RetryDelay: the delay grows by a step, not by doubling.         *)
LinearDelay(n) == Jittered(Lesser(BACKOFF_BASE * n, BACKOFF_CAP))

(* Eleven doublings are past the cap: the larger powers are not computed.   *)
RetryDelay(n) ==
  IF n <= 0
  THEN Exactly(0)
  ELSE Jittered(Lesser(BACKOFF_BASE * 2^Lesser(n - 1, 10), BACKOFF_CAP))

PollDelay(t) == Jittered(t)

(* Mutant of RetryDelayWithServerHint: the server is always right.          *)
UncappedHint(seconds, n) == Exactly(10 * seconds)

(* Only for seconds up to MAX_DOUBLE: beyond, the call raises.              *)
RetryDelayWithServerHint(seconds, n) ==
  IF seconds <= 0
  THEN RetryDelay(n)
  ELSE Exactly(Lesser(10 * seconds, BACKOFF_CAP))

(* Anything but ASCII digits, a date included, counts as no hint.           *)
ParseRetryAfter(text) ==
  IF text = NoHeader \/ text > MAX_DIGITS THEN 0 ELSE text

-----------------------------------------------------------------------------
Init ==
  /\ \E configured \in Interval : interval = Resolve(configured)
  /\ failures = 0
  /\ poller = "polling"
  /\ header = NoHeader
  /\ delay = Exactly(0)
  /\ waited = 0
  /\ hinted = FALSE

(* A fresh ruleset or a 304.                                                *)
Succeed ==
  /\ poller = "polling"
  /\ failures' = 0
  /\ header' = NoHeader
  /\ delay' = PollDelay(interval)
  /\ poller' = "waiting"
  /\ waited' = 0 /\ hinted' = FALSE
  /\ UNCHANGED interval

(* Every other outcome but 429, a rejected envelope included.               *)
Fail ==
  /\ poller = "polling" /\ failures < MaxFailures
  /\ failures' = failures + 1
  /\ header' = NoHeader
  /\ delay' = RetryDelay(failures')
  /\ poller' = "waiting"
  /\ UNCHANGED <<interval, waited, hinted>>

(* A 429, with or without a Retry-After the client understands.             *)
RateLimited ==
  /\ poller = "polling" /\ failures < MaxFailures
  /\ failures' = failures + 1
  /\ header' \in Seconds \cup {NoHeader}
  /\ LET seconds == ParseRetryAfter(header')
     IN IF seconds > MAX_DOUBLE
        THEN poller' = "died" /\ UNCHANGED <<delay, hinted>>
        ELSE /\ poller' = "waiting"
             /\ delay' = IF seconds > 0
                         THEN RetryDelayWithServerHint(seconds, failures')
                         ELSE RetryDelay(failures')
             /\ hinted' = (hinted \/ seconds > 0)
  /\ UNCHANGED <<interval, waited>>

(* The stop event's wait runs out, or is asked for more than it can count.  *)
Wait ==
  /\ poller = "waiting"
  /\ \/ delay.low <= MAX_WAIT /\ poller' = "polling"
     \/ delay.high > MAX_WAIT /\ poller' = "died"
  /\ waited' = IF failures = 0 THEN 0 ELSE waited + delay.low
  /\ UNCHANGED <<interval, failures, header, delay, hinted>>

Next == Succeed \/ Fail \/ RateLimited \/ Wait

Spec == Init /\ [][Next]_vars

-----------------------------------------------------------------------------
(* The waits that followed the failures in a row so far.                    *)
Waits == IF poller = "waiting" /\ failures > 0 THEN failures - 1 ELSE failures

(* The first job of backoff, not to hammer a failing backend: n failures in *)
(* a row take at least n seconds whatever mixture of errors and server      *)
(* hints they are; and without hints, 1.6 * (2^n - 1) seconds, the sum of   *)
(* the doubled waits at their shortest, until the cap.                      *)
LoadBound ==
  poller # "died" =>
    /\ waited >= 10 * Waits
    /\ ~hinted => waited >= 16 * (2^Lesser(Waits, 10) - 1)

(* After every failure the client asks again within the cap and its jitter, *)
(* with one exception, which the docstring of the hint (_backoff.py:51-54)  *)
(* does not make: a Retry-After that int() still reads and float() cannot   *)
(* hold ends the poller (_backoff.py:58).  No shorter hint ends it, nor any *)
(* longer one, nor the wait after a failure; and a routine wait ends it     *)
(* only for an interval longer than a wait can be.                          *)
NeverPastCeiling ==
  /\ failures > 0 =>
       IF MAX_DOUBLE < header /\ header <= MAX_DIGITS
       THEN poller = "died"
       ELSE poller # "died" /\ delay.high <= BACKOFF_CEILING
  /\ failures = 0 /\ poller = "died" => delay.high > MAX_WAIT

(* An outage does not outlive itself: as long as the server gives no hint,  *)
(* the next wait is the longer, up to the cap, and never shrinks.           *)
WaitsGrow ==
  [][failures' = failures + 1 /\ failures > 0 /\ ~hinted' /\ poller' = "waiting" =>
       \/ delay'.low >= 2 * delay.low
       \/ delay'.low = BACKOFF_CAP - BACKOFF_CAP \div 5]_vars

(* The poll interval is "floored at the contract's 30, jittered": a routine *)
(* wait is never shorter than 24 seconds, unless the interval is no number. *)
IntervalIsFloored ==
  failures = 0 /\ poller = "waiting" =>
    delay.low >= MINIMUM_POLL_INTERVAL - MINIMUM_POLL_INTERVAL \div 5

-----------------------------------------------------------------------------
(* The inductive strengthening: where the wait at hand comes from.          *)
DelayInv ==
  /\ interval \in {NaN, Inf} \/ interval >= MINIMUM_POLL_INTERVAL
  /\ failures = 0 /\ poller = "waiting" => delay = PollDelay(interval)
  /\ failures > 0 /\ poller # "died" => delay.low >= 10
  /\ failures > 0 /\ poller # "died" /\ ~hinted => delay = RetryDelay(failures)

Inductive == TypeOK /\ DelayInv /\ LoadBound /\ NeverPastCeiling

-----------------------------------------------------------------------------
(* What the code's comments say and the code does not do                   *)

(* The jitter fraction "spreads every delay": no two processes that failed  *)
(* together are bound to come back together.                                *)
SpreadsEveryDelay == poller = "waiting" => delay.low < delay.high

(* A hostile Retry-After "must not silently disable flag updates for a      *)
(* process until it restarts".                                              *)
HintNeverEndsPolling == poller # "died"
=============================================================================
