--------------------------- MODULE BackoffProofs ----------------------------
(***************************************************************************)
(* Proofs about Backoff, for any intervals, hints and bound on failures.   *)
(***************************************************************************)
EXTENDS Backoff, TLAPS

USE DEF BACKOFF_CAP, BACKOFF_BASE, MINIMUM_POLL_INTERVAL

-----------------------------------------------------------------------------
(* The schedule                                                            *)

(* The doublings that come before the cap.                                  *)
Doubled(e) == 2^e

(* Helper: their values.                                                    *)
LEMMA Doubling ==
  /\ Doubled(0) = 1 /\ Doubled(10) = 1024
  /\ \A e \in 0..9 : Doubled(e) \in 1..512 /\ Doubled(e + 1) = 2 * Doubled(e)
<1>1. /\ Doubled(0) = 1 /\ Doubled(1) = 2 /\ Doubled(2) = 4 /\ Doubled(3) = 8
      /\ Doubled(4) = 16 /\ Doubled(5) = 32 /\ Doubled(6) = 64 /\ Doubled(7) = 128
      /\ Doubled(8) = 256 /\ Doubled(9) = 512 /\ Doubled(10) = 1024
  BY SMT DEF Doubled
<1>2. ASSUME NEW e \in 0..9
      PROVE  Doubled(e) \in 1..512 /\ Doubled(e + 1) = 2 * Doubled(e)
  <2>1. \/ e = 0 \/ e = 1 \/ e = 2 \/ e = 3 \/ e = 4
        \/ e = 5 \/ e = 6 \/ e = 7 \/ e = 8 \/ e = 9
    OBVIOUS
  <2>2. QED
    BY <1>1, <2>1
<1>3. QED
  BY <1>1, <1>2

(* The n-th wait doubles the first, 1.6 to 2.4 seconds, up to the cap's.    *)
LEMMA Schedule ==
  ASSUME NEW n \in Nat \ {0}
  PROVE  /\ n <= 10 => RetryDelay(n) = [low |-> 16 * Doubled(n - 1), high |-> 24 * Doubled(n - 1)]
         /\ n > 10 => RetryDelay(n) = [low |-> 14400, high |-> 21600]
<1>0. RetryDelay(n) = Jittered(Lesser(20 * Doubled(Lesser(n - 1, 10)), 18000))
  BY DEF RetryDelay, Doubled
<1>1. CASE n <= 10
  <2>1. n - 1 \in 0..9 /\ Lesser(n - 1, 10) = n - 1
    BY <1>1 DEF Lesser
  <2>2. PICK t \in 1..512 : t = Doubled(n - 1)
    BY <2>1, Doubling
  <2>3. Lesser(20 * t, 18000) = 20 * t
    BY <2>2 DEF Lesser
  <2>4. RetryDelay(n) = Jittered(20 * t)
    BY <1>0, <2>1, <2>2, <2>3
  <2>5. 20 * t \notin {NaN, Inf} /\ (20 * t) \div 5 = 4 * t
    BY <2>2, BackoffAssumption
  <2>6. RetryDelay(n) = [low |-> 16 * t, high |-> 24 * t]
    BY <2>2, <2>4, <2>5 DEF Jittered
  <2>7. QED
    BY <1>1, <2>2, <2>6
<1>2. CASE n > 10
  <2>1. Lesser(n - 1, 10) = 10
    BY <1>2 DEF Lesser
  <2>2. Lesser(20 * 1024, 18000) = 18000
    BY DEF Lesser
  <2>3. RetryDelay(n) = Jittered(18000)
    BY <1>0, <2>1, <2>2, Doubling
  <2>4. 18000 \notin {NaN, Inf}
    BY BackoffAssumption
  <2>5. RetryDelay(n) = [low |-> 14400, high |-> 21600]
    BY <2>3, <2>4 DEF Jittered
  <2>6. QED
    BY <1>2, <2>5
<1>3. QED
  BY <1>1, <1>2

(* Helper: every wait after a failure is a second at least, and the cap     *)
(* with its jitter at most.                                                 *)
LEMMA ScheduleBounds ==
  ASSUME NEW n \in Nat \ {0}
  PROVE  /\ RetryDelay(n) \in [low : Nat, high : Nat]
         /\ RetryDelay(n).low >= 10 /\ RetryDelay(n).high <= 21600
<1>1. CASE n <= 10
  <2>1. n - 1 \in 0..9
    BY <1>1
  <2>2. PICK t \in 1..512 : t = Doubled(n - 1)
    BY <2>1, Doubling
  <2>3. RetryDelay(n) = [low |-> 16 * t, high |-> 24 * t]
    BY <1>1, <2>2, Schedule
  <2>4. QED
    BY <2>2, <2>3
<1>2. CASE n > 10
  BY <1>2, Schedule
<1>3. QED
  BY <1>1, <1>2

-----------------------------------------------------------------------------
(* The run                                                                 *)

(* Helper: the load bound in the terms of Doubled.                          *)
LEMMA LoadBoundIs ==
  LoadBound <=>
    (poller # "died" =>
       /\ waited >= 10 * Waits
       /\ ~hinted => waited >= 16 * (Doubled(Lesser(Waits, 10)) - 1))
BY DEF LoadBound, Doubled

LEMMA InductiveInit == Init => Inductive
<1> SUFFICES ASSUME Init PROVE Inductive
  OBVIOUS
<1>1. PICK configured \in Interval : interval = Resolve(configured)
  BY DEF Init
<1>2. configured \in Int \cup {NaN, Inf}
  BY BackoffAssumption
<1>3. interval \in {NaN, Inf} \/ (interval \in Int /\ interval >= 300)
  <2>1. CASE configured \in {NaN, Inf}
    BY <1>1, <2>1 DEF Resolve
  <2>2. CASE configured \in Int /\ configured \notin {NaN, Inf}
    <3>1. interval = IF configured > 300 THEN configured ELSE 300
      BY <1>1, <2>2 DEF Resolve
    <3>2. QED
      BY <2>2, <3>1
  <2>3. QED
    BY <1>2, <2>1, <2>2
<1>4. delay = [low |-> 0, high |-> 0] /\ failures = 0 /\ waited = 0
      /\ poller = "polling" /\ hinted = FALSE /\ header = NoHeader
  BY DEF Init, Exactly
<1>5. Waits = 0 /\ Lesser(0, 10) = 0 /\ Doubled(0) = 1
  BY <1>4, Doubling DEF Waits, Lesser
<1>6. TypeOK
  <2>1. interval \in Int \cup {NaN, Inf}
    BY <1>3, Zenon
  <2>2. failures \in 0..MaxFailures /\ delay \in [low : Nat, high : Nat] /\ waited \in Nat
    BY <1>4, BackoffAssumption
  <2>3. QED
    BY <1>4, <2>1, <2>2, Zenon DEF TypeOK
<1>7. DelayInv /\ NeverPastCeiling
  BY <1>3, <1>4 DEF DelayInv, NeverPastCeiling
<1>8. LoadBound
  BY <1>4, <1>5, LoadBoundIs
<1>9. QED
  BY <1>6, <1>7, <1>8 DEF Inductive

(* Helper: a routine wait is four fifths of the interval at least.          *)
LEMMA PollDelayBounds ==
  ASSUME NEW t \in Int \cup {NaN, Inf}, t \in {NaN, Inf} \/ t >= 300
  PROVE  /\ PollDelay(t) \in [low : Nat, high : Nat]
         /\ t \notin {NaN, Inf} => PollDelay(t).low >= 240
<1>1. CASE t \in {NaN, Inf}
  BY <1>1 DEF PollDelay, Jittered, Exactly
<1>2. CASE t \notin {NaN, Inf}
  <2>1. t \in Int /\ t >= 300 /\ t \div 5 \in Int /\ 5 * (t \div 5) <= t /\ t \div 5 >= 0
    BY <1>2
  <2>2. PollDelay(t) = [low |-> t - t \div 5, high |-> t + t \div 5]
    BY <1>2 DEF PollDelay, Jittered
  <2>3. QED
    BY <2>1, <2>2
<1>3. QED
  BY <1>1, <1>2

LEMMA SucceedPreserves == Inductive /\ Succeed => Inductive'
<1> SUFFICES ASSUME Inductive, Succeed PROVE Inductive'
  OBVIOUS
<1>1. TypeOK /\ DelayInv
  BY DEF Inductive
<1>2. /\ failures' = 0 /\ delay' = PollDelay(interval) /\ poller' = "waiting"
      /\ waited' = 0 /\ hinted' = FALSE /\ interval' = interval /\ header' = NoHeader
  BY DEF Succeed
<1>3. PollDelay(interval) \in [low : Nat, high : Nat]
  BY <1>1, PollDelayBounds DEF TypeOK, DelayInv
<1>4. TypeOK'
  <2>1. failures' \in 0..MaxFailures /\ waited' \in Nat
    BY <1>2, BackoffAssumption
  <2>2. QED
    BY <1>1, <1>2, <1>3, <2>1, Zenon DEF TypeOK
<1>5. DelayInv' /\ NeverPastCeiling'
  BY <1>1, <1>2 DEF DelayInv, NeverPastCeiling
<1>6. Waits' = 0
  BY <1>2 DEF Waits
<1>7. Lesser(0, 10) = 0 /\ Doubled(0) = 1
  BY Doubling DEF Lesser
<1>8. LoadBound'
  <2>1. (poller # "died" =>
           /\ waited >= 10 * Waits
           /\ ~hinted => waited >= 16 * (Doubled(Lesser(Waits, 10)) - 1))'
    BY <1>2, <1>6, <1>7
  <2>2. QED
    BY <2>1 DEF LoadBound, Doubled
<1>9. QED
  BY <1>4, <1>5, <1>8 DEF Inductive

(* Helper: what a step has to say of the types when it leaves two alone.    *)
LEMMA TypesKept ==
  ASSUME TypeOK, interval' = interval, waited' = waited, failures' \in 0..MaxFailures,
         poller' \in {"polling", "waiting", "died"}, delay' \in [low : Nat, high : Nat],
         hinted' \in BOOLEAN, header' \in Seconds \cup {NoHeader}
  PROVE  TypeOK'
BY Zenon DEF TypeOK

(* A failure, hinted or not, whose wait is within bounds.                   *)
LEMMA FailurePreserves ==
  ASSUME Inductive, poller = "polling", failures < MaxFailures, failures' = failures + 1,
         poller' = "waiting", interval' = interval, waited' = waited,
         delay' \in [low : Nat, high : Nat], delay'.low >= 10, delay'.high <= 21600,
         header' \in Seconds \cup {NoHeader}, ~(MAX_DOUBLE < header' /\ header' <= MAX_DIGITS),
         hinted' \in BOOLEAN, ~hinted' => ~hinted /\ delay' = RetryDelay(failures')
  PROVE  Inductive'
<1>1. TypeOK /\ DelayInv /\ LoadBound
  BY DEF Inductive
<1>2. failures \in Nat /\ failures' \in 0..MaxFailures /\ failures' > 0
  BY <1>1, BackoffAssumption DEF TypeOK
<1>3. TypeOK'
  BY <1>1, <1>2, TypesKept
<1>4. DelayInv'
  BY <1>1, <1>2 DEF DelayInv
<1>5. NeverPastCeiling'
  BY <1>2 DEF NeverPastCeiling, BACKOFF_CEILING
<1>6. Waits' = Waits
  BY <1>2 DEF Waits
<1>7. LoadBound'
  <2>1. /\ waited >= 10 * Waits
        /\ ~hinted => waited >= 16 * (Doubled(Lesser(Waits, 10)) - 1)
    BY <1>1, LoadBoundIs
  <2>2. (waited >= 10 * Waits /\ (~hinted => waited >= 16 * (Doubled(Lesser(Waits, 10)) - 1)))'
    BY <1>6, <2>1
  <2>3. QED
    BY <2>2 DEF LoadBound, Doubled
<1>8. QED
  BY <1>3, <1>4, <1>5, <1>7 DEF Inductive

LEMMA FailPreserves == Inductive /\ Fail => Inductive'
<1> SUFFICES ASSUME Inductive, Fail PROVE Inductive'
  OBVIOUS
<1>1. failures \in Nat /\ hinted \in BOOLEAN
  BY DEF Inductive, TypeOK
<1>2. /\ failures' = failures + 1 /\ delay' = RetryDelay(failures') /\ hinted' = hinted
      /\ header' = NoHeader /\ ~(MAX_DOUBLE < NoHeader)
  BY BackoffAssumption DEF Fail, NoHeader
<1>3. failures' \in Nat \ {0}
  BY <1>1, <1>2
<1>4. /\ RetryDelay(failures') \in [low : Nat, high : Nat]
      /\ RetryDelay(failures').low >= 10 /\ RetryDelay(failures').high <= 21600
  BY <1>3, ScheduleBounds
<1>5. QED
  BY <1>1, <1>2, <1>4, FailurePreserves DEF Fail

LEMMA RateLimitedPreserves == Inductive /\ RateLimited => Inductive'
<1> SUFFICES ASSUME Inductive, RateLimited PROVE Inductive'
  OBVIOUS
<1>1. failures \in Nat /\ hinted \in BOOLEAN /\ TypeOK /\ DelayInv
  BY DEF Inductive, TypeOK
<1> DEFINE seconds == ParseRetryAfter(header')
<1>2. /\ header' \in Seconds \cup {NoHeader}
      /\ IF seconds > MAX_DOUBLE
         THEN poller' = "died" /\ UNCHANGED <<delay, hinted>>
         ELSE /\ poller' = "waiting"
              /\ delay' = IF seconds > 0
                          THEN RetryDelayWithServerHint(seconds, failures')
                          ELSE RetryDelay(failures')
              /\ hinted' = (hinted \/ seconds > 0)
  BY DEF RateLimited
<1>3. /\ poller = "polling" /\ failures < MaxFailures /\ failures' = failures + 1
      /\ interval' = interval /\ waited' = waited
  BY DEF RateLimited
<1>4. failures' \in Nat \ {0} /\ failures' \in 0..MaxFailures
  BY <1>1, <1>3, BackoffAssumption
<1>5. /\ RetryDelay(failures') \in [low : Nat, high : Nat]
      /\ RetryDelay(failures').low >= 10 /\ RetryDelay(failures').high <= 21600
  BY <1>4, ScheduleBounds
<1>6. /\ header' \in Int /\ seconds \in Nat
      /\ seconds > MAX_DOUBLE <=> MAX_DOUBLE < header' /\ header' <= MAX_DIGITS
  BY <1>2, BackoffAssumption DEF ParseRetryAfter, NoHeader
<1> HIDE DEF seconds
<1>7. CASE seconds > MAX_DOUBLE
  <2>1. poller' = "died" /\ delay' = delay /\ hinted' = hinted
    BY <1>2, <1>7
  <2>2. TypeOK'
    BY <1>1, <1>2, <1>3, <1>4, <2>1, Zenon DEF TypeOK
  <2>3. DelayInv'
    BY <1>1, <1>3, <2>1 DEF DelayInv
  <2>4. LoadBound' /\ NeverPastCeiling'
    BY <1>4, <1>6, <1>7, <2>1 DEF LoadBound, NeverPastCeiling
  <2>5. QED
    BY <2>2, <2>3, <2>4 DEF Inductive
<1>8. CASE seconds = 0
  <2>1. MAX_DOUBLE \in Nat
    BY BackoffAssumption
  <2>2. poller' = "waiting" /\ delay' = RetryDelay(failures')
    BY <1>2, <1>8, <2>1
  <2>3. hinted' = (hinted \/ FALSE)
    BY <1>2, <1>8, <2>1
  <2>4. hinted' \in BOOLEAN /\ (~hinted' => ~hinted)
    BY <1>1, <2>3, Zenon
  <2>5. QED
    BY <1>2, <1>3, <1>5, <1>6, <1>8, <2>1, <2>2, <2>4, FailurePreserves
<1>9. CASE seconds > 0 /\ ~(seconds > MAX_DOUBLE)
  <2> DEFINE hint == Lesser(10 * seconds, 18000)
  <2>1. delay' = [low |-> hint, high |-> hint] /\ poller' = "waiting"
    BY <1>2, <1>6, <1>9 DEF RetryDelayWithServerHint, Exactly
  <2>2. hint \in Nat /\ hint >= 10 /\ hint <= 21600
    BY <1>6, <1>9 DEF Lesser
  <2>3. hinted' = TRUE
    BY <1>2, <1>9
  <2>4. QED
    BY <1>2, <1>3, <1>6, <1>9, <2>1, <2>2, <2>3, FailurePreserves
<1>10. QED
  <2>1. \/ seconds > MAX_DOUBLE
        \/ seconds = 0
        \/ seconds > 0 /\ ~(seconds > MAX_DOUBLE)
    BY <1>6, BackoffAssumption
  <2>2. QED
    BY <1>7, <1>8, <1>9, <2>1

(* Helper: the doublings stop at the tenth.                                 *)
LEMMA DoubledBounds ==
  ASSUME NEW n \in Nat \ {0}
  PROVE  /\ Doubled(Lesser(n, 10)) \in 1..1024
         /\ Doubled(Lesser(n - 1, 10)) \in 1..1024
<1>1. \A e \in 0..10 : Doubled(e) \in 1..1024
  <2>1. \A e \in 0..9 : Doubled(e) \in 1..1024
    BY Doubling
  <2>2. QED
    BY <2>1, Doubling
<1>2. Lesser(n, 10) \in 0..10 /\ Lesser(n - 1, 10) \in 0..10
  BY DEF Lesser
<1>3. Doubled(Lesser(n, 10)) \in 1..1024
  BY <1>1, <1>2
<1>4. Doubled(Lesser(n - 1, 10)) \in 1..1024
  BY <1>1, <1>2
<1>5. QED
  BY <1>3, <1>4

(* Helper: a wait of the schedule pays for one more doubling.               *)
LEMMA OneMoreDoubling ==
  ASSUME NEW n \in Nat \ {0}
  PROVE  /\ Doubled(Lesser(n, 10)) \in 1..1024
         /\ Doubled(Lesser(n - 1, 10)) \in 1..1024
         /\ RetryDelay(n).low + 16 * Doubled(Lesser(n - 1, 10)) >= 16 * Doubled(Lesser(n, 10))
<1>1. CASE n <= 10
  <2>1. n - 1 \in 0..9 /\ Lesser(n - 1, 10) = n - 1 /\ Lesser(n, 10) = n /\ (n - 1) + 1 = n
    BY <1>1 DEF Lesser
  <2>2. PICK t \in 1..512 : t = Doubled(n - 1)
    BY <2>1, Doubling
  <2>3. Doubled(n) = 2 * t
    BY <2>1, <2>2, Doubling
  <2>4. RetryDelay(n) = [low |-> 16 * t, high |-> 24 * t]
    BY <1>1, <2>2, Schedule
  <2>5. QED
    BY <2>1, <2>2, <2>3, <2>4
<1>2. CASE n > 10
  <2>1. Lesser(n - 1, 10) = 10 /\ Lesser(n, 10) = 10
    BY <1>2 DEF Lesser
  <2>2. RetryDelay(n).low = 14400
    BY <1>2, Schedule
  <2>3. QED
    BY <2>1, <2>2, Doubling
<1>3. QED
  BY <1>1, <1>2

LEMMA WaitPreserves == Inductive /\ Wait => Inductive'
<1> SUFFICES ASSUME Inductive, Wait PROVE Inductive'
  OBVIOUS
<1>1. TypeOK /\ DelayInv /\ LoadBound /\ NeverPastCeiling
  BY DEF Inductive
<1>2. /\ poller = "waiting" /\ poller' \in {"polling", "died"}
      /\ poller' = "died" => delay.high > MAX_WAIT
      /\ interval' = interval /\ failures' = failures /\ delay' = delay /\ hinted' = hinted
      /\ header' = header
      /\ waited' = IF failures = 0 THEN 0 ELSE waited + delay.low
  BY DEF Wait
<1>3. failures \in Nat /\ waited \in Nat /\ delay.low \in Nat /\ delay.high \in Nat
  BY <1>1, BackoffAssumption DEF TypeOK
<1>4. TypeOK'
  <2>1. waited' \in Nat
    BY <1>2, <1>3
  <2>2. poller' \in {"polling", "waiting", "died"}
    BY <1>2
  <2>3. QED
    BY <1>1, <1>2, <2>1, <2>2, Zenon DEF TypeOK
<1>5. DelayInv'
  BY <1>1, <1>2 DEF DelayInv
<1>6. NeverPastCeiling'
  <2>1. failures > 0 => ~(MAX_DOUBLE < header /\ header <= MAX_DIGITS)
    BY <1>1, <1>2 DEF NeverPastCeiling
  <2>2. failures > 0 => delay.high <= BACKOFF_CEILING /\ BACKOFF_CEILING <= MAX_WAIT
    BY <1>1, <1>2, <2>1, BackoffAssumption DEF NeverPastCeiling
  <2>3. failures > 0 => poller' # "died"
    BY <1>2, <1>3, <2>2, BackoffAssumption DEF BACKOFF_CEILING
  <2>4. QED
    BY <1>2, <1>3, <2>1, <2>2, <2>3 DEF NeverPastCeiling
<1>7. LoadBound'
  <2>0. ASSUME failures > 0
        PROVE  /\ Doubled(Lesser(failures, 10)) \in 1..1024
               /\ Doubled(Lesser(failures - 1, 10)) \in 1..1024
    <3>1. failures \in Nat \ {0}
      BY <1>3, <2>0
    <3>2. QED
      BY <3>1, DoubledBounds
  <2>1. CASE poller' = "died"
    BY <2>1 DEF LoadBound
  <2>2. CASE poller' = "polling" /\ failures = 0
    <3>1. Waits' = 0 /\ waited' = 0
      BY <1>2, <2>2 DEF Waits
    <3>2. Doubled(Lesser(0, 10)) = 1
      BY Doubling DEF Lesser
    <3>3. (waited >= 10 * Waits /\ (~hinted => waited >= 16 * (Doubled(Lesser(Waits, 10)) - 1)))'
      BY <3>1, <3>2
    <3>4. QED
      BY <3>3 DEF LoadBound, Doubled
  <2>3. CASE poller' = "polling" /\ failures > 0
    <3>1. Waits = failures - 1 /\ Waits' = failures /\ waited' = waited + delay.low
      BY <1>2, <1>3, <2>3 DEF Waits
    <3>2. /\ waited >= 10 * (failures - 1)
          /\ ~hinted => waited >= 16 * (Doubled(Lesser(failures - 1, 10)) - 1)
      BY <1>1, <1>2, <3>1, LoadBoundIs
    <3>3. delay.low >= 10 /\ (~hinted => delay = RetryDelay(failures))
      BY <1>1, <1>2, <2>3 DEF DelayInv
    <3>4. waited' >= 10 * failures
      BY <1>3, <3>1, <3>2, <3>3
    <3>5. ~hinted => waited' >= 16 * (Doubled(Lesser(failures, 10)) - 1)
      <4> DEFINE u == Doubled(Lesser(failures - 1, 10))
                 v == Doubled(Lesser(failures, 10))
      <4>1. u \in 1..1024 /\ v \in 1..1024
        BY <2>3, <2>0
      <4>2. RetryDelay(failures).low + 16 * u >= 16 * v
        BY <1>3, <2>3, OneMoreDoubling
      <4>3. ~hinted => delay.low + 16 * u >= 16 * v
        BY <3>3, <4>2
      <4>4. ~hinted => waited >= 16 * (u - 1)
        BY <3>2
      <4> HIDE DEF u, v
      <4>5. ~hinted => waited' >= 16 * (v - 1)
        BY <1>3, <3>1, <4>1, <4>3, <4>4
      <4>6. QED
        BY <4>5 DEF v
    <3>6. (waited >= 10 * Waits /\ (~hinted => waited >= 16 * (Doubled(Lesser(Waits, 10)) - 1)))'
      BY <1>2, <3>1, <3>4, <3>5
    <3>7. QED
      BY <3>6 DEF LoadBound, Doubled
  <2>4. QED
    BY <1>2, <1>3, <2>1, <2>2, <2>3
<1>8. QED
  BY <1>4, <1>5, <1>6, <1>7 DEF Inductive

-----------------------------------------------------------------------------
LEMMA InductiveStep == Inductive /\ [Next]_vars => Inductive'
<1> SUFFICES ASSUME Inductive, [Next]_vars PROVE Inductive'
  OBVIOUS
<1>1. CASE Succeed
  BY <1>1, SucceedPreserves
<1>2. CASE Fail
  BY <1>2, FailPreserves
<1>3. CASE RateLimited
  BY <1>3, RateLimitedPreserves
<1>4. CASE Wait
  BY <1>4, WaitPreserves
<1>5. CASE UNCHANGED vars
  <2>1. /\ interval' = interval /\ failures' = failures /\ poller' = poller
        /\ delay' = delay /\ waited' = waited /\ hinted' = hinted /\ header' = header
    BY <1>5, Zenon DEF vars
  <2>2. TypeOK' /\ DelayInv'
    BY <2>1, Zenon DEF Inductive, TypeOK, DelayInv
  <2>3. LoadBound'
    <3>1. Waits' = Waits
      BY <2>1 DEF Waits
    <3>2. QED
      BY <2>1, <3>1, Zenon DEF Inductive, LoadBound
  <2>4. NeverPastCeiling'
    BY <2>1 DEF Inductive, NeverPastCeiling
  <2>5. QED
    BY <2>2, <2>3, <2>4 DEF Inductive
<1>6. QED
  BY <1>1, <1>2, <1>3, <1>4, <1>5, Zenon DEF Next

(* Where every wait comes from, through any run of outcomes.                *)
THEOREM Invariance == Spec => []Inductive
BY InductiveInit, InductiveStep, PTL DEF Spec

(* The type invariant, for any intervals and any hints: no outcome of       *)
(* _poll_loop chooses a wait that is not a range of numbers.                *)
THEOREM TypeCorrect == Spec => []TypeOK
<1>1. Inductive => TypeOK
  BY DEF Inductive
<1>2. QED
  BY <1>1, Invariance, PTL

(* n failures in a row take at least n seconds, and without hints the sum   *)
(* of the doubled waits: _backoff.py never hammers a failing backend.       *)
THEOREM LoadIsBounded == Spec => []LoadBound
<1>1. Inductive => LoadBound
  BY DEF Inductive
<1>2. QED
  BY <1>1, Invariance, PTL

(* After every failure the client asks again within the cap and its jitter, *)
(* but for a Retry-After that int() reads and float() cannot hold: that one *)
(* ends the poller, and nothing else after a failure does, whatever the     *)
(* thresholds are (retry_delay_with_server_hint_s caps after float()).      *)
THEOREM AsksAgainInTime == Spec => []NeverPastCeiling
<1>1. Inductive => NeverPastCeiling
  BY DEF Inductive
<1>2. QED
  BY <1>1, Invariance, PTL

(* The floor of resolve_configuration holds for every configured interval   *)
(* but nan and inf; the assumption is needed, as MCBackoffFloor.cfg shows.   *)
THEOREM FloorHolds == ASSUME Interval \subseteq Int PROVE Spec => []IntervalIsFloored
<1> DEFINE Number == interval \notin {NaN, Inf}
<1>1. Init => Number
  <2> SUFFICES ASSUME Init PROVE Number
    OBVIOUS
  <2>1. PICK configured \in Interval : interval = Resolve(configured)
    BY DEF Init
  <2>2. configured \in Int /\ configured \notin {NaN, Inf} /\ 300 \notin {NaN, Inf}
    BY <2>1, BackoffAssumption
  <2>3. interval = configured \/ interval = 300
    BY <2>1, <2>2, Zenon DEF Resolve
  <2>4. QED
    BY <2>2, <2>3, Zenon
<1>2. Number /\ [Next]_vars => Number'
  <2>1. [Next]_vars => interval' = interval
    BY Zenon DEF Next, Succeed, Fail, RateLimited, Wait, vars
  <2>2. QED
    BY <2>1, Zenon
<1>3. Inductive /\ Number => IntervalIsFloored
  <2> SUFFICES ASSUME Inductive, Number, failures = 0, poller = "waiting"
               PROVE  delay.low >= 240
    BY DEF IntervalIsFloored
  <2>1. delay = PollDelay(interval)
    BY DEF Inductive, DelayInv
  <2>2. interval \in Int \cup {NaN, Inf} /\ (interval \in {NaN, Inf} \/ interval >= 300)
    BY Zenon DEF Inductive, TypeOK, DelayInv
  <2>3. PollDelay(interval).low >= 240
    BY <2>2, PollDelayBounds
  <2>4. QED
    BY <2>1, <2>3
<1>4. QED
  BY <1>1, <1>2, <1>3, Invariance, PTL DEF Spec

(* Helper: the schedule itself doubles, up to the cap.                      *)
LEMMA ScheduleGrows ==
  ASSUME NEW n \in Nat \ {0}
  PROVE  \/ RetryDelay(n + 1).low >= 2 * RetryDelay(n).low
         \/ RetryDelay(n + 1).low = 14400
<1>1. CASE n < 10
  <2>1. n - 1 \in 0..9 /\ (n - 1) + 1 = n /\ n \in 0..9 /\ (n + 1) - 1 = n /\ n + 1 \in Nat \ {0}
    BY <1>1
  <2>2. PICK t \in 1..512 : t = Doubled(n - 1)
    BY <2>1, Doubling
  <2>3. Doubled(n) = 2 * t
    BY <2>1, <2>2, Doubling
  <2>4. RetryDelay(n) = [low |-> 16 * t, high |-> 24 * t]
    BY <1>1, <2>2, Schedule
  <2>5. RetryDelay(n + 1) = [low |-> 16 * Doubled(n), high |-> 24 * Doubled(n)]
    BY <1>1, <2>1, Schedule
  <2>6. QED
    BY <2>3, <2>4, <2>5
<1>2. CASE n >= 10
  <2>1. n + 1 \in Nat \ {0} /\ n + 1 > 10
    BY <1>2
  <2>2. QED
    BY <2>1, Schedule
<1>3. QED
  BY <1>1, <1>2

(* As long as the server gives no hint, each wait of an outage is twice the *)
(* one before, until it is the cap's: retry_delay_s over any run.           *)
THEOREM WaitsOnlyGrow == Spec => WaitsGrow
<1>1. Inductive /\ [Next]_vars =>
        [failures' = failures + 1 /\ failures > 0 /\ ~hinted' /\ poller' = "waiting" =>
           \/ delay'.low >= 2 * delay.low
           \/ delay'.low = BACKOFF_CAP - BACKOFF_CAP \div 5]_vars
  <2> SUFFICES ASSUME Inductive, Inductive', [Next]_vars, failures' = failures + 1,
                      failures > 0, ~hinted', poller' = "waiting"
               PROVE  delay'.low >= 2 * delay.low \/ delay'.low = 14400
    BY InductiveStep
  <2>1. failures \in Nat \ {0}
    BY DEF Inductive, TypeOK
  <2>2. delay' = RetryDelay(failures')
    BY <2>1 DEF Inductive, DelayInv
  <2>3. poller = "polling" /\ ~hinted
    <3>1. failures' # failures /\ failures' # 0
      BY <2>1
    <3>2. Fail \/ RateLimited
      BY <3>1, Zenon DEF Next, Succeed, Wait, vars
    <3>3. CASE Fail
      BY <3>3 DEF Fail
    <3>4. CASE RateLimited
      BY <3>4 DEF RateLimited
    <3>5. QED
      BY <3>2, <3>3, <3>4
  <2>4. delay = RetryDelay(failures)
    BY <2>1, <2>3 DEF Inductive, DelayInv
  <2>5. QED
    BY <2>1, <2>2, <2>4, ScheduleGrows
<1>2. QED
  BY <1>1, Invariance, PTL DEF Spec, WaitsGrow
=============================================================================
