------------------------------- MODULE Lookup -------------------------------
(***************************************************************************)
(* Getters and diagnostics() in the application's threads, while the       *)
(* poller publishes rulesets (_client.py, _evaluate.py).  The snapshot is  *)
(* read once, without a lock; the counters are bumped under theirs; the    *)
(* loop over the rules is a step per rule.                                 *)
(*                                                                         *)
(* Of the poller only what readers see is here: it publishes a snapshot,   *)
(* and notes the attempt under the state lock afterwards.  Client has the  *)
(* rest of it.                                                             *)
(***************************************************************************)
EXTENDS Contract

CONSTANTS
  Ruleset,       \* the rulesets that may be published: flag -> Config
  Asked,         \* the calls the application makes
  Reader,        \* application threads
  MaxPublished,  \* bound: publications
  MaxCalls       \* bound: calls of a getter

Kind == {"boolean", "string", "number"}
Call == [flag : Flag, context : Context, want : Kind]
Counter == {"served", "noSnapshot", "unknownFlag", "kindMismatch", "noValue"}

ASSUME LookupAssumption ==
  /\ \A s \in Ruleset : \A f \in DOMAIN s : s[f] \in Config
  /\ Asked \subseteq Call
  /\ None \notin Ruleset \cup Asked
  /\ MaxPublished \in Nat /\ MaxCalls \in Nat

VARIABLES
  snapshot,    \* _snapshot
  published,   \* how many snapshots were published
  noted,       \* how many of them the state under _state_lock tells of
  counters,    \* the resolution counters
  pc,          \* reader -> where it is
  call,        \* reader -> the arguments of its call
  held,        \* reader -> the local snapshot
  index,       \* reader -> the rule it looks at
  value,       \* reader -> what evaluation came to, then what the getter gave
  report,      \* reader -> what its diagnostics() read: publications, notes
  given        \* history: how many calls gave a value of the ruleset

pollerVars == <<snapshot, published, noted>>
lookupVars == <<call, held, index, value>>
vars == <<pollerVars, counters, pc, lookupVars, report, given>>

Fallback == [type |-> "fallback"]
Result == [type : {"boolean", "string", "float"}, atom : Atom]

Total == counters["served"] + counters["noSnapshot"] + counters["unknownFlag"]
         + counters["kindMismatch"] + counters["noValue"]

TypeOK ==
  /\ snapshot \in Ruleset \cup {None}
  /\ published \in Nat /\ noted \in Nat /\ given \in Nat
  /\ counters \in [Counter -> Nat]
  /\ pc \in [Reader -> {"idle", "read", "walk", "diagnose"} \cup Counter]
  /\ call \in [Reader -> Asked \cup {None}]
  /\ held \in [Reader -> Ruleset \cup {None}]
  /\ index \in [Reader -> Nat]
  /\ value \in [Reader -> Result \cup {NoValue, Raised, Fallback}]
  /\ report \in [Reader -> [published : Nat, noted : Nat]]

Init ==
  /\ snapshot \in Ruleset \cup {None}
  /\ published = 0 /\ noted = 0 /\ given = 0
  /\ counters = [k \in Counter |-> 0]
  /\ pc = [r \in Reader |-> "idle"]
  /\ call = [r \in Reader |-> None]
  /\ held = [r \in Reader |-> None]
  /\ index = [r \in Reader |-> 0]
  /\ value = [r \in Reader |-> NoValue]
  /\ report = [r \in Reader |-> [published |-> 0, noted |-> 0]]

InCall(r) == pc[r] \notin {"idle", "diagnose"}

Goto(r, from, to) ==
  /\ pc[r] = from
  /\ pc' = [pc EXCEPT ![r] = to]

-----------------------------------------------------------------------------
(* The poller: _record of a fresh ruleset.                                 *)

Publish ==
  /\ noted = published /\ published < MaxPublished
  /\ snapshot' \in Ruleset
  /\ published' = published + 1
  /\ UNCHANGED <<noted, counters, pc, lookupVars, report, given>>

Note ==
  /\ noted < published
  /\ noted' = published
  /\ UNCHANGED <<snapshot, published, counters, pc, lookupVars, report, given>>

-----------------------------------------------------------------------------
(* A getter                                                                *)

CallGetter(r) ==
  /\ Total < MaxCalls
  /\ Goto(r, "idle", "read")
  /\ call' \in {[call EXCEPT ![r] = c] : c \in Asked}
  /\ value' = [value EXCEPT ![r] = NoValue]
  /\ UNCHANGED <<pollerVars, counters, held, index, report, given>>

(* _value: the one read of the snapshot, then the checks on it.             *)
ReadSnapshot(r) ==
  LET flag == call[r].flag IN
  /\ pc[r] = "read"
  /\ \/ snapshot = None /\ Goto(r, "read", "noSnapshot")
     \/ /\ snapshot # None
        /\ IF flag \notin DOMAIN snapshot THEN Goto(r, "read", "unknownFlag")
           ELSE IF snapshot[flag].kind # call[r].want THEN Goto(r, "read", "kindMismatch")
           ELSE Goto(r, "read", "walk")
  /\ held' = [held EXCEPT ![r] = snapshot]
  /\ index' = [index EXCEPT ![r] = 1]
  /\ UNCHANGED <<pollerVars, counters, call, value, report, given>>

(* Mutant of ConfigOf: the snapshot is read again for every rule, as long   *)
(* as it still has the flag.                                                *)
CurrentConfig(r) ==
  IF call[r].flag \in DOMAIN snapshot THEN snapshot[call[r].flag] ELSE held[r][call[r].flag]

ConfigOf(r) == held[r][call[r].flag]

(* What decode_value or the bucket came to: a value, or an exception that   *)
(* leaves the getter uncounted.                                             *)
Conclude(r, decoded) ==
  /\ IF decoded = Raised THEN Goto(r, "walk", "idle")
     ELSE IF decoded = NoValue THEN Goto(r, "walk", "noValue")
     ELSE Goto(r, "walk", "served")
  /\ value' = [value EXCEPT ![r] = decoded]
  /\ UNCHANGED index

Continue(r) ==
  /\ index' = [index EXCEPT ![r] = index[r] + 1]
  /\ UNCHANGED <<pc, value>>

(* One turn of evaluate_flag's loop: no match, gated out and undecodable    *)
(* all fall through to the next rule.                                       *)
NextRule(r) ==
  /\ pc[r] = "walk" /\ index[r] <= Len(ConfigOf(r).rules)
  /\ LET rule == ConfigOf(r).rules[index[r]]
         decoded == DecodeValue(rule.serve, ConfigOf(r).kind)
         bucket == Bucket[call[r].context.key][call[r].flag]
     IN \/ ~RuleMatches(rule, call[r].context.tags) /\ Continue(r)
        \/ /\ RuleMatches(rule, call[r].context.tags)
           /\ IF rule.rollout # None /\ bucket = Unencodable THEN Conclude(r, Raised)
              ELSE IF GatedOut(rule, bucket) \/ decoded = NoValue THEN Continue(r)
              ELSE Conclude(r, decoded)
  /\ UNCHANGED <<pollerVars, counters, call, held, report, given>>

FallToDefault(r) ==
  /\ pc[r] = "walk" /\ index[r] > Len(ConfigOf(r).rules)
  /\ Conclude(r, DecodeValue(ConfigOf(r).default, ConfigOf(r).kind))
  /\ UNCHANGED <<pollerVars, counters, call, held, report, given>>

(* bool_value, string_value, number_value: ok, and of the Python type asked *)
(* for, or the caller's fallback.                                           *)
PythonType(want) == IF want = "number" THEN "float" ELSE want

Count(r) ==
  LET usable == value[r].type = PythonType(call[r].want) IN
  /\ pc[r] \in Counter
  /\ Goto(r, pc[r], "idle")
  /\ counters' = [counters EXCEPT ![pc[r]] = @ + 1]
  /\ value' = [value EXCEPT ![r] = IF usable THEN @ ELSE Fallback]
  /\ given' = IF usable THEN given + 1 ELSE given
  /\ held' = [held EXCEPT ![r] = None]
  /\ index' = [index EXCEPT ![r] = 0]
  /\ UNCHANGED <<pollerVars, call, report>>

-----------------------------------------------------------------------------
(* diagnostics(): the snapshot, then the counters, then the state.         *)

(* Mutant of Diagnostics: the state is read first.                          *)
StateFirst(r) ==
  /\ \/ /\ Goto(r, "idle", "diagnose")
        /\ report' = [report EXCEPT ![r].noted = noted]
     \/ /\ Goto(r, "diagnose", "idle")
        /\ report' = [report EXCEPT ![r].published = published]
  /\ UNCHANGED <<pollerVars, counters, lookupVars, given>>

Diagnostics(r) ==
  /\ \/ /\ Goto(r, "idle", "diagnose")
        /\ report' = [report EXCEPT ![r].published = published]
     \/ /\ Goto(r, "diagnose", "idle")
        /\ report' = [report EXCEPT ![r].noted = noted]
  /\ UNCHANGED <<pollerVars, counters, lookupVars, given>>

-----------------------------------------------------------------------------
ReaderStep(r) ==
  \/ CallGetter(r) \/ ReadSnapshot(r) \/ NextRule(r) \/ FallToDefault(r)
  \/ Count(r) \/ Diagnostics(r)

Next == Publish \/ Note \/ \E r \in Reader : ReaderStep(r)

Spec == Init /\ [][Next]_vars

-----------------------------------------------------------------------------
(* What a call is to give if it sees this ruleset.                         *)
Answer(ruleset, c) ==
  IF ruleset = None THEN Fallback
  ELSE IF c.flag \notin DOMAIN ruleset THEN Fallback
  ELSE IF ruleset[c.flag].kind # c.want THEN Fallback
  ELSE LET decoded == FirstMatch(ruleset[c.flag], c.context, c.flag)
       IN IF decoded = NoValue THEN Fallback ELSE decoded

(* What the ruleset a call read promises for it, and the caller's fallback  *)
(* where that is nothing.                                                   *)
KeepsPromise(r) ==
  LET c == call[r]
  IN IF held[r] # None /\ c.flag \in DOMAIN held[r] /\ held[r][c.flag].kind = c.want
     THEN \/ /\ value'[r] # NoValue
             /\ Promised(held[r][c.flag], c.context, c.flag, value'[r])
          \/ /\ value'[r] = Fallback
             /\ Promised(held[r][c.flag], c.context, c.flag, NoValue)
     ELSE value'[r] = Fallback

(* A getter answers by the ruleset it read: the first rule that targets the *)
(* context, lets its bucket in and has a value of the kind gives it, with   *)
(* versions read piece by piece, missing pieces as zeros, and a gate of n    *)
(* open to the buckets 0..n-1 (_evaluate.py:43, 73, _semver.py:24, 44).     *)
AnswersFirstMatch ==
  [][\A r \in Reader : InCall(r) /\ ~InCall(r)' => KeepsPromise(r)]_vars

(* How far a call has got, seen from outside: the read of the snapshot is   *)
(* the one moment that decides it, and what it came to shows at its return. *)
Stage ==
  [r \in Reader |-> IF ~InCall(r) THEN "idle"
                    ELSE IF pc[r] = "read" THEN "asked" ELSE "decided"]

Seen == [r \in Reader |-> IF InCall(r) /\ pc[r] # "read" THEN held[r] ELSE None]

Shown == [r \in Reader |-> IF InCall(r) THEN NoValue ELSE value[r]]

Atomic == INSTANCE AtomicLookup WITH
  stage <- Stage, seen <- Seen, answer <- Shown, served <- counters["served"],
  NoAnswer <- NoValue, Served <- Result

(* Getters are linearizable: whatever is published while the rules are      *)
(* walked, a call answers as if it were one step on the published snapshot, *)
(* so calls that follow one another never see the rulesets in another order *)
(* than they were published in; and the served counter moves with exactly   *)
(* those returns that give a ruleset's value (_client.py:324, 349,          *)
(* _evaluate.py:43).                                                        *)
GettersAreAtomic == Atomic!Spec

(* resolutions.served counts exactly the calls that gave the application a *)
(* ruleset's value: what _value counts as served, the getter's own type    *)
(* test never turns into the fallback (_client.py:173, 349).               *)
CountedAsServed == counters["served"] = given

(* In one diagnostics() record the snapshot is at most one publication     *)
(* ahead of the status and ETag beside it (_client.py:186, 195): an older  *)
(* snapshot may come with newer news, but never a newer one with news of   *)
(* the attempt before last.                                                *)
DiagnosticsOneAhead ==
  \A r \in Reader :
    pc[r] # "diagnose" => report[r].published <= report[r].noted + 1

(* Raising the percentage of a rule takes no context away from that rule,  *)
(* and moves none between the others: a context a call was answered for    *)
(* keeps its answer or gets that rule's (_evaluate.py:56, _bucket.py).     *)
RaisingRolloutOnlyAdds ==
  \A r \in Reader : pc[r] \in {"served", "noValue"} =>
    LET c == call[r]
        config == held[r][c.flag]
    IN \A i \in DOMAIN config.rules :
         config.rules[i].rollout # None =>
           \A percentage \in config.rules[i].rollout..100 :
             FirstMatch(WithRollout(config, i, percentage), c.context, c.flag)
               \in {value[r], DecodeValue(config.rules[i].serve, config.kind)}

(* README.md:27: "after construction, evaluation never raises".            *)
GetterNeverRaises == \A r \in Reader : value[r] # Raised

-----------------------------------------------------------------------------
(* The inductive invariant, in parts.                                      *)

(* What a call holds, and how far it got in it.                            *)
HeldInv(r) ==
  /\ InCall(r) => call[r] # None
  /\ pc[r] = "noSnapshot" => held[r] = None
  /\ pc[r] \in {"unknownFlag", "kindMismatch", "walk", "served", "noValue"} =>
       held[r] # None
  /\ pc[r] = "unknownFlag" => call[r].flag \notin DOMAIN held[r]
  /\ pc[r] \in {"kindMismatch", "walk", "served", "noValue"} =>
       call[r].flag \in DOMAIN held[r]
  /\ pc[r] = "kindMismatch" => ConfigOf(r).kind # call[r].want
  /\ pc[r] \in {"walk", "served", "noValue"} => ConfigOf(r).kind = call[r].want

(* The rules behind the loop had no answer; what is ahead of it is open.   *)
WalkInv(r) ==
  /\ pc[r] = "walk" =>
       /\ index[r] \in 1..(Len(ConfigOf(r).rules) + 1)
       /\ \A j \in 1..(index[r] - 1) :
            RuleAnswer(ConfigOf(r).rules[j], ConfigOf(r).kind, call[r].context,
                       call[r].flag) = NoValue
  /\ pc[r] \in {"served", "noValue"} =>
       value[r] = FirstMatch(ConfigOf(r), call[r].context, call[r].flag)
  /\ pc[r] = "served" => value[r] \in Result /\ value[r].type = PythonType(call[r].want)
  /\ InCall(r) /\ pc[r] # "served" => value[r] = NoValue

ReportInv(r) ==
  /\ pc[r] = "diagnose" => report[r].published <= noted + 1
  /\ pc[r] # "diagnose" => report[r].published <= report[r].noted + 1

Inductive ==
  /\ TypeOK
  /\ CountedAsServed
  /\ published \in {noted, noted + 1}
  /\ \A r \in Reader : HeldInv(r) /\ WalkInv(r) /\ ReportInv(r)
=============================================================================
