---------------------------- MODULE LookupProofs ----------------------------
(***************************************************************************)
(* Proofs about Lookup, for any readers, rulesets, contexts and calls.     *)
(***************************************************************************)
EXTENDS Lookup, EvaluateProofs

ReaderInv(r) == HeldInv(r) /\ WalkInv(r) /\ ReportInv(r)

LEMMA InductiveInit == Init => Inductive
BY LookupAssumption
   DEF Init, Inductive, TypeOK, CountedAsServed, Counter, Kind, HeldInv, WalkInv,
       ReportInv, InCall

(* A step that leaves a reader alone keeps what is known of it.             *)
LEMMA Untouched ==
  ASSUME NEW r \in Reader, ReaderInv(r), snapshot' = snapshot, noted' = noted,
         pc'[r] = pc[r], call'[r] = call[r], held'[r] = held[r], index'[r] = index[r],
         value'[r] = value[r], report'[r] = report[r]
  PROVE  ReaderInv(r)'
BY DEF ReaderInv, HeldInv, WalkInv, ReportInv, InCall, ConfigOf

-----------------------------------------------------------------------------
(* The poller                                                              *)

LEMMA PublishPreserves ==
  ASSUME Inductive, Publish
  PROVE  Inductive'
<1> USE DEF Inductive
<1>1. TypeOK'
  BY DEF Publish, TypeOK, lookupVars
<1>2. CountedAsServed' /\ published' \in {noted', noted' + 1}
  BY DEF Publish, CountedAsServed
<1>3. ASSUME NEW r \in Reader
      PROVE  (HeldInv(r) /\ WalkInv(r) /\ ReportInv(r))'
  <2>1. HeldInv(r)'
    BY DEF Publish, HeldInv, InCall, ConfigOf, lookupVars
  <2>2. WalkInv(r)'
    BY DEF Publish, WalkInv, InCall, ConfigOf, lookupVars
  <2>3. ReportInv(r)'
    BY DEF Publish, ReportInv
  <2>4. QED
    BY <2>1, <2>2, <2>3
<1>4. QED
  BY <1>1, <1>2, <1>3

LEMMA NotePreserves ==
  ASSUME Inductive, Note
  PROVE  Inductive'
<1> USE DEF Inductive
<1>1. TypeOK'
  BY DEF Note, TypeOK, lookupVars
<1>2. CountedAsServed' /\ published' \in {noted', noted' + 1}
  BY DEF Note, CountedAsServed, TypeOK
<1>3. ASSUME NEW r \in Reader
      PROVE  (HeldInv(r) /\ WalkInv(r) /\ ReportInv(r))'
  <2>1. HeldInv(r)' /\ WalkInv(r)'
    BY DEF Note, lookupVars, HeldInv, WalkInv, InCall, ConfigOf
  <2>2. ReportInv(r)'
    BY DEF Note, ReportInv, TypeOK
  <2>3. QED
    BY <2>1, <2>2
<1>4. QED
  BY <1>1, <1>2, <1>3

-----------------------------------------------------------------------------
(* A reader's step keeps the invariant if it keeps its own part.            *)
LEMMA OwnStep ==
  ASSUME Inductive, NEW r \in Reader, ReaderStep(r),
         TypeOK', CountedAsServed', ReaderInv(r)'
  PROVE  Inductive'
<1>1. UNCHANGED pollerVars
  BY DEF ReaderStep, CallGetter, ReadSnapshot, NextRule, FallToDefault, Count, Diagnostics
<1>2. ASSUME NEW q \in Reader, q # r PROVE ReaderInv(q)'
  <2>1. /\ pc'[q] = pc[q] /\ call'[q] = call[q] /\ held'[q] = held[q]
        /\ index'[q] = index[q] /\ value'[q] = value[q] /\ report'[q] = report[q]
    <3> USE <1>2 DEF Inductive, TypeOK, Goto, lookupVars
    <3>1. CASE CallGetter(r)
      BY <3>1 DEF CallGetter
    <3>2. CASE ReadSnapshot(r)
      BY <3>2 DEF ReadSnapshot
    <3>3. CASE NextRule(r)
      BY <3>3 DEF NextRule, Conclude, Continue
    <3>4. CASE FallToDefault(r)
      BY <3>4 DEF FallToDefault, Conclude
    <3>5. CASE Count(r)
      BY <3>5 DEF Count
    <3>6. CASE Diagnostics(r)
      BY <3>6 DEF Diagnostics
    <3>7. QED
      BY <3>1, <3>2, <3>3, <3>4, <3>5, <3>6 DEF ReaderStep
  <2>2. ReaderInv(q)
    BY DEF Inductive, ReaderInv
  <2>3. QED
    BY <1>1, <2>1, <2>2, Untouched DEF pollerVars
<1>3. QED
  BY <1>1, <1>2 DEF Inductive, ReaderInv, pollerVars

LEMMA CallGetterPreserves ==
  ASSUME Inductive, NEW r \in Reader, CallGetter(r)
  PROVE  Inductive'
<1>1. PICK c \in Asked : call' = [call EXCEPT ![r] = c]
  BY DEF CallGetter
<1>2. TypeOK'
  BY <1>1 DEF Inductive, TypeOK, CallGetter, Goto, pollerVars
<1>3. /\ pc'[r] = "read" /\ call'[r] = c /\ value'[r] = NoValue
      /\ report' = report /\ snapshot' = snapshot /\ noted' = noted /\ c # None
      /\ pc[r] = "idle"
  BY <1>1, LookupAssumption DEF Inductive, TypeOK, CallGetter, Goto, pollerVars
<1>4. ReaderInv(r)'
  BY <1>3 DEF Inductive, ReaderInv, HeldInv, WalkInv, ReportInv, InCall
<1>5. CountedAsServed'
  BY DEF Inductive, CallGetter, CountedAsServed
<1>6. QED
  BY <1>2, <1>4, <1>5, OwnStep DEF ReaderStep

LEMMA ReadSnapshotPreserves ==
  ASSUME Inductive, NEW r \in Reader, ReadSnapshot(r)
  PROVE  Inductive'
<1>1. /\ held'[r] = snapshot /\ index'[r] = 1 /\ value' = value
      /\ call' = call /\ report' = report /\ noted' = noted /\ pc[r] = "read"
      /\ snapshot' = snapshot /\ counters' = counters /\ given' = given
  BY DEF Inductive, TypeOK, ReadSnapshot, pollerVars
<1>2. \/ pc'[r] = "noSnapshot" /\ snapshot = None
      \/ /\ pc'[r] = "unknownFlag" /\ snapshot # None
         /\ call[r].flag \notin DOMAIN snapshot
      \/ /\ pc'[r] = "kindMismatch" /\ snapshot # None
         /\ call[r].flag \in DOMAIN snapshot /\ snapshot[call[r].flag].kind # call[r].want
      \/ /\ pc'[r] = "walk" /\ snapshot # None
         /\ call[r].flag \in DOMAIN snapshot /\ snapshot[call[r].flag].kind = call[r].want
  BY DEF Inductive, TypeOK, ReadSnapshot, Goto
<1>3. TypeOK'
  <2>1. \E to \in {"walk", "noSnapshot", "unknownFlag", "kindMismatch"} :
          pc' = [pc EXCEPT ![r] = to]
    BY DEF ReadSnapshot, Goto
  <2>2. QED
    BY <2>1 DEF Inductive, TypeOK, ReadSnapshot, pollerVars, Counter
<1>4. HeldInv(r)'
  BY <1>1, <1>2 DEF Inductive, HeldInv, InCall, ConfigOf
<1>5. WalkInv(r)'
  <2>1. value[r] = NoValue
    BY <1>1 DEF Inductive, WalkInv, InCall
  <2>2. pc'[r] = "walk" => Len(ConfigOf(r)'.rules) \in Nat
    <3>1. pc'[r] = "walk" => ConfigOf(r)' \in Config
      BY <1>1, <1>2, LookupAssumption DEF Inductive, TypeOK, ConfigOf
    <3>2. QED
      BY <3>1 DEF Config
  <2>3. QED
    BY <1>1, <1>2, <2>1, <2>2 DEF WalkInv, InCall
<1>6. ReportInv(r)' /\ CountedAsServed'
  BY <1>1, <1>2 DEF Inductive, ReportInv, CountedAsServed, InCall
<1>7. QED
  BY <1>3, <1>4, <1>5, <1>6, OwnStep DEF ReaderStep, ReaderInv
-----------------------------------------------------------------------------
(* The loop over the rules                                                 *)

(* The configuration in hand is one, and the context and flag are of the    *)
(* call's types.                                                            *)
LEMMA WalkTypes ==
  ASSUME Inductive, NEW r \in Reader, pc[r] = "walk"
  PROVE  /\ call[r] \in Call /\ held[r] \in Ruleset
         /\ ConfigOf(r) \in Config /\ ConfigOf(r).kind = call[r].want
         /\ ConfigOf(r).kind \in Kind /\ ConfigOf(r).default \in JsonValue
         /\ ConfigOf(r).rules \in Seq(Rule)
         /\ index[r] \in Nat \ {0}
<1>1. call[r] \in Call
  BY LookupAssumption DEF Inductive, TypeOK, HeldInv, InCall
<1>2. held[r] \in Ruleset /\ call[r].flag \in DOMAIN held[r]
  BY DEF Inductive, TypeOK, HeldInv
<1>3. ConfigOf(r) \in Config
  BY <1>2, LookupAssumption DEF ConfigOf
<1>4. ConfigOf(r).kind = call[r].want /\ index[r] \in Nat \ {0}
  BY DEF Inductive, HeldInv, WalkInv, TypeOK
<1>5. QED
  BY <1>1, <1>2, <1>3, <1>4 DEF Config, Kind

(* Ending the loop with what the reference gives keeps the invariant.       *)
LEMMA ConcludePreserves ==
  ASSUME Inductive, NEW r \in Reader, ReaderStep(r), pc[r] = "walk",
         NEW decoded, Conclude(r, decoded),
         decoded = FirstMatch(ConfigOf(r), call[r].context, call[r].flag),
         decoded \in {NoValue, Raised} \/
           (decoded \in Result /\ decoded.type = PythonType(call[r].want)),
         UNCHANGED <<pollerVars, counters, call, held, report, given>>
  PROVE  Inductive'
<1>1. /\ value'[r] = decoded
      /\ pc'[r] = IF decoded = Raised THEN "idle"
                  ELSE IF decoded = NoValue THEN "noValue" ELSE "served"
  BY DEF Conclude, Goto, Inductive, TypeOK
<1>2. TypeOK'
  <2>1. \E to \in {"idle", "noValue", "served"} : pc' = [pc EXCEPT ![r] = to]
    BY DEF Conclude, Goto
  <2>2. value' \in [Reader -> Result \cup {NoValue, Raised, Fallback}]
    BY DEF Conclude, Inductive, TypeOK
  <2>3. QED
    BY <2>1, <2>2 DEF Inductive, TypeOK, Conclude, pollerVars, Counter
<1>3. ConfigOf(r)' = ConfigOf(r)
  BY DEF ConfigOf
<1>4. HeldInv(r)'
  BY <1>1, <1>3 DEF Inductive, HeldInv, InCall, pollerVars
<1>5. NoValue # Raised
  BY DEF NoValue, Raised
<1>6. WalkInv(r)'
  BY <1>1, <1>3, <1>5 DEF WalkInv, InCall
<1>7. ReportInv(r)' /\ CountedAsServed'
  BY <1>1 DEF Inductive, ReportInv, CountedAsServed, pollerVars
<1>8. QED
  BY <1>2, <1>4, <1>6, <1>7, OwnStep DEF ReaderInv

(* One turn of the loop either goes on, the rule having no answer, or stops  *)
(* at the first match.                                                      *)
LEMMA TurnOfLoop ==
  ASSUME Inductive, NEW r \in Reader, NextRule(r)
  PROVE  LET answer == RuleAnswer(ConfigOf(r).rules[index[r]], ConfigOf(r).kind,
                                  call[r].context, call[r].flag)
         IN IF answer = NoValue THEN Continue(r)
            ELSE /\ Conclude(r, answer)
                 /\ answer = FirstMatch(ConfigOf(r), call[r].context, call[r].flag)
<1> DEFINE config == ConfigOf(r)
           rule == config.rules[index[r]]
           context == call[r].context
           flag == call[r].flag
           bucket == Bucket[context.key][flag]
           answer == RuleAnswer(rule, config.kind, context, flag)
<1>1. pc[r] = "walk" /\ index[r] <= Len(config.rules)
  BY DEF NextRule
<1>2. /\ call[r] \in Call /\ config.kind = call[r].want /\ config.kind \in Kind
      /\ config.rules \in Seq(Rule) /\ index[r] \in 1..Len(config.rules)
  BY <1>1, WalkTypes
<1>3. rule \in Rule
  BY <1>2
<1>4. IF answer = NoValue THEN Continue(r) ELSE Conclude(r, answer)
  <2>1. \/ ~RuleMatches(rule, context.tags) /\ Continue(r)
        \/ /\ RuleMatches(rule, context.tags)
           /\ IF rule.rollout # None /\ bucket = Unencodable THEN Conclude(r, Raised)
              ELSE IF GatedOut(rule, bucket) \/ DecodeValue(rule.serve, config.kind) = NoValue
              THEN Continue(r)
              ELSE Conclude(r, DecodeValue(rule.serve, config.kind))
    BY DEF NextRule
  <2>2. answer = IF ~RuleMatches(rule, context.tags) THEN NoValue
                 ELSE IF rule.rollout = None THEN DecodeValue(rule.serve, config.kind)
                 ELSE IF bucket = Unencodable THEN Raised
                 ELSE IF GatedOut(rule, bucket) THEN NoValue
                 ELSE DecodeValue(rule.serve, config.kind)
    BY DEF RuleAnswer
  <2>3. rule.rollout = None => ~GatedOut(rule, bucket)
    BY DEF GatedOut
  <2>4. NoValue # Raised
    BY DEF NoValue, Raised
  <2> HIDE DEF answer, rule, config, context, bucket
  <2>5. QED
    BY <2>1, <2>2, <2>3, <2>4
<1>5. ASSUME answer # NoValue PROVE answer = FirstMatch(config, context, flag)
  BY <1>1, <1>2, <1>5, StopsAtFirst DEF Inductive, WalkInv
<1>6. QED
  BY <1>4, <1>5

LEMMA NextRulePreserves ==
  ASSUME Inductive, NEW r \in Reader, NextRule(r)
  PROVE  Inductive'
<1> DEFINE config == ConfigOf(r)
           rule == config.rules[index[r]]
           context == call[r].context
           flag == call[r].flag
           bucket == Bucket[context.key][flag]
           answer == RuleAnswer(rule, config.kind, context, flag)
<1>1. pc[r] = "walk" /\ index[r] <= Len(config.rules)
  BY DEF NextRule
<1>2. /\ call[r] \in Call /\ config.kind = call[r].want /\ config.kind \in Kind
      /\ config.rules \in Seq(Rule) /\ index[r] \in 1..Len(config.rules)
  BY <1>1, WalkTypes
<1>3. rule \in Rule
  BY <1>2
<1>4. UNCHANGED <<pollerVars, counters, call, held, report, given>>
  BY DEF NextRule
<1>5. IF answer = NoValue THEN Continue(r)
      ELSE Conclude(r, answer) /\ answer = FirstMatch(config, context, flag)
  BY TurnOfLoop
<1>6. CASE answer # NoValue
  <2>1. answer = FirstMatch(config, context, flag)
    BY <1>5, <1>6
  <2>2. answer \in {Raised, DecodeValue(rule.serve, config.kind)}
    BY <1>6 DEF RuleAnswer
  <2>3. rule.serve \in JsonValue
    BY <1>3 DEF Rule
  <2>4. answer \in {NoValue, Raised} \/
          (answer \in Result /\ answer.type = PythonType(call[r].want))
    BY <1>2, <2>2, <2>3, DecodedValue DEF Result, PythonType, Kind
  <2>5. Conclude(r, answer) /\ ReaderStep(r)
    BY <1>5, <1>6 DEF ReaderStep
  <2>6. QED
    BY <1>1, <1>4, <2>1, <2>4, <2>5, ConcludePreserves
<1>7. CASE answer = NoValue
  <2>1. index' = [index EXCEPT ![r] = index[r] + 1] /\ UNCHANGED <<pc, value>>
    BY <1>5, <1>7 DEF Continue
  <2>2. TypeOK'
    BY <1>4, <2>1 DEF Inductive, TypeOK, pollerVars
  <2>3. index'[r] = index[r] + 1 /\ ConfigOf(r)' = config
    BY <1>4, <2>1 DEF Inductive, TypeOK, ConfigOf
  <2>4. HeldInv(r)' /\ ReportInv(r)' /\ CountedAsServed'
    BY <1>4, <2>1, <2>3
       DEF Inductive, HeldInv, ReportInv, CountedAsServed, InCall,
           pollerVars
  <2>5. \A j \in 1..index[r] :
          RuleAnswer(config.rules[j], config.kind, context, flag) = NoValue
    <3>1. \A j \in 1..(index[r] - 1) :
            RuleAnswer(config.rules[j], config.kind, context, flag) = NoValue
      BY <1>1 DEF Inductive, WalkInv
    <3>2. QED
      BY <1>2, <1>7, <3>1
  <2>6. WalkInv(r)'
    BY <1>1, <1>2, <1>4, <2>1, <2>3, <2>5 DEF Inductive, WalkInv, InCall
  <2>7. QED
    BY <2>2, <2>4, <2>6, OwnStep DEF ReaderInv, ReaderStep
<1>8. QED
  BY <1>6, <1>7

(* After the last rule the default is the first match.                      *)
LEMMA EndOfLoop ==
  ASSUME Inductive, NEW r \in Reader, FallToDefault(r)
  PROVE  DecodeValue(ConfigOf(r).default, ConfigOf(r).kind)
           = FirstMatch(ConfigOf(r), call[r].context, call[r].flag)
<1>1. pc[r] = "walk" /\ index[r] > Len(ConfigOf(r).rules)
  BY DEF FallToDefault
<1>2. ConfigOf(r).rules \in Seq(Rule)
  BY <1>1, WalkTypes
<1>3. index[r] = Len(ConfigOf(r).rules) + 1
  BY <1>1, <1>2 DEF Inductive, WalkInv
<1>4. \A j \in 1..Len(ConfigOf(r).rules) :
        RuleAnswer(ConfigOf(r).rules[j], ConfigOf(r).kind, call[r].context,
                   call[r].flag) = NoValue
  BY <1>1, <1>2, <1>3 DEF Inductive, WalkInv
<1>5. QED
  BY <1>4, FallsToDefault

LEMMA FallToDefaultPreserves ==
  ASSUME Inductive, NEW r \in Reader, FallToDefault(r)
  PROVE  Inductive'
<1> DEFINE decoded == DecodeValue(ConfigOf(r).default, ConfigOf(r).kind)
<1>1. pc[r] = "walk" /\ Conclude(r, decoded)
  BY DEF FallToDefault
<1>2. /\ ConfigOf(r).default \in JsonValue /\ ConfigOf(r).kind = call[r].want
      /\ ConfigOf(r).kind \in Kind
  BY <1>1, WalkTypes
<1>3. decoded = FirstMatch(ConfigOf(r), call[r].context, call[r].flag)
  BY EndOfLoop
<1>4. decoded \in {NoValue, Raised} \/
        (decoded \in Result /\ decoded.type = PythonType(call[r].want))
  BY <1>2, DecodedValue DEF Result, PythonType, Kind
<1>5. QED
  BY <1>1, <1>3, <1>4, ConcludePreserves DEF FallToDefault, ReaderStep

-----------------------------------------------------------------------------
(* What a call gives is counted as served exactly when it is a value of the *)
(* ruleset, and is the answer of the snapshot it holds.                     *)
LEMMA CountAnswers ==
  ASSUME Inductive, NEW r \in Reader, Count(r)
  PROVE  /\ value[r].type = PythonType(call[r].want) <=> pc[r] = "served"
         /\ value'[r] = Answer(held[r], call[r])
<1> DEFINE usable == value[r].type = PythonType(call[r].want)
<1>1. /\ pc[r] \in Counter /\ pc'[r] = "idle" /\ call' = call
      /\ report' = report /\ noted' = noted /\ snapshot' = snapshot
      /\ value'[r] = IF usable THEN value[r] ELSE Fallback
      /\ counters' = [counters EXCEPT ![pc[r]] = @ + 1]
      /\ given' = IF usable THEN given + 1 ELSE given
  BY DEF Inductive, TypeOK, Count, Goto, pollerVars
<1>2. usable <=> pc[r] = "served"
  <2>1. pc[r] # "served" => value[r] = NoValue
    BY <1>1 DEF Inductive, WalkInv, InCall, Counter
  <2>2. call[r].want \in Kind
    BY <1>1, LookupAssumption DEF Inductive, TypeOK, HeldInv, InCall, Counter, Call
  <2>3. pc[r] # "served" => value[r].type = "noValue"
    BY <2>1 DEF NoValue
  <2>4. QED
    BY <2>2, <2>3 DEF Inductive, WalkInv, PythonType, Kind
<1>3. value'[r] = Answer(held[r], call[r])
  <2>1. NoValue # Fallback
    BY DEF NoValue, Fallback
  <2>2. CASE pc[r] = "served"
    <3>1. value[r] # NoValue
      BY <1>2, <2>2, LookupAssumption
         DEF Inductive, WalkInv, Result, NoValue
    <3>2. QED
      BY <1>1, <1>2, <2>2, <3>1 DEF Inductive, HeldInv, WalkInv, Answer, ConfigOf
  <2>3. CASE pc[r] = "noValue"
    BY <1>1, <1>2, <2>3 DEF Inductive, HeldInv, WalkInv, Answer, ConfigOf, InCall
  <2>4. CASE pc[r] \in {"noSnapshot", "unknownFlag", "kindMismatch"}
    BY <1>1, <1>2, <2>4 DEF Inductive, HeldInv, Answer, ConfigOf
  <2>5. QED
    BY <1>1, <2>2, <2>3, <2>4 DEF Counter
<1>4. QED
  BY <1>2, <1>3

LEMMA CountPreserves ==
  ASSUME Inductive, NEW r \in Reader, Count(r)
  PROVE  Inductive'
<1> DEFINE usable == value[r].type = PythonType(call[r].want)
<1>1. /\ pc[r] \in Counter /\ pc'[r] = "idle" /\ call' = call
      /\ report' = report /\ noted' = noted /\ snapshot' = snapshot
      /\ value'[r] = IF usable THEN value[r] ELSE Fallback
      /\ counters' = [counters EXCEPT ![pc[r]] = @ + 1]
      /\ given' = IF usable THEN given + 1 ELSE given
  BY DEF Inductive, TypeOK, Count, Goto, pollerVars
<1>2. usable <=> pc[r] = "served"
  BY CountAnswers
<1>3. TypeOK'
  <2>1. counters' \in [Counter -> Nat] /\ given' \in Nat
    BY <1>1 DEF Inductive, TypeOK
  <2>2. value' \in [Reader -> Result \cup {NoValue, Raised, Fallback}]
    BY DEF Inductive, TypeOK, Count
  <2>3. QED
    BY <2>1, <2>2 DEF Inductive, TypeOK, Count, Goto, pollerVars
<1>4. CountedAsServed'
  BY <1>1, <1>2 DEF Inductive, TypeOK, CountedAsServed, Counter
<1>5. HeldInv(r)' /\ WalkInv(r)' /\ ReportInv(r)'
  BY <1>1 DEF Inductive, HeldInv, WalkInv, ReportInv, InCall, Counter
<1>6. QED
  BY <1>3, <1>4, <1>5, OwnStep DEF ReaderInv, ReaderStep

LEMMA DiagnosticsPreserves ==
  ASSUME Inductive, NEW r \in Reader, Diagnostics(r)
  PROVE  Inductive'
<1>1. TypeOK'
  <2>1. report' \in [Reader -> [published : Nat, noted : Nat]]
    BY DEF Inductive, TypeOK, Diagnostics
  <2>2. QED
    BY <2>1 DEF Inductive, TypeOK, Diagnostics, Goto, pollerVars, lookupVars
<1>2. ReportInv(r)'
  BY DEF Inductive, TypeOK, ReportInv, Diagnostics, Goto, pollerVars
<1>3. HeldInv(r)' /\ WalkInv(r)' /\ CountedAsServed'
  BY DEF Inductive, TypeOK, HeldInv, WalkInv, CountedAsServed, Diagnostics,
         Goto, InCall, pollerVars, lookupVars
<1>4. QED
  BY <1>1, <1>2, <1>3, OwnStep DEF ReaderInv, ReaderStep

-----------------------------------------------------------------------------
LEMMA InductiveStep == Inductive /\ [Next]_vars => Inductive'
<1> SUFFICES ASSUME Inductive, [Next]_vars PROVE Inductive'
  OBVIOUS
<1>1. CASE Publish
  BY <1>1, PublishPreserves
<1>2. CASE Note
  BY <1>2, NotePreserves
<1>3. ASSUME NEW r \in Reader, ReaderStep(r) PROVE Inductive'
  BY <1>3, CallGetterPreserves, ReadSnapshotPreserves, NextRulePreserves,
     FallToDefaultPreserves, CountPreserves, DiagnosticsPreserves DEF ReaderStep
<1>4. CASE UNCHANGED vars
  BY <1>4 DEF Inductive, TypeOK, CountedAsServed, HeldInv, WalkInv, ReportInv,
     InCall, ConfigOf, vars, pollerVars, lookupVars
<1>5. QED
  BY <1>1, <1>2, <1>3, <1>4 DEF Next

(* The inductive invariant holds in every reachable state.                  *)
THEOREM Invariance == Spec => []Inductive
BY InductiveInit, InductiveStep, PTL DEF Spec

(* Type correctness.                                                        *)
THEOREM TypeCorrect == Spec => []TypeOK
<1>1. Inductive => TypeOK
  BY DEF Inductive
<1>2. QED
  BY <1>1, Invariance, PTL

(* What the snapshot a call holds answers is what it promises.              *)
LEMMA HeldKeepsPromise ==
  ASSUME Inductive, NEW r \in Reader, InCall(r), pc[r] # "read", held[r] # None,
         call[r].flag \in DOMAIN held[r]
  PROVE  LET c == call[r]
             config == held[r][c.flag]
         IN Promised(config, c.context, c.flag, FirstMatch(config, c.context, c.flag))
<1>1. call[r] \in Call
  BY LookupAssumption DEF Inductive, TypeOK, HeldInv
<1>2. held[r] \in Ruleset
  BY DEF Inductive, TypeOK
<1>3. held[r][call[r].flag] \in Config
  BY <1>2, LookupAssumption
<1>4. QED
  BY <1>1, <1>3, FirstMatchIsPromised DEF Call

(* A getter that returns gives what the snapshot it read answers.           *)
LEMMA ReturnsAnswer ==
  ASSUME Inductive, NEW r \in Reader, [Next]_vars, InCall(r), ~InCall(r)'
  PROVE  pc[r] # "read" /\ value'[r] = Answer(held[r], call[r])
<1>1. PICK q \in Reader : ReaderStep(q)
  BY DEF Next, Publish, Note, InCall, vars
<1>2. q = r
  <2> SUFFICES ASSUME q # r PROVE pc'[r] = pc[r]
    BY DEF InCall
  <2>1. \E to : pc' = [pc EXCEPT ![q] = to]
    BY <1>1 DEF ReaderStep, CallGetter, ReadSnapshot, NextRule, FallToDefault, Count,
                Diagnostics, Goto, Conclude, Continue, Inductive, TypeOK
  <2>2. QED
    BY <2>1 DEF Inductive, TypeOK
<1>3. CASE CallGetter(r) \/ Diagnostics(r)
  BY <1>3 DEF CallGetter, Diagnostics, Goto, InCall
<1>4. CASE ReadSnapshot(r)
  <2>1. \E to \in Counter \cup {"walk"} : pc' = [pc EXCEPT ![r] = to]
    BY <1>4 DEF ReadSnapshot, Goto, Counter
  <2>2. QED
    BY <2>1 DEF InCall, Counter, Inductive, TypeOK
<1>5. ASSUME pc[r] = "walk", NEW decoded, Conclude(r, decoded),
             decoded = FirstMatch(ConfigOf(r), call[r].context, call[r].flag)
      PROVE  pc[r] # "read" /\ value'[r] = Answer(held[r], call[r])
  <2>1. decoded = Raised
    BY <1>5 DEF Conclude, Goto, InCall, Inductive, TypeOK
  <2>2. value'[r] = decoded /\ Raised # NoValue
    BY <1>5 DEF Conclude, Inductive, TypeOK, Raised, NoValue
  <2>3. QED
    BY <1>5, <2>1, <2>2 DEF Inductive, HeldInv, Answer, ConfigOf
<1>6. CASE NextRule(r)
  <2> DEFINE answer == RuleAnswer(ConfigOf(r).rules[index[r]], ConfigOf(r).kind,
                                  call[r].context, call[r].flag)
  <2>1. pc[r] = "walk"
    BY <1>6 DEF NextRule
  <2>2. IF answer = NoValue THEN Continue(r)
        ELSE /\ Conclude(r, answer)
             /\ answer = FirstMatch(ConfigOf(r), call[r].context, call[r].flag)
    BY <1>6, TurnOfLoop
  <2> HIDE DEF answer
  <2>3. ~Continue(r)
    BY DEF Continue, InCall
  <2>4. QED
    BY <1>5, <2>1, <2>2, <2>3
<1>7. CASE FallToDefault(r)
  BY <1>5, <1>7, EndOfLoop DEF FallToDefault
<1>8. CASE Count(r)
  BY <1>8, CountAnswers DEF Count, Counter
<1>9. QED
  BY <1>1, <1>2, <1>3, <1>4, <1>6, <1>7, <1>8 DEF ReaderStep

(* A getter answers what the contract promises for the ruleset it read, for *)
(* any rulesets, versions, buckets and calls, and however many rulesets are *)
(* published while it walks.                                                *)
THEOREM GettersKeepPromise == Spec => AnswersFirstMatch
<1>1. ASSUME Inductive, [Next]_vars, NEW r \in Reader, InCall(r), ~InCall(r)'
      PROVE  KeepsPromise(r)
  <2>1. pc[r] # "read" /\ value'[r] = Answer(held[r], call[r])
    BY <1>1, ReturnsAnswer
  <2>2. CASE /\ held[r] # None /\ call[r].flag \in DOMAIN held[r]
             /\ held[r][call[r].flag].kind = call[r].want
    BY <1>1, <2>1, <2>2, HeldKeepsPromise DEF Answer, KeepsPromise
  <2>3. CASE ~(/\ held[r] # None /\ call[r].flag \in DOMAIN held[r]
               /\ held[r][call[r].flag].kind = call[r].want)
    BY <2>1, <2>3 DEF Answer, KeepsPromise
  <2>4. QED
    BY <2>2, <2>3
<1>2. Inductive /\ [Next]_vars =>
        [\A r \in Reader : InCall(r) /\ ~InCall(r)' => KeepsPromise(r)]_vars
  BY <1>1
<1>3. QED
  BY <1>2, Invariance, PTL DEF Spec, AnswersFirstMatch

(* The served counter tells how many calls gave a ruleset's value.          *)
THEOREM ServedMeansGiven == Spec => []CountedAsServed
<1>1. Inductive => CountedAsServed
  BY DEF Inductive
<1>2. QED
  BY <1>1, Invariance, PTL

(* A diagnostics record is torn by one attempt at most in that direction.   *)
THEOREM DiagnosticsLagsByOne == Spec => []DiagnosticsOneAhead
<1>1. Inductive => DiagnosticsOneAhead
  BY DEF Inductive, ReportInv, DiagnosticsOneAhead
<1>2. QED
  BY <1>1, Invariance, PTL

(* Raising a percentage only adds contexts to the rule it is raised in.     *)
THEOREM CohortsOnlyGrow == Spec => []RaisingRolloutOnlyAdds
<1>1. Inductive => RaisingRolloutOnlyAdds
  <2> SUFFICES ASSUME Inductive, NEW r \in Reader, pc[r] \in {"served", "noValue"},
                      NEW i \in DOMAIN ConfigOf(r).rules,
                      ConfigOf(r).rules[i].rollout # None,
                      NEW percentage \in ConfigOf(r).rules[i].rollout..100
               PROVE  FirstMatch(WithRollout(ConfigOf(r), i, percentage),
                                 call[r].context, call[r].flag)
                        \in {value[r], DecodeValue(ConfigOf(r).rules[i].serve,
                                                   ConfigOf(r).kind)}
    BY DEF RaisingRolloutOnlyAdds, ConfigOf
  <2>1. call[r] \in Call
    BY LookupAssumption DEF Inductive, TypeOK, HeldInv, InCall
  <2>2. call[r].flag \in Flag /\ call[r].context.key \in ContextKey
    BY <2>1 DEF Call, Context
  <2>3. ConfigOf(r) \in Config
    <3>1. held[r] \in Ruleset /\ call[r].flag \in DOMAIN held[r]
      BY DEF Inductive, TypeOK, HeldInv
    <3>2. QED
      BY <3>1, LookupAssumption DEF ConfigOf
  <2>4. i \in 1..Len(ConfigOf(r).rules) /\ ConfigOf(r).rules[i].rollout \in Int
    <3>1. ConfigOf(r).rules \in Seq(Rule) /\ i \in 1..Len(ConfigOf(r).rules)
      BY <2>3 DEF Config
    <3>2. ConfigOf(r).rules[i] \in Rule
      BY <3>1
    <3>3. QED
      BY <3>1, <3>2 DEF Rule
  <2>5. value[r] = FirstMatch(ConfigOf(r), call[r].context, call[r].flag)
    BY DEF Inductive, WalkInv
  <2>6. percentage \in Int /\ ConfigOf(r).rules[i].rollout <= percentage
    BY <2>4
  <2>7. QED
    BY <2>2, <2>3, <2>4, <2>5, <2>6, RolloutIsMonotonic
<1>2. QED
  BY <1>1, Invariance, PTL
-----------------------------------------------------------------------------
(* Seen from outside, a call is one step.                                   *)

LEMMA AtomicInit == Init => Atomic!Init
BY DEF Init, Atomic!Init, Stage, Seen, Shown, InCall, Counter

(* What the step of one reader changes of the mapped state.                 *)
LEMMA OwnShadow ==
  ASSUME NEW r \in Reader,
         \A q \in Reader \ {r} :
           pc'[q] = pc[q] /\ held'[q] = held[q] /\ value'[q] = value[q]
  PROVE  /\ Stage' = [Stage EXCEPT ![r] = Stage'[r]]
         /\ Seen' = [Seen EXCEPT ![r] = Seen'[r]]
         /\ Shown' = [Shown EXCEPT ![r] = Shown'[r]]
<1>1. Stage' = [Stage EXCEPT ![r] = Stage'[r]]
  BY DEF Stage, InCall
<1>2. Seen' = [Seen EXCEPT ![r] = Seen'[r]]
  BY DEF Seen, InCall
<1>3. Shown' = [Shown EXCEPT ![r] = Shown'[r]]
  BY DEF Shown, InCall
<1>4. QED
  BY <1>1, <1>2, <1>3

LEMMA CallGetterAsks ==
  ASSUME Inductive, NEW r \in Reader, CallGetter(r)
  PROVE  Atomic!Ask(r)
<1>1. /\ pc[r] = "idle" /\ pc' = [pc EXCEPT ![r] = "read"] /\ held' = held
      /\ value' = [value EXCEPT ![r] = NoValue] /\ counters' = counters
      /\ snapshot' = snapshot /\ \E c \in Asked : call' = [call EXCEPT ![r] = c]
  BY DEF CallGetter, Goto, pollerVars
<1>2. /\ Stage' = [Stage EXCEPT ![r] = Stage'[r]] /\ Seen' = [Seen EXCEPT ![r] = Seen'[r]]
      /\ Shown' = [Shown EXCEPT ![r] = Shown'[r]]
  BY <1>1, OwnShadow DEF Inductive, TypeOK
<1>3. pc'[r] = "read" /\ value'[r] = NoValue
  BY <1>1 DEF Inductive, TypeOK
<1>4. Stage[r] = "idle" /\ Stage'[r] = "asked"
  BY <1>1, <1>3 DEF Stage, InCall
<1>5. Shown'[r] = NoValue
  BY <1>3 DEF Shown, InCall
<1>6. Seen' = Seen
  BY <1>1, <1>3 DEF Seen, InCall, Inductive, TypeOK
<1>7. QED
  BY <1>1, <1>2, <1>4, <1>5, <1>6 DEF Atomic!Ask, Atomic!Move

LEMMA ReadSnapshotDecides ==
  ASSUME Inductive, NEW r \in Reader, ReadSnapshot(r)
  PROVE  Atomic!Decide(r)
<1>1. /\ pc[r] = "read" /\ value' = value /\ counters' = counters
      /\ snapshot' = snapshot /\ call' = call
      /\ held' = [held EXCEPT ![r] = snapshot]
      /\ \E to \in Counter \cup {"walk"} : pc' = [pc EXCEPT ![r] = to]
  BY DEF ReadSnapshot, Goto, pollerVars, Counter
<1>2. pc'[r] \in Counter \cup {"walk"} /\ held'[r] = snapshot
  BY <1>1 DEF Inductive, TypeOK
<1>3. /\ Stage' = [Stage EXCEPT ![r] = Stage'[r]] /\ Seen' = [Seen EXCEPT ![r] = Seen'[r]]
      /\ Shown' = [Shown EXCEPT ![r] = Shown'[r]]
  BY <1>1, OwnShadow DEF Inductive, TypeOK
<1>4. InCall(r) /\ InCall(r)' /\ pc'[r] # "read"
  BY <1>1, <1>2 DEF InCall, Counter
<1>5. Stage[r] = "asked" /\ Stage'[r] = "decided"
  BY <1>1, <1>4 DEF Stage
<1>6. Seen'[r] = snapshot
  BY <1>2, <1>4 DEF Seen
<1>7. Shown' = Shown
  <2>1. Shown'[r] = Shown[r]
    BY <1>4 DEF Shown
  <2>2. QED
    BY <1>3, <2>1 DEF Shown
<1>8. QED
  BY <1>1, <1>3, <1>5, <1>6, <1>7 DEF Atomic!Decide, Atomic!Move

(* Where a call ends, its answer is the one in the snapshot it holds.       *)
LEMMA EndsAsDecided ==
  ASSUME Inductive, NEW r \in Reader, InCall(r), pc[r] # "read",
         pc' = [pc EXCEPT ![r] = "idle"], snapshot' = snapshot, call' = call,
         \A q \in Reader \ {r} : held'[q] = held[q] /\ value'[q] = value[q],
         value'[r] = Answer(held[r], call[r]),
         counters'["served"] = IF value'[r] \in Result THEN counters["served"] + 1
                               ELSE counters["served"]
  PROVE  Atomic!Return(r)
<1>1. pc'[r] = "idle" /\ \A q \in Reader \ {r} : pc'[q] = pc[q]
  BY DEF Inductive, TypeOK
<1>2. /\ Stage' = [Stage EXCEPT ![r] = Stage'[r]] /\ Seen' = [Seen EXCEPT ![r] = Seen'[r]]
      /\ Shown' = [Shown EXCEPT ![r] = Shown'[r]]
  BY <1>1, OwnShadow
<1>3. Stage[r] = "decided" /\ Seen[r] = held[r]
  BY DEF Stage, Seen
<1>4. Stage'[r] = "idle" /\ Seen'[r] = None /\ Shown'[r] = value'[r]
  BY <1>1 DEF Stage, Seen, Shown, InCall
<1>5. QED
  BY <1>2, <1>3, <1>4 DEF Atomic!Return, Atomic!Move

(* The loop stops at nothing, at a counter, or with what the walk raised.   *)
LEMMA ConcludeIsAtomic ==
  ASSUME Inductive, NEW r \in Reader, pc[r] = "walk", NEW decoded, Conclude(r, decoded),
         decoded = FirstMatch(ConfigOf(r), call[r].context, call[r].flag),
         UNCHANGED <<pollerVars, counters, call, held>>
  PROVE  Atomic!Return(r) \/ UNCHANGED Atomic!vars
<1>1. value' = [value EXCEPT ![r] = decoded] /\ value'[r] = decoded
  BY DEF Inductive, TypeOK, Conclude
<1>2. /\ \A q \in Reader \ {r} : held'[q] = held[q] /\ value'[q] = value[q]
      /\ InCall(r) /\ snapshot' = snapshot /\ call' = call /\ counters' = counters
  BY <1>1 DEF Inductive, TypeOK, InCall, pollerVars
<1>3. CASE decoded = Raised
  <2>1. pc' = [pc EXCEPT ![r] = "idle"]
    BY <1>3 DEF Conclude, Goto
  <2>2. Answer(held[r], call[r]) = decoded
    <3>1. Raised # NoValue
      BY DEF Raised, NoValue
    <3>2. QED
      BY <1>3, <3>1 DEF Inductive, HeldInv, Answer, ConfigOf
  <2>3. Raised \notin Result
    BY DEF Raised, Result
  <2>4. Atomic!Return(r)
    BY <1>1, <1>2, <1>3, <2>1, <2>2, <2>3, EndsAsDecided
  <2>5. QED
    BY <2>4
<1>4. CASE decoded # Raised
  <2>1. \E to \in {"noValue", "served"} : pc' = [pc EXCEPT ![r] = to]
    BY <1>4 DEF Conclude, Goto
  <2>2. pc'[r] \in {"noValue", "served"} /\ \A q \in Reader \ {r} : pc'[q] = pc[q]
    BY <2>1 DEF Inductive, TypeOK
  <2>3. /\ Stage' = [Stage EXCEPT ![r] = Stage'[r]] /\ Seen' = [Seen EXCEPT ![r] = Seen'[r]]
        /\ Shown' = [Shown EXCEPT ![r] = Shown'[r]]
    BY <1>2, <2>2, OwnShadow
  <2>4. Stage'[r] = Stage[r] /\ Seen'[r] = Seen[r] /\ Shown'[r] = Shown[r]
    <3>1. Stage'[r] = Stage[r]
      BY <2>2 DEF Stage, InCall
    <3>2. Seen'[r] = Seen[r]
      BY <1>2, <2>2 DEF Seen, InCall, Inductive, TypeOK
    <3>3. Shown'[r] = Shown[r]
      BY <2>2 DEF Shown, InCall
    <3>4. QED
      BY <3>1, <3>2, <3>3
  <2>5. Stage' = Stage /\ Seen' = Seen /\ Shown' = Shown
    <3>1. [Stage EXCEPT ![r] = Stage[r]] = Stage
      BY DEF Stage
    <3>2. [Seen EXCEPT ![r] = Seen[r]] = Seen
      BY DEF Seen
    <3>3. [Shown EXCEPT ![r] = Shown[r]] = Shown
      BY DEF Shown
    <3>4. QED
      BY <2>3, <2>4, <3>1, <3>2, <3>3
  <2>6. QED
    BY <1>2, <2>5 DEF Atomic!vars
<1>5. QED
  BY <1>3, <1>4

LEMMA NextRuleIsAtomic ==
  ASSUME Inductive, NEW r \in Reader, NextRule(r)
  PROVE  Atomic!Return(r) \/ UNCHANGED Atomic!vars
<1> DEFINE answer == RuleAnswer(ConfigOf(r).rules[index[r]], ConfigOf(r).kind,
                                call[r].context, call[r].flag)
<1>1. pc[r] = "walk" /\ UNCHANGED <<pollerVars, counters, call, held>>
  BY DEF NextRule
<1>2. IF answer = NoValue THEN Continue(r)
      ELSE /\ Conclude(r, answer)
           /\ answer = FirstMatch(ConfigOf(r), call[r].context, call[r].flag)
  BY TurnOfLoop
<1> HIDE DEF answer
<1>3. CASE Continue(r)
  <2>1. UNCHANGED <<snapshot, counters, call, held, pc, value>>
    BY <1>1, <1>3 DEF Continue, pollerVars
  <2>2. QED
    BY <2>1 DEF Atomic!vars, Stage, Seen, Shown, InCall
<1>4. CASE /\ Conclude(r, answer)
           /\ answer = FirstMatch(ConfigOf(r), call[r].context, call[r].flag)
  BY <1>1, <1>4, ConcludeIsAtomic
<1>5. QED
  BY <1>2, <1>3, <1>4

LEMMA FallToDefaultIsAtomic ==
  ASSUME Inductive, NEW r \in Reader, FallToDefault(r)
  PROVE  Atomic!Return(r) \/ UNCHANGED Atomic!vars
<1> DEFINE decoded == DecodeValue(ConfigOf(r).default, ConfigOf(r).kind)
<1>1. /\ pc[r] = "walk" /\ Conclude(r, decoded)
      /\ UNCHANGED <<pollerVars, counters, call, held>>
  BY DEF FallToDefault
<1>2. decoded = FirstMatch(ConfigOf(r), call[r].context, call[r].flag)
  BY EndOfLoop
<1> HIDE DEF decoded
<1>3. QED
  BY <1>1, <1>2, ConcludeIsAtomic

LEMMA CountReturns ==
  ASSUME Inductive, NEW r \in Reader, Count(r)
  PROVE  Atomic!Return(r)
<1> DEFINE usable == value[r].type = PythonType(call[r].want)
<1>1. /\ pc[r] \in Counter /\ pc' = [pc EXCEPT ![r] = "idle"]
      /\ snapshot' = snapshot /\ call' = call
      /\ counters' = [counters EXCEPT ![pc[r]] = @ + 1]
      /\ value' = [value EXCEPT ![r] = IF usable THEN @ ELSE Fallback]
      /\ held' = [held EXCEPT ![r] = None]
  BY DEF Count, Goto, pollerVars
<1>2. (usable <=> pc[r] = "served") /\ value'[r] = Answer(held[r], call[r])
  BY CountAnswers
<1>3. InCall(r) /\ pc[r] # "read"
  BY <1>1 DEF InCall, Counter
<1>4. \A q \in Reader \ {r} : held'[q] = held[q] /\ value'[q] = value[q]
  BY <1>1 DEF Inductive, TypeOK
<1>5. value'[r] = IF usable THEN value[r] ELSE Fallback
  BY <1>1 DEF Inductive, TypeOK
<1>6. value'[r] \in Result <=> pc[r] = "served"
  <2>1. Fallback \notin Result
    BY DEF Fallback, Result
  <2>2. pc[r] = "served" => value[r] \in Result
    BY DEF Inductive, WalkInv
  <2>3. QED
    BY <1>2, <1>5, <2>1, <2>2
<1>7. counters'["served"] = IF pc[r] = "served" THEN counters["served"] + 1
                            ELSE counters["served"]
  BY <1>1 DEF Inductive, TypeOK, Counter
<1> HIDE DEF usable
<1>8. QED
  BY <1>1, <1>2, <1>3, <1>4, <1>6, <1>7, EndsAsDecided

LEMMA AtomicStep ==
  ASSUME Inductive, [Next]_vars
  PROVE  [Atomic!Next]_(Atomic!vars)
<1>1. CASE Publish
  <2>1. snapshot' \in Ruleset /\ UNCHANGED <<counters, pc, call, held, value>>
    BY <1>1 DEF Publish, lookupVars
  <2>2. Atomic!Publish
    BY <2>1 DEF Atomic!Publish, Stage, Seen, Shown, InCall
  <2>3. QED
    BY <2>2 DEF Atomic!Next
<1>2. CASE Note \/ UNCHANGED vars
  <2>1. UNCHANGED <<snapshot, counters, pc, call, held, value>>
    BY <1>2 DEF Note, vars, pollerVars, lookupVars
  <2>2. QED
    BY <2>1 DEF Atomic!vars, Stage, Seen, Shown, InCall
<1>3. ASSUME NEW r \in Reader, ReaderStep(r) PROVE [Atomic!Next]_(Atomic!vars)
  <2>1. CASE Diagnostics(r)
    <3>1. \E to \in {"idle", "diagnose"} : pc' = [pc EXCEPT ![r] = to]
      BY <2>1 DEF Diagnostics, Goto
    <3>2. pc[r] \in {"idle", "diagnose"} /\ UNCHANGED <<snapshot, counters, call, held, value>>
      BY <2>1 DEF Diagnostics, Goto, pollerVars, lookupVars
    <3>3. \A q \in Reader : InCall(q)' = InCall(q) /\ (InCall(q) => pc'[q] = pc[q])
      BY <3>1, <3>2 DEF InCall, Inductive, TypeOK
    <3>4. Stage' = Stage /\ Seen' = Seen /\ Shown' = Shown
      BY <3>2, <3>3 DEF Stage, Seen, Shown
    <3>5. QED
      BY <3>2, <3>4 DEF Atomic!vars
  <2>2. CASE ~Diagnostics(r)
    BY <1>3, <2>2, CallGetterAsks, ReadSnapshotDecides, NextRuleIsAtomic,
       FallToDefaultIsAtomic, CountReturns DEF ReaderStep, Atomic!Next
  <2>3. QED
    BY <2>1, <2>2
<1>4. QED
  BY <1>1, <1>2, <1>3 DEF Next

(* The getters are linearizable, for any readers, rulesets and calls and    *)
(* however many rulesets are published: the specification implements the    *)
(* one in which a call's answer is decided in one step.                     *)
THEOREM GettersLinearize == Spec => GettersAreAtomic
BY AtomicInit, AtomicStep, Invariance, PTL DEF Spec, GettersAreAtomic, Atomic!Spec
=============================================================================
