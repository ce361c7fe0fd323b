--------------------------- MODULE EvaluateProofs ---------------------------
(***************************************************************************)
(* Proofs about one flag's evaluation: versions are ordered, the first     *)
(* match is what the loop over the rules stops at, and it is what the      *)
(* contract promises.                                                      *)
(***************************************************************************)
EXTENDS Contract, TLAPS, WellFoundedInduction

LEMMA LeastExists ==
  ASSUME NEW S, S \subseteq Nat, S # {}
  PROVE  Least(S) \in S /\ \A j \in S : Least(S) <= j
<1> DEFINE Lt == {ss \in Nat \X Nat : ss[1] < ss[2]}
<1>1. IsWellFoundedOn(Lt, Nat)
  BY NatLessThanWellFounded DEF OpToRel
<1>2. \A i, j \in Nat : <<j, i>> \in Lt <=> j < i
  OBVIOUS
<1> HIDE DEF Lt
<1>3. PICK i \in S : \A j \in S : ~(<<j, i>> \in Lt)
  BY <1>1, WFMin
<1>4. ASSUME NEW j \in S PROVE i <= j
  <2>1. i \in Nat /\ j \in Nat
    OBVIOUS
  <2>2. ~(<<j, i>> \in Lt)
    BY <1>3
  <2>3. ~(j < i)
    BY <1>2, <2>1, <2>2
  <2>4. QED
    BY <2>1, <2>3
<1>5. QED
  BY <1>4 DEF Least

LEMMA LeastIs ==
  ASSUME NEW S, S \subseteq Nat, NEW i \in S, \A j \in S : i <= j
  PROVE  Least(S) = i
<1>1. Least(S) \in S /\ Least(S) <= i
  BY LeastExists
<1>2. i \in Nat /\ Least(S) \in Nat /\ i <= Least(S)
  BY <1>1
<1>3. QED
  BY <1>1, <1>2

-----------------------------------------------------------------------------
(* Versions                                                                *)

Place == Nat \ {0}

Precedes(a, b) ==
  \E i \in Place : /\ Component(a, i) < Component(b, i)
                   /\ \A j \in Place : j < i => Component(a, j) = Component(b, j)

Same(a, b) == \A i \in Place : Component(a, i) = Component(b, i)

LEMMA ComponentType ==
  ASSUME NEW a \in Seq(Nat), NEW i \in Place
  PROVE  Component(a, i) \in Nat
BY DEF Component, Place

(* The order is decided at the first component that differs.                *)
LEMMA FirstDifference ==
  ASSUME NEW a \in Seq(Nat), NEW b \in Seq(Nat)
  PROVE  \/ CompareVersions(a, b) = 0 /\ Same(a, b)
         \/ CompareVersions(a, b) = -1 /\ Precedes(a, b)
         \/ CompareVersions(a, b) = 1 /\ Precedes(b, a)
<1> DEFINE D == Differ(a, b)
<1>1. \A i \in Place : Component(a, i) # Component(b, i) => i \in D
  BY DEF Differ, Component, Place
<1>2. D \subseteq Nat /\ \A i \in D : i \in Place
  BY DEF Differ, Place
<1>3. CASE D = {}
  <2>1. CompareVersions(a, b) = 0
    BY <1>3 DEF CompareVersions
  <2>2. QED
    BY <1>1, <1>3, <2>1 DEF Same
<1>4. CASE D # {}
  <2> DEFINE i == Least(D)
  <2>1. i \in D /\ \A j \in D : i <= j
    BY <1>2, <1>4, LeastExists
  <2>2. i \in Place
    BY <1>2, <2>1
  <2>3. Component(a, i) \in Nat /\ Component(b, i) \in Nat
    BY <2>2, ComponentType
  <2>4. Component(a, i) # Component(b, i)
    BY <2>1 DEF Differ
  <2>5. CompareVersions(a, b) = IF Component(a, i) < Component(b, i) THEN -1 ELSE 1
    BY <1>4 DEF CompareVersions
  <2> HIDE DEF i
  <2>6. \A j \in Place : j < i => Component(a, j) = Component(b, j)
    BY <1>1, <2>1, <2>2 DEF Place
  <2>7. CASE Component(a, i) < Component(b, i)
    BY <2>2, <2>5, <2>6, <2>7 DEF Precedes
  <2>8. CASE Component(b, i) < Component(a, i)
    BY <2>2, <2>3, <2>5, <2>6, <2>8 DEF Precedes
  <2>9. QED
    BY <2>3, <2>4, <2>7, <2>8
<1>5. QED
  BY <1>3, <1>4

LEMMA PrecedesIsStrict ==
  ASSUME NEW a \in Seq(Nat), NEW b \in Seq(Nat), Precedes(a, b)
  PROVE  ~Same(a, b) /\ ~Precedes(b, a)
<1>1. PICK i \in Place : /\ Component(a, i) < Component(b, i)
                         /\ \A j \in Place : j < i => Component(a, j) = Component(b, j)
  BY DEF Precedes
<1>2. \A j \in Place : Component(a, j) \in Nat /\ Component(b, j) \in Nat
  BY ComponentType
<1>3. ~Same(a, b)
  BY <1>1, <1>2 DEF Same
<1>4. ~Precedes(b, a)
  <2> SUFFICES ASSUME NEW j \in Place, Component(b, j) < Component(a, j),
                      \A k \in Place : k < j => Component(b, k) = Component(a, k)
               PROVE  FALSE
    BY DEF Precedes
  <2>1. i < j \/ j < i \/ i = j
    BY DEF Place
  <2>2. QED
    BY <1>1, <1>2, <2>1
<1>5. QED
  BY <1>3, <1>4

LEMMA PrecedesIsTransitive ==
  ASSUME NEW a \in Seq(Nat), NEW b \in Seq(Nat), NEW c \in Seq(Nat),
         Precedes(a, b), Precedes(b, c)
  PROVE  Precedes(a, c)
<1>1. PICK i \in Place : /\ Component(a, i) < Component(b, i)
                         /\ \A j \in Place : j < i => Component(a, j) = Component(b, j)
  BY DEF Precedes
<1>2. PICK k \in Place : /\ Component(b, k) < Component(c, k)
                         /\ \A j \in Place : j < k => Component(b, j) = Component(c, j)
  BY DEF Precedes
<1>3. \A j \in Place : /\ Component(a, j) \in Nat
                       /\ Component(b, j) \in Nat /\ Component(c, j) \in Nat
  BY ComponentType
<1>4. CASE i <= k
  <2>1. Component(a, i) < Component(c, i)
    <3>1. i < k \/ i = k
      BY <1>4 DEF Place
    <3>2. Component(a, i) \in Nat /\ Component(b, i) \in Nat /\ Component(c, i) \in Nat
      BY <1>3
    <3>3. QED
      BY <1>1, <1>2, <3>1, <3>2
  <2>2. \A j \in Place : j < i => Component(a, j) = Component(c, j)
    BY <1>1, <1>2, <1>4 DEF Place
  <2>3. QED
    BY <2>1, <2>2 DEF Precedes
<1>5. CASE k < i
  <2>1. Component(a, k) < Component(c, k)
    BY <1>1, <1>2, <1>3, <1>5
  <2>2. \A j \in Place : j < k => Component(a, j) = Component(c, j)
    BY <1>1, <1>2, <1>5 DEF Place
  <2>3. QED
    BY <2>1, <2>2 DEF Precedes
<1>6. QED
  BY <1>4, <1>5 DEF Place

(* compare_versions is a total preorder on versions of any length: exactly  *)
(* one of less, equal and greater, whichever side is asked, and transitive, *)
(* so ">= 2.0" and "< 2.0" split every fleet in two (_semver.py:43).        *)
THEOREM VersionsAreOrdered ==
  ASSUME NEW a \in Seq(Nat), NEW b \in Seq(Nat), NEW c \in Seq(Nat)
  PROVE  /\ CompareVersions(a, b) \in {-1, 0, 1}
         /\ CompareVersions(b, a) = -CompareVersions(a, b)
         /\ CompareVersions(a, b) <= 0 /\ CompareVersions(b, c) <= 0
              => CompareVersions(a, c) <= 0
<1>1. CompareVersions(a, b) \in {-1, 0, 1}
  BY FirstDifference
<1>2. CompareVersions(b, a) = -CompareVersions(a, b)
  <2>1. Same(a, b) <=> Same(b, a)
    BY DEF Same
  <2>2. Precedes(a, b) => ~Same(a, b) /\ ~Precedes(b, a)
    BY PrecedesIsStrict
  <2>3. Precedes(b, a) => ~Same(a, b)
    BY <2>1, PrecedesIsStrict
  <2>4. CASE CompareVersions(a, b) = 0 /\ Same(a, b)
    BY <2>1, <2>2, <2>3, <2>4, FirstDifference
  <2>5. CASE CompareVersions(a, b) = -1 /\ Precedes(a, b)
    BY <2>1, <2>2, <2>5, FirstDifference
  <2>6. CASE CompareVersions(a, b) = 1 /\ Precedes(b, a)
    BY <2>1, <2>2, <2>3, <2>6, FirstDifference
  <2>7. QED
    BY <2>4, <2>5, <2>6, FirstDifference
<1>3. ASSUME CompareVersions(a, b) <= 0, CompareVersions(b, c) <= 0
      PROVE  CompareVersions(a, c) <= 0
  <2>1. Same(a, b) \/ Precedes(a, b)
    BY <1>3, FirstDifference
  <2>2. Same(b, c) \/ Precedes(b, c)
    BY <1>3, FirstDifference
  <2>3. Same(a, c) \/ Precedes(a, c)
    <3>1. CASE Same(a, b) /\ Same(b, c)
      BY <3>1 DEF Same
    <3>2. CASE Same(a, b) /\ Precedes(b, c)
      BY <3>2 DEF Same, Precedes
    <3>3. CASE Precedes(a, b) /\ Same(b, c)
      BY <3>3 DEF Same, Precedes
    <3>4. CASE Precedes(a, b) /\ Precedes(b, c)
      BY <3>4, PrecedesIsTransitive
    <3>5. QED
      BY <2>1, <2>2, <3>1, <3>2, <3>3, <3>4
  <2>4. ~Precedes(c, a)
    <3>1. Same(a, c) => Same(c, a)
      BY DEF Same
    <3>2. QED
      BY <2>3, <3>1, PrecedesIsStrict
  <2>5. QED
    BY <2>4, FirstDifference
<1>4. QED
  BY <1>1, <1>2, <1>3

(* A missing component is 0: "2.0" is "2.0.0" (_semver.py:46).              *)
THEOREM TrailingZerosAreInert ==
  ASSUME NEW a \in Seq(Nat)
  PROVE  CompareVersions(a, Append(a, 0)) = 0
<1> DEFINE z == Append(a, 0)
<1>1. z \in Seq(Nat) /\ Len(z) = Len(a) + 1 /\ z[Len(a) + 1] = 0
  OBVIOUS
<1>2. \A i \in 1..Len(a) : z[i] = a[i]
  OBVIOUS
<1> HIDE DEF z
<1>3. Same(a, z)
  BY <1>1, <1>2 DEF Same, Component, Place
<1>4. Same(z, a)
  BY <1>3 DEF Same
<1>5. CompareVersions(a, z) = 0
  BY <1>1, <1>3, <1>4, FirstDifference, PrecedesIsStrict
<1>6. QED
  BY <1>5 DEF z
-----------------------------------------------------------------------------
(* Version conditions                                                      *)

(* A condition of one operator on the same tag and value as another.        *)
Test(operator, tagKey, value) == [tagKey |-> tagKey, operator |-> operator, value |-> value]

LEMMA ParsedVersion ==
  ASSUME NEW t \in Text
  PROVE  ParseVersion(t) \in Seq(Nat)
<1>1. Parts[t] \in Seq(Part)
  BY EvaluateAssumption
<1>2. \A i \in 1..Len(Parts[t]) : Parts[t][i].number \in Nat
  <2>1. \A i \in 1..Len(Parts[t]) : Parts[t][i] \in Part
    BY <1>1
  <2>2. \A part \in Part : part.number \in Nat
    BY DEF Part
  <2>3. QED
    BY <2>1, <2>2
<1>3. ParseVersion(t) = [i \in 1..Len(Parts[t]) |-> Parts[t][i].number]
  BY <1>1 DEF ParseVersion
<1>4. QED
  BY <1>1, <1>2, <1>3

Versions(text, value) == IsVersion(text) /\ IsVersion(value)

Order(text, value) == CompareVersions(ParseVersion(text), ParseVersion(value))

LEMMA VersionTest ==
  ASSUME NEW text, NEW value, NEW tagKey
  PROVE  /\ ConditionHolds(Test("semver_eq", tagKey, value), text)
              <=> (Versions(text, value) /\ Order(text, value) = 0)
         /\ ConditionHolds(Test("semver_gt", tagKey, value), text)
              <=> (Versions(text, value) /\ Order(text, value) = 1)
         /\ ConditionHolds(Test("semver_lt", tagKey, value), text)
              <=> (Versions(text, value) /\ Order(text, value) = -1)
         /\ ConditionHolds(Test("semver_gte", tagKey, value), text)
              <=> (Versions(text, value) /\ Order(text, value) \in {0, 1})
         /\ ConditionHolds(Test("semver_lte", tagKey, value), text)
              <=> (Versions(text, value) /\ Order(text, value) \in {-1, 0})
<1> DEFINE c(operator) == Test(operator, tagKey, value)
<1>1. \A operator : c(operator).operator = operator /\ c(operator).value = value
  BY DEF Test
<1> HIDE DEF c
<1>2. \A operator \in {"semver_eq", "semver_gt", "semver_lt", "semver_gte", "semver_lte"} :
        ConditionHolds(c(operator), text) <=>
          (Versions(text, value) /\ SemverHolds(operator, Order(text, value)))
  BY <1>1 DEF ConditionHolds, Versions, Order
<1> HIDE DEF Versions, Order
<1>3. QED
  BY <1>2 DEF SemverHolds, c

(* The five version operators agree with each other: >= is > or =, <= is <  *)
(* or =, and on two texts that are versions exactly one of <, = and > holds.*)
(* On a text that is no version none of them holds, so >= is not the        *)
(* negation of < (_evaluate.py: _condition_holds fails closed).             *)
THEOREM VersionOperatorsAgree ==
  ASSUME NEW text \in Text, NEW value \in Text, NEW tagKey
  PROVE  LET Holds(operator) == ConditionHolds(Test(operator, tagKey, value), text)
         IN /\ Holds("semver_gte") <=> (Holds("semver_gt") \/ Holds("semver_eq"))
            /\ Holds("semver_lte") <=> (Holds("semver_lt") \/ Holds("semver_eq"))
            /\ ~(Holds("semver_gte") /\ Holds("semver_lt"))
            /\ ~(Holds("semver_lte") /\ Holds("semver_gt"))
            /\ (Holds("semver_gte") \/ Holds("semver_lt"))
                 <=> (IsVersion(text) /\ IsVersion(value))
<1>1. Order(text, value) \in {-1, 0, 1}
  BY ParsedVersion, VersionsAreOrdered DEF Order
<1>2. QED
  BY <1>1, VersionTest DEF Versions

(* An upgrade keeps every lower bound and loses no client an upper bound    *)
(* still lets in: where >= value or > value held for the older version it   *)
(* holds for the newer, and <= value or < value the other way round.        *)
THEOREM UpgradesKeepTheRule ==
  ASSUME NEW old \in Text, NEW new \in Text, NEW value \in Text, NEW tagKey,
         IsVersion(old), IsVersion(new), Order(old, new) <= 0
  PROVE  LET Holds(operator, text) == ConditionHolds(Test(operator, tagKey, value), text)
         IN /\ \A operator \in {"semver_gte", "semver_gt"} :
                 Holds(operator, old) => Holds(operator, new)
            /\ \A operator \in {"semver_lte", "semver_lt"} :
                 Holds(operator, new) => Holds(operator, old)
<1> DEFINE o == ParseVersion(old)
           n == ParseVersion(new)
           v == ParseVersion(value)
<1>1. o \in Seq(Nat) /\ n \in Seq(Nat) /\ v \in Seq(Nat)
  BY ParsedVersion
<1> HIDE DEF o, n, v
<1>2. CompareVersions(o, n) <= 0
  BY DEF Order, o, n
<1>3. /\ CompareVersions(o, v) \in {-1, 0, 1} /\ CompareVersions(n, v) \in {-1, 0, 1}
      /\ CompareVersions(v, o) = -CompareVersions(o, v)
      /\ CompareVersions(v, n) = -CompareVersions(n, v)
      /\ CompareVersions(n, o) = -CompareVersions(o, n)
  BY <1>1, VersionsAreOrdered
<1>4. CompareVersions(n, v) <= 0 => CompareVersions(o, v) <= 0
  BY <1>1, <1>2, VersionsAreOrdered
<1>5. CompareVersions(v, o) <= 0 => CompareVersions(v, n) <= 0
  BY <1>1, <1>2, VersionsAreOrdered
<1>6. CompareVersions(n, v) = 0 => CompareVersions(o, v) # 1
  BY <1>3, <1>4
<1>7. CompareVersions(o, v) = 1 => CompareVersions(n, v) = 1
  <2> SUFFICES ASSUME CompareVersions(o, v) = 1, CompareVersions(n, v) # 1 PROVE FALSE
    OBVIOUS
  <2>1. CompareVersions(n, v) <= 0
    BY <1>3
  <2>2. QED
    BY <1>4, <2>1
<1>8. CompareVersions(n, v) = -1 => CompareVersions(o, v) = -1
  <2> SUFFICES ASSUME CompareVersions(n, v) = -1, CompareVersions(o, v) # -1 PROVE FALSE
    OBVIOUS
  <2>1. CompareVersions(v, o) <= 0
    BY <1>3
  <2>2. QED
    BY <1>3, <1>5, <2>1
<1>9. /\ Order(old, value) = CompareVersions(o, v) /\ Order(new, value) = CompareVersions(n, v)
  BY DEF Order, o, n, v
<1>10. Versions(old, value) <=> Versions(new, value)
  BY DEF Versions
<1>11. \A operator \in {"semver_gte", "semver_gt"} :
         ConditionHolds(Test(operator, tagKey, value), old)
           => ConditionHolds(Test(operator, tagKey, value), new)
  BY <1>3, <1>5, <1>7, <1>9, <1>10, VersionTest
<1>12. \A operator \in {"semver_lte", "semver_lt"} :
         ConditionHolds(Test(operator, tagKey, value), new)
           => ConditionHolds(Test(operator, tagKey, value), old)
  BY <1>3, <1>4, <1>8, <1>9, <1>10, VersionTest
<1>13. QED
  BY <1>11, <1>12

-----------------------------------------------------------------------------
(* Rules                                                                   *)

LEMMA DecodedValue ==
  ASSUME NEW raw \in JsonValue, NEW kind \in {"boolean", "string", "number"}
  PROVE  LET decoded == DecodeValue(raw, kind)
         IN \/ decoded \in {NoValue, Raised}
            \/ /\ decoded \in [type : {"boolean", "string", "float"}, atom : Atom]
               /\ decoded.type = IF kind = "number" THEN "float" ELSE kind
BY DEF DecodeValue, JsonValue

(* The first rule with an answer gives it.                                  *)
LEMMA StopsAtFirst ==
  ASSUME NEW config, NEW context, NEW flag, config.rules \in Seq(Rule),
         NEW i \in 1..Len(config.rules),
         \A j \in 1..(i - 1) :
           RuleAnswer(config.rules[j], config.kind, context, flag) = NoValue,
         RuleAnswer(config.rules[i], config.kind, context, flag) # NoValue
  PROVE  FirstMatch(config, context, flag) =
           RuleAnswer(config.rules[i], config.kind, context, flag)
<1> DEFINE A == Answering(config, context, flag)
<1>1. A \subseteq Nat /\ i \in A
  BY DEF Answering
<1>2. \A j \in A : i <= j
  BY DEF Answering
<1>3. Least(A) = i
  BY <1>1, <1>2, LeastIs
<1>4. QED
  BY <1>1, <1>3 DEF FirstMatch

LEMMA FallsToDefault ==
  ASSUME NEW config, NEW context, NEW flag,
         \A j \in 1..Len(config.rules) :
           RuleAnswer(config.rules[j], config.kind, context, flag) = NoValue
  PROVE  FirstMatch(config, context, flag) = DecodeValue(config.default, config.kind)
BY DEF FirstMatch, Answering

(* A rule's answer under a higher percentage is what it was, or, where the  *)
(* rule had none, the rule's value.                                         *)
LEMMA RaisedRule ==
  ASSUME NEW rule \in Rule, rule.rollout # None, NEW percentage \in Int,
         rule.rollout <= percentage, NEW kind, NEW context, NEW flag \in Flag,
         context.key \in ContextKey
  PROVE  LET raised == [rule EXCEPT !.rollout = percentage]
             before == RuleAnswer(rule, kind, context, flag)
             after == RuleAnswer(raised, kind, context, flag)
         IN after = before \/ (before = NoValue /\ after = DecodeValue(rule.serve, kind))
<1> DEFINE raised == [rule EXCEPT !.rollout = percentage]
           bucket == Bucket[context.key][flag]
<1>1. /\ raised.conditions = rule.conditions /\ raised.serve = rule.serve
      /\ raised.rollout = percentage /\ percentage # None
      /\ rule.rollout \in Int
  BY EvaluateAssumption DEF Rule
<1>2. bucket = Unencodable \/ bucket \in Int
  <2>1. Bucket[context.key] \in [Flag -> 0..99 \cup {Unencodable}]
    BY EvaluateAssumption
  <2>2. bucket \in 0..99 \cup {Unencodable}
    BY <2>1
  <2>3. QED
    BY <2>2
<1>3. RuleMatches(raised, context.tags) <=> RuleMatches(rule, context.tags)
  BY <1>1 DEF RuleMatches
<1>4. bucket \in Int => (GatedOut(raised, bucket) => GatedOut(rule, bucket))
  BY <1>1 DEF GatedOut
<1> HIDE DEF raised, bucket
<1>5. RuleAnswer(rule, kind, context, flag) =
        IF ~RuleMatches(rule, context.tags) THEN NoValue
        ELSE IF bucket = Unencodable THEN Raised
        ELSE IF GatedOut(rule, bucket) THEN NoValue
        ELSE DecodeValue(rule.serve, kind)
  BY DEF RuleAnswer, bucket
<1>6. RuleAnswer(raised, kind, context, flag) =
        IF ~RuleMatches(rule, context.tags) THEN NoValue
        ELSE IF bucket = Unencodable THEN Raised
        ELSE IF GatedOut(raised, bucket) THEN NoValue
        ELSE DecodeValue(rule.serve, kind)
  BY <1>1, <1>3 DEF RuleAnswer, bucket
<1>7. \/ RuleAnswer(raised, kind, context, flag) = RuleAnswer(rule, kind, context, flag)
      \/ /\ RuleAnswer(rule, kind, context, flag) = NoValue
         /\ RuleAnswer(raised, kind, context, flag) = DecodeValue(rule.serve, kind)
  <2>1. CASE ~RuleMatches(rule, context.tags) \/ bucket = Unencodable
    BY <1>5, <1>6, <2>1
  <2>2. CASE bucket \in Int /\ GatedOut(raised, bucket)
    BY <1>4, <1>5, <1>6, <2>2
  <2>3. CASE ~GatedOut(raised, bucket)
    BY <1>5, <1>6, <2>3
  <2>4. QED
    BY <1>2, <2>1, <2>2, <2>3
<1>8. QED
  BY <1>7 DEF raised

(* Raising a percentage takes no context away from the rule and moves none  *)
(* between the others, for any rules, conditions and buckets.               *)
THEOREM RolloutIsMonotonic ==
  ASSUME NEW config \in Config, NEW i \in 1..Len(config.rules),
         config.rules[i].rollout # None, NEW percentage \in Int,
         config.rules[i].rollout <= percentage,
         NEW context, context.key \in ContextKey, NEW flag \in Flag
  PROVE  FirstMatch(WithRollout(config, i, percentage), context, flag)
           \in {FirstMatch(config, context, flag),
                DecodeValue(config.rules[i].serve, config.kind)}
<1> DEFINE raised == WithRollout(config, i, percentage)
           Before(j) == RuleAnswer(config.rules[j], config.kind, context, flag)
           After(j) == RuleAnswer(raised.rules[j], raised.kind, context, flag)
           A == Answering(config, context, flag)
           B == Answering(raised, context, flag)
<1>1. config.rules \in Seq(Rule) /\ config.rules[i] \in Rule
  BY DEF Config
<1>2. /\ raised.kind = config.kind /\ raised.default = config.default
      /\ raised.rules = [config.rules EXCEPT ![i] = [@ EXCEPT !.rollout = percentage]]
  BY DEF Config, WithRollout
<1>3. /\ Len(raised.rules) = Len(config.rules)
      /\ raised.rules[i] = [config.rules[i] EXCEPT !.rollout = percentage]
      /\ \A j \in 1..Len(config.rules) : j # i => raised.rules[j] = config.rules[j]
  BY <1>1, <1>2
<1>4. \A j \in 1..Len(config.rules) : j # i => After(j) = Before(j)
  BY <1>2, <1>3
<1>5. \/ After(i) = Before(i)
      \/ Before(i) = NoValue /\ After(i) = DecodeValue(config.rules[i].serve, config.kind)
  BY <1>1, <1>2, <1>3, RaisedRule
<1>6. /\ A = {j \in 1..Len(config.rules) : Before(j) # NoValue}
      /\ B = {j \in 1..Len(config.rules) : After(j) # NoValue}
  BY <1>3 DEF Answering
<1>7. /\ FirstMatch(config, context, flag) =
           IF A = {} THEN DecodeValue(config.default, config.kind) ELSE Before(Least(A))
      /\ FirstMatch(raised, context, flag) =
           IF B = {} THEN DecodeValue(config.default, config.kind) ELSE After(Least(B))
  BY <1>2 DEF FirstMatch
<1> HIDE DEF raised, Before, After, A, B
<1>8. CASE After(i) = Before(i)
  <2>1. \A j \in 1..Len(config.rules) : After(j) = Before(j)
    BY <1>4, <1>8
  <2>2. A = B
    BY <1>6, <2>1
  <2>3. A # {} => Least(A) \in 1..Len(config.rules)
    <3>1. A \subseteq 1..Len(config.rules) /\ A \subseteq Nat
      BY <1>6
    <3>2. QED
      BY <3>1, LeastExists
  <2>4. FirstMatch(raised, context, flag) = FirstMatch(config, context, flag)
    BY <1>7, <2>1, <2>2, <2>3
  <2>5. QED
    BY <2>4 DEF raised
<1>9. CASE /\ Before(i) = NoValue /\ After(i) # NoValue
           /\ After(i) = DecodeValue(config.rules[i].serve, config.kind)
  <2>1. A \subseteq Nat /\ B \subseteq Nat /\ B = A \cup {i} /\ i \notin A
    BY <1>4, <1>6, <1>9
  <2>2. Least(B) \in B /\ \A j \in B : Least(B) <= j
    BY <2>1, LeastExists
  <2>3. CASE Least(B) = i
    BY <1>7, <1>9, <2>1, <2>3 DEF raised
  <2>4. CASE Least(B) # i
    <3>1. Least(B) \in A /\ \A j \in A : Least(B) <= j
      BY <2>1, <2>2, <2>4
    <3>2. Least(A) = Least(B)
      BY <2>1, <3>1, LeastIs
    <3>3. Least(B) \in 1..Len(config.rules)
      BY <1>6, <3>1
    <3>4. A # {} /\ B # {}
      BY <3>1, <2>2
    <3>5. QED
      BY <1>4, <1>7, <2>4, <3>2, <3>3, <3>4 DEF raised
  <2>5. QED
    BY <2>3, <2>4
<1>10. QED
  BY <1>5, <1>8, <1>9

-----------------------------------------------------------------------------
(* What a rule without an answer, and a rule with one, mean to the others.  *)

(* The same flag with rule i taken out.                                     *)
Without(config, i) ==
  [kind |-> config.kind, default |-> config.default,
   rules |-> [j \in 1..(Len(config.rules) - 1) |->
                IF j < i THEN config.rules[j] ELSE config.rules[j + 1]]]

LEMMA WithoutRules ==
  ASSUME NEW config, config.rules \in Seq(Rule), NEW i \in 1..Len(config.rules)
  PROVE  LET less == Without(config, i)
         IN /\ less.kind = config.kind /\ less.default = config.default
            /\ Len(less.rules) = Len(config.rules) - 1
            /\ \A j \in 1..(Len(config.rules) - 1) :
                 less.rules[j] = IF j < i THEN config.rules[j] ELSE config.rules[j + 1]
<1> DEFINE n == Len(config.rules) - 1
           rules == [j \in 1..n |-> IF j < i THEN config.rules[j] ELSE config.rules[j + 1]]
<1>1. n \in Nat
  OBVIOUS
<1>2. \A j \in 1..n : (IF j < i THEN config.rules[j] ELSE config.rules[j + 1]) \in Rule
  OBVIOUS
<1>3. rules \in [1..n -> Rule]
  BY <1>2
<1>4. rules \in Seq(Rule) /\ Len(rules) = n
  BY <1>1, <1>3
<1>5. QED
  BY <1>4 DEF Without

(* A rule that has no answer for a context might as well not be there: it   *)
(* neither ends the walk nor changes what a later rule or the default gives *)
(* (the three ways to fall through in evaluate_flag).                       *)
THEOREM SilentRuleIsInert ==
  ASSUME NEW config \in Config, NEW i \in 1..Len(config.rules), NEW context, NEW flag,
         RuleAnswer(config.rules[i], config.kind, context, flag) = NoValue
  PROVE  FirstMatch(Without(config, i), context, flag) = FirstMatch(config, context, flag)
<1> DEFINE less == Without(config, i)
           n == Len(config.rules)
           Full(j) == RuleAnswer(config.rules[j], config.kind, context, flag)
           Short(j) == RuleAnswer(less.rules[j], config.kind, context, flag)
           A == Answering(config, context, flag)
           B == Answering(less, context, flag)
<1>1. config.rules \in Seq(Rule) /\ n \in Nat
  BY DEF Config
<1>2. /\ less.kind = config.kind /\ less.default = config.default
      /\ Len(less.rules) = n - 1
      /\ \A j \in 1..(n - 1) :
           less.rules[j] = IF j < i THEN config.rules[j] ELSE config.rules[j + 1]
  BY <1>1, WithoutRules
<1>3. \A j \in 1..(n - 1) : Short(j) = IF j < i THEN Full(j) ELSE Full(j + 1)
  BY <1>2
<1>4. A = {j \in 1..n : Full(j) # NoValue} /\ B = {j \in 1..(n - 1) : Short(j) # NoValue}
  BY <1>2 DEF Answering
<1>5. /\ FirstMatch(config, context, flag) =
           IF A = {} THEN DecodeValue(config.default, config.kind) ELSE Full(Least(A))
      /\ FirstMatch(less, context, flag) =
           IF B = {} THEN DecodeValue(config.default, config.kind) ELSE Short(Least(B))
  BY <1>2 DEF FirstMatch
<1>6. Full(i) = NoValue
  OBVIOUS
<1> HIDE DEF less, n, Full, Short, A, B
<1>7. i \in 1..n /\ i \notin A
  BY <1>4, <1>6 DEF n
<1>8. \A k \in B : IF k < i THEN k \in A ELSE k + 1 \in A
  BY <1>1, <1>3, <1>4, <1>7
<1>9. CASE A = {}
  <2>1. B = {}
    BY <1>8, <1>9
  <2>2. QED
    BY <1>5, <1>9, <2>1 DEF less
<1>10. CASE A # {}
  <2> DEFINE m == Least(A)
             k == IF m < i THEN m ELSE m - 1
  <2>1. A \subseteq Nat
    BY <1>1, <1>4
  <2>2. m \in A /\ \A j \in A : m <= j
    BY <1>10, <2>1, LeastExists
  <2>3. m \in 1..n /\ m # i /\ Full(m) # NoValue
    BY <1>4, <1>7, <2>2
  <2> HIDE DEF m
  <2>4. k \in 1..(n - 1) /\ Short(k) = Full(m)
    <3>1. CASE m < i
      BY <1>1, <1>3, <1>7, <2>3, <3>1
    <3>2. CASE m > i
      BY <1>1, <1>3, <1>7, <2>3, <3>2
    <3>3. QED
      BY <1>7, <2>3, <3>1, <3>2
  <2>5. k \in B
    BY <1>4, <2>3, <2>4
  <2>6. \A j \in B : k <= j
    <3> SUFFICES ASSUME NEW j \in B PROVE k <= j
      OBVIOUS
    <3>1. j \in Nat /\ IF j < i THEN m <= j ELSE m <= j + 1
      BY <1>1, <1>4, <1>8, <2>2
    <3>2. QED
      BY <1>7, <2>3, <3>1
  <2>7. B \subseteq Nat
    BY <1>1, <1>4
  <2>8. Least(B) = k
    BY <2>5, <2>6, <2>7, LeastIs
  <2>9. QED
    BY <1>5, <1>10, <2>4, <2>5, <2>8 DEF less, m
<1>11. QED
  BY <1>9, <1>10

(* The first rule with an answer decides: whatever is behind it, and the    *)
(* default, may change without the context noticing.  So a last rule for    *)
(* everyone makes the default unreachable.                                  *)
THEOREM FirstAnswerDecides ==
  ASSUME NEW config \in Config, NEW other \in Config, NEW context, NEW flag,
         other.kind = config.kind,
         NEW i \in 1..Len(config.rules), i <= Len(other.rules),
         \A j \in 1..i : other.rules[j] = config.rules[j],
         RuleAnswer(config.rules[i], config.kind, context, flag) # NoValue
  PROVE  FirstMatch(other, context, flag) = FirstMatch(config, context, flag)
<1> DEFINE Full(j) == RuleAnswer(config.rules[j], config.kind, context, flag)
           A == Answering(config, context, flag)
<1>1. config.rules \in Seq(Rule) /\ other.rules \in Seq(Rule)
  BY DEF Config
<1>2. A = {j \in 1..Len(config.rules) : Full(j) # NoValue} /\ i \in A
  BY DEF Answering
<1>3. Full(i) # NoValue
  OBVIOUS
<1>4. \A j \in 1..i : RuleAnswer(other.rules[j], other.kind, context, flag) = Full(j)
  OBVIOUS
<1> HIDE DEF Full, A
<1>5. PICK m \in A : \A j \in A : m <= j
  <2>1. A \subseteq Nat /\ A # {}
    BY <1>1, <1>2
  <2>2. QED
    BY <2>1, LeastExists
<1>6. m \in 1..i /\ Full(m) # NoValue /\ \A j \in 1..(m - 1) : Full(j) = NoValue
  BY <1>2, <1>5
<1>7. FirstMatch(config, context, flag) = Full(m)
  BY <1>1, <1>6, StopsAtFirst DEF Full
<1>8. FirstMatch(other, context, flag) = Full(m)
  <2>1. m \in 1..Len(other.rules)
    BY <1>1, <1>6
  <2>2. RuleAnswer(other.rules[m], other.kind, context, flag) = Full(m)
    BY <1>4, <1>6
  <2>3. \A j \in 1..(m - 1) :
          RuleAnswer(other.rules[j], other.kind, context, flag) = NoValue
    BY <1>4, <1>6
  <2>4. QED
    BY <1>1, <1>6, <2>1, <2>2, <2>3, StopsAtFirst
<1>9. QED
  BY <1>7, <1>8

(* A key with a UTF-8 form has a bucket.                                    *)
LEMMA BucketOf ==
  ASSUME NEW key \in ContextKey, NEW flag \in Flag, Bucket[key][flag] # Unencodable
  PROVE  Bucket[key][flag] \in 0..99
<1>1. Bucket[key] \in [Flag -> 0..99 \cup {Unencodable}]
  BY EvaluateAssumption
<1>2. QED
  BY <1>1

LEMMA ZeroGate ==
  ASSUME NEW rule, rule.rollout = 0, NEW kind, NEW context, context.key \in ContextKey,
         NEW flag \in Flag, Bucket[context.key][flag] # Unencodable
  PROVE  RuleAnswer(rule, kind, context, flag) = NoValue
<1> DEFINE bucket == Bucket[context.key][flag]
<1>1. bucket \in 0..99
  BY BucketOf
<1>2. rule.rollout # None
  BY EvaluateAssumption
<1> HIDE DEF bucket
<1>3. bucket >= 0
  BY <1>1
<1>4. GatedOut(rule, bucket)
  BY <1>2, <1>3 DEF GatedOut
<1>5. QED
  BY <1>2, <1>4 DEF RuleAnswer, bucket

(* A gate of 0 is a gate: the rule serves no context whose key has a bucket,*)
(* as if it were not there (_evaluate.py: presence is "is not None", never  *)
(* truthiness).                                                             *)
THEOREM ZeroGateIsNoRule ==
  ASSUME NEW config \in Config, NEW i \in 1..Len(config.rules),
         config.rules[i].rollout = 0, NEW context, context.key \in ContextKey,
         NEW flag \in Flag, Bucket[context.key][flag] # Unencodable
  PROVE  FirstMatch(config, context, flag) = FirstMatch(Without(config, i), context, flag)
BY ZeroGate, SilentRuleIsInert

(* A gate of 100 lets in every context whose key has a bucket: the rule     *)
(* answers as it does with the gate taken away, so finishing a rollout and  *)
(* removing it are one.                                                     *)
THEOREM FullGateIsNoGate ==
  ASSUME NEW rule \in Rule, rule.rollout = 100, NEW kind, NEW context,
         context.key \in ContextKey, NEW flag \in Flag,
         Bucket[context.key][flag] # Unencodable
  PROVE  RuleAnswer(rule, kind, context, flag) =
           RuleAnswer([rule EXCEPT !.rollout = None], kind, context, flag)
<1> DEFINE open == [rule EXCEPT !.rollout = None]
<1>1. /\ open.conditions = rule.conditions /\ open.serve = rule.serve
      /\ open.rollout = None
  BY DEF Rule
<1>2. Bucket[context.key][flag] \in 0..99
  BY BucketOf
<1>3. ~GatedOut(rule, Bucket[context.key][flag])
  BY <1>2 DEF GatedOut
<1>4. RuleMatches(open, context.tags) <=> RuleMatches(rule, context.tags)
  BY <1>1 DEF RuleMatches
<1> HIDE DEF open
<1>5. RuleAnswer(rule, kind, context, flag) =
        IF RuleMatches(rule, context.tags) THEN DecodeValue(rule.serve, kind) ELSE NoValue
  BY <1>3, EvaluateAssumption DEF RuleAnswer
<1>6. RuleAnswer(open, kind, context, flag) =
        IF RuleMatches(rule, context.tags) THEN DecodeValue(rule.serve, kind) ELSE NoValue
  BY <1>1, <1>4 DEF RuleAnswer
<1>7. QED
  BY <1>5, <1>6 DEF open

Known == {"eq", "neq", "contains",
          "semver_eq", "semver_gt", "semver_gte", "semver_lt", "semver_lte"}

(* A condition this build cannot judge fails closed, "neq" included: where  *)
(* one condition of a rule names an unknown operator, or a tag the context  *)
(* lacks, the flag answers as if the rule were not in it, so a ruleset from *)
(* a newer backend degrades to its later rules and never to a wrong match.  *)
THEOREM UnknownFailsClosed ==
  ASSUME NEW config \in Config, NEW i \in 1..Len(config.rules),
         NEW condition \in config.rules[i].conditions, NEW context, NEW flag,
         condition.operator \notin Known \/ condition.tagKey \notin DOMAIN context.tags
  PROVE  FirstMatch(config, context, flag) = FirstMatch(Without(config, i), context, flag)
<1>1. \A text : condition.operator \notin Known => ~ConditionHolds(condition, text)
  <2> SUFFICES ASSUME NEW text, condition.operator \notin Known
               PROVE  ~ConditionHolds(condition, text)
    OBVIOUS
  <2>1. \A cmp : ~SemverHolds(condition.operator, cmp)
    BY DEF Known, SemverHolds
  <2>2. QED
    BY <2>1 DEF Known, ConditionHolds
<1>2. ~RuleMatches(config.rules[i], context.tags)
  BY <1>1 DEF RuleMatches
<1>3. RuleAnswer(config.rules[i], config.kind, context, flag) = NoValue
  BY <1>2 DEF RuleAnswer
<1>4. QED
  BY <1>3, SilentRuleIsInert

(* One more condition on a rule can only take contexts away from it: who    *)
(* got an answer from the rule before may lose it and never gets another.   *)
THEOREM ConditionsOnlyNarrow ==
  ASSUME NEW rule \in Rule, NEW condition \in Condition,
         NEW kind, NEW context, NEW flag
  PROVE  RuleAnswer([rule EXCEPT !.conditions = @ \cup {condition}], kind, context, flag)
           \in {NoValue, RuleAnswer(rule, kind, context, flag)}
<1> DEFINE narrow == [rule EXCEPT !.conditions = @ \cup {condition}]
<1>1. /\ narrow.conditions = rule.conditions \cup {condition}
      /\ narrow.serve = rule.serve /\ narrow.rollout = rule.rollout
  BY DEF Rule
<1> HIDE DEF narrow
<1>2. RuleMatches(narrow, context.tags) => RuleMatches(rule, context.tags)
  BY <1>1 DEF RuleMatches
<1>3. GatedOut(narrow, Bucket[context.key][flag]) <=> GatedOut(rule, Bucket[context.key][flag])
  BY <1>1 DEF GatedOut
<1>4. RuleAnswer(narrow, kind, context, flag) \in {NoValue, RuleAnswer(rule, kind, context, flag)}
  BY <1>1, <1>2, <1>3 DEF RuleAnswer
<1>5. QED
  BY <1>4 DEF narrow

-----------------------------------------------------------------------------
(* The contract                                                            *)

LEMMA ReadableIsVersion ==
  ASSUME NEW t \in Text
  PROVE  Readable(t) <=> IsVersion(t)
<1>1. \A i \in DOMAIN Parts[t] : Parts[t][i].digits \in Nat
  <2>1. Parts[t] \in Seq(Part)
    BY EvaluateAssumption
  <2>2. \A i \in DOMAIN Parts[t] : Parts[t][i] \in Part
    BY <2>1
  <2>3. \A part \in Part : part.digits \in Nat
    BY DEF Part
  <2>4. QED
    BY <2>2, <2>3
<1>2. \A d \in Nat : (d > 0 /\ d < 11) <=> d \in 1..10
  OBVIOUS
<1>3. QED
  BY <1>1, <1>2 DEF Readable, IsVersion, MAX_VERSION_COMPONENT_DIGITS

LEMMA AtIsComponent ==
  ASSUME NEW t \in Text, NEW i \in Place
  PROVE  At(t, i) = Component(ParseVersion(t), i)
<1>1. Parts[t] \in Seq(Part)
  BY EvaluateAssumption
<1>2. DOMAIN Parts[t] = 1..Len(Parts[t]) /\ Len(Parts[t]) \in Nat
  BY <1>1
<1>3. ParseVersion(t) \in Seq(Nat) /\ DOMAIN ParseVersion(t) = 1..Len(Parts[t])
  BY <1>2, ParsedVersion DEF ParseVersion
<1>4. Len(ParseVersion(t)) = Len(Parts[t])
  BY <1>2, <1>3
<1>5. i \in DOMAIN Parts[t] <=> i <= Len(ParseVersion(t))
  BY <1>2, <1>4 DEF Place
<1>6. QED
  BY <1>5 DEF At, Component, ParseVersion

LEMMA OlderIsPrecedes ==
  ASSUME NEW s \in Text, NEW t \in Text
  PROVE  Older(s, t) <=> Precedes(ParseVersion(s), ParseVersion(t))
<1>1. /\ Parts[s] \in Seq(Part) /\ Parts[t] \in Seq(Part)
  BY EvaluateAssumption
<1>2. DOMAIN Parts[s] \cup DOMAIN Parts[t] \subseteq Place
  BY <1>1 DEF Place
<1>3. \A i \in Place : \A j : j \in 1..(i - 1) <=> j \in Place /\ j < i
  BY DEF Place
<1>4. \A i \in Place : i \notin DOMAIN Parts[s] \cup DOMAIN Parts[t] => ~(At(s, i) < At(t, i))
  BY DEF At
<1>5. QED
  BY <1>2, <1>3, <1>4, AtIsComponent DEF Older, Precedes

(* A version is older, the same or newer, as the comparison says.           *)
LEMMA OlderIsLess ==
  ASSUME NEW s \in Text, NEW t \in Text
  PROVE  /\ Older(s, t) <=> Order(s, t) = -1
         /\ Older(t, s) <=> Order(s, t) = 1
         /\ Order(s, t) \in {-1, 0, 1}
<1> DEFINE a == ParseVersion(s)
           b == ParseVersion(t)
<1>1. a \in Seq(Nat) /\ b \in Seq(Nat)
  BY ParsedVersion
<1>2. /\ Older(s, t) <=> Precedes(a, b)
      /\ Older(t, s) <=> Precedes(b, a)
  BY OlderIsPrecedes
<1> HIDE DEF a, b
<1>3. \/ CompareVersions(a, b) = 0 /\ Same(a, b)
      \/ CompareVersions(a, b) = -1 /\ Precedes(a, b)
      \/ CompareVersions(a, b) = 1 /\ Precedes(b, a)
  BY <1>1, FirstDifference
<1>4. /\ Precedes(a, b) => ~Same(a, b) /\ ~Precedes(b, a)
      /\ Precedes(b, a) => ~Same(b, a) /\ ~Precedes(a, b)
  BY <1>1, PrecedesIsStrict
<1>5. Same(a, b) => Same(b, a)
  BY DEF Same
<1>6. Order(s, t) = CompareVersions(a, b)
  BY DEF Order, a, b
<1>7. QED
  BY <1>2, <1>3, <1>4, <1>5, <1>6

LEMMA MeantIsHolds ==
  ASSUME NEW condition \in Condition, NEW text \in Text
  PROVE  ConditionHolds(condition, text) <=> Meant(condition, text)
<1> DEFINE value == condition.value
<1>1. value \in Text
  BY DEF Condition
<1>2. Readable(text) /\ Readable(value) <=> IsVersion(text) /\ IsVersion(value)
  BY <1>1, ReadableIsVersion
<1>3. \A operator : SemverHolds(operator, Order(text, value)) <=> Compares(operator, text, value)
  <2>1. /\ Older(text, value) <=> Order(text, value) = -1
        /\ Older(value, text) <=> Order(text, value) = 1
        /\ Order(text, value) \in {-1, 0, 1}
    BY <1>1, OlderIsLess
  <2> HIDE DEF value
  <2>2. QED
    BY <2>1 DEF SemverHolds, Compares
<1>4. QED
  BY <1>2, <1>3 DEF ConditionHolds, Meant, Order

LEMMA TargetsIsMatches ==
  ASSUME NEW rule \in Rule, NEW context \in Context
  PROVE  RuleMatches(rule, context.tags) <=> Targets(rule, context.tags)
<1> DEFINE tags == context.tags
<1>1. rule.conditions \subseteq Condition
  BY DEF Rule
<1>2. \A key \in DOMAIN tags : tags[key] \in Text
  <2>1. PICK keys \in SUBSET TagKey : tags \in [keys -> Text]
    BY DEF Context
  <2>2. QED
    BY <2>1
<1> HIDE DEF tags
<1>3. \A condition \in rule.conditions : condition.tagKey \in DOMAIN tags =>
        (ConditionHolds(condition, tags[condition.tagKey])
           <=> Meant(condition, tags[condition.tagKey]))
  BY <1>1, <1>2, MeantIsHolds
<1>4. RuleMatches(rule, tags) <=> Targets(rule, tags)
  BY <1>3 DEF RuleMatches, Targets
<1>5. QED
  BY <1>4 DEF tags

LEMMA DeliveredIsDecoded ==
  ASSUME NEW raw \in JsonValue, NEW kind \in {"boolean", "string", "number"}
  PROVE  DecodeValue(raw, kind) =
           IF raw.type \in Carried[kind] THEN Delivered(raw, kind)
           ELSE IF Overflows(raw, kind) THEN Raised ELSE NoValue
<1>1. raw = [type |-> raw.type, atom |-> raw.atom]
  BY DEF JsonValue
<1>2. kind = "number" => [raw EXCEPT !.type = "float"] = Delivered(raw, kind)
  BY <1>1 DEF Delivered
<1>3. kind # "number" /\ raw.type = kind => raw = Delivered(raw, kind)
  BY <1>1 DEF Delivered
<1>4. Carried[kind] = IF kind = "number" THEN {"integer", "float"} ELSE {kind}
  BY DEF Carried
<1>5. QED
  BY <1>2, <1>3, <1>4 DEF DecodeValue, Overflows

(* One rule's answer is what the contract makes of it.                      *)
LEMMA RuleKeepsPromise ==
  ASSUME NEW rule \in Rule, NEW kind \in {"boolean", "string", "number"},
         NEW context \in Context, NEW flag \in Flag
  PROVE  LET gives == Gives(rule, kind, context, flag)
             breaks == Breaks(rule, kind, context, flag)
         IN /\ RuleAnswer(rule, kind, context, flag) =
                 IF gives THEN Delivered(rule.serve, kind)
                 ELSE IF breaks THEN Raised ELSE NoValue
            /\ ~(gives /\ breaks)
<1> DEFINE bucket == Bucket[context.key][flag]
<1>1. RuleMatches(rule, context.tags) <=> Targets(rule, context.tags)
  BY TargetsIsMatches
<1>2. rule.rollout \in Int \cup {None} /\ rule.serve \in JsonValue
  BY DEF Rule
<1>3. bucket = Unencodable \/ bucket \in 0..99
  <2>1. context.key \in ContextKey
    BY DEF Context
  <2>2. QED
    BY <2>1, BucketOf
<1>4. LetsIn(rule, bucket) <=>
        rule.rollout = None \/ (bucket # Unencodable /\ ~GatedOut(rule, bucket))
  <2>1. CASE rule.rollout = None
    BY <2>1 DEF LetsIn
  <2>2. CASE bucket = Unencodable
    <3>1. ASSUME NEW n \in Int PROVE Unencodable \notin 0..n
      BY EvaluateAssumption
    <3>2. rule.rollout # None => rule.rollout - 1 \in Int
      BY <1>2
    <3>3. QED
      BY <2>2, <3>1, <3>2 DEF LetsIn
  <2>3. CASE rule.rollout # None /\ bucket \in 0..99
    <3> HIDE DEF bucket
    <3>1. bucket # Unencodable
      <4>1. \A n \in 0..99 : n # Unencodable
        BY EvaluateAssumption
      <4>2. QED
        BY <2>3, <4>1
    <3>2. rule.rollout \in Int /\ bucket \in Int /\ 0 <= bucket
      BY <1>2, <2>3
    <3>3. bucket \in 0..(rule.rollout - 1) <=> ~(bucket >= rule.rollout)
      BY <3>2
    <3>4. QED
      BY <2>3, <3>1, <3>3 DEF LetsIn, GatedOut
  <2>4. QED
    BY <1>3, <2>1, <2>2, <2>3
<1>5. DecodeValue(rule.serve, kind) =
        IF rule.serve.type \in Carried[kind] THEN Delivered(rule.serve, kind)
        ELSE IF Overflows(rule.serve, kind) THEN Raised ELSE NoValue
  BY <1>2, DeliveredIsDecoded
<1>6. ~(rule.serve.type \in Carried[kind] /\ Overflows(rule.serve, kind))
  BY DEF Carried, Overflows
<1>7. RuleAnswer(rule, kind, context, flag) =
        IF ~RuleMatches(rule, context.tags) THEN NoValue
        ELSE IF rule.rollout = None THEN DecodeValue(rule.serve, kind)
        ELSE IF bucket = Unencodable THEN Raised
        ELSE IF GatedOut(rule, bucket) THEN NoValue
        ELSE DecodeValue(rule.serve, kind)
  BY DEF RuleAnswer
<1>8. /\ Gives(rule, kind, context, flag) <=>
           /\ Targets(rule, context.tags) /\ LetsIn(rule, bucket)
           /\ rule.serve.type \in Carried[kind]
      /\ Breaks(rule, kind, context, flag) <=>
           /\ Targets(rule, context.tags)
           /\ \/ rule.rollout # None /\ bucket = Unencodable
              \/ LetsIn(rule, bucket) /\ Overflows(rule.serve, kind)
  BY DEF Gives, Breaks
<1> HIDE DEF bucket
<1>9. QED
  BY <1>1, <1>4, <1>5, <1>6, <1>7, <1>8

(* The walk over the rules answers what the contract promises, for any      *)
(* flag, context, versions and buckets (_evaluate.py:43, _semver.py:44).    *)
THEOREM FirstMatchIsPromised ==
  ASSUME NEW config \in Config, NEW context \in Context, NEW flag \in Flag
  PROVE  Promised(config, context, flag, FirstMatch(config, context, flag))
<1> DEFINE kind == config.kind
           rules == config.rules
           gives(i) == Gives(rules[i], kind, context, flag)
           breaks(i) == Breaks(rules[i], kind, context, flag)
           before(i) == \A j \in 1..(i - 1) : ~gives(j) /\ ~breaks(j)
           answer(i) == RuleAnswer(rules[i], kind, context, flag)
           S == Answering(config, context, flag)
<1>1. /\ kind \in {"boolean", "string", "number"} /\ rules \in Seq(Rule)
      /\ config.default \in JsonValue
  BY DEF Config
<1>2. DOMAIN rules = 1..Len(rules) /\ Len(rules) \in Nat
  BY <1>1
<1>3. \A i \in 1..Len(rules) :
        /\ answer(i) = IF gives(i) THEN Delivered(rules[i].serve, kind)
                       ELSE IF breaks(i) THEN Raised ELSE NoValue
        /\ ~(gives(i) /\ breaks(i))
  BY <1>1, RuleKeepsPromise
<1>4. \A i \in 1..Len(rules) : answer(i) # NoValue <=> gives(i) \/ breaks(i)
  <2>1. NoValue # Raised /\ \A raw : Delivered(raw, kind) # NoValue
    BY DEF NoValue, Raised, Delivered
  <2>2. QED
    BY <1>3, <2>1
<1>5. S = {i \in 1..Len(rules) : answer(i) # NoValue}
  BY DEF Answering
<1> S \subseteq Nat
  BY DEF Answering
<1>6. CASE S = {}
  <2>1. FirstMatch(config, context, flag) = DecodeValue(config.default, kind)
    BY <1>6 DEF FirstMatch
  <2>2. before(Len(rules) + 1)
    BY <1>2, <1>4, <1>5, <1>6
  <2>3. QED
    BY <1>1, <2>1, <2>2, DeliveredIsDecoded DEF Promised
<1>7. CASE S # {}
  <2> DEFINE i == Least(S)
  <2>1. i \in S /\ \A j \in S : i <= j
    <3> HIDE DEF S
    <3>1. QED
      BY <1>7, LeastExists
  <2>2. FirstMatch(config, context, flag) = answer(i)
    BY <1>7 DEF FirstMatch
  <2> HIDE DEF i
  <2>3. i \in 1..Len(rules) /\ (gives(i) \/ breaks(i))
    BY <1>4, <1>5, <2>1
  <2>4. before(i)
    BY <1>2, <1>4, <1>5, <2>1, <2>3
  <2>5. \/ gives(i) /\ answer(i) = Delivered(rules[i].serve, kind)
        \/ breaks(i) /\ answer(i) = Raised
    BY <1>3, <2>3
  <2>6. QED
    BY <1>2, <2>2, <2>3, <2>4, <2>5 DEF Promised
<1>8. QED
  BY <1>6, <1>7
=============================================================================
