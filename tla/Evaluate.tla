------------------------------ MODULE Evaluate ------------------------------
(***************************************************************************)
(* Local evaluation (_evaluate.py, _semver.py, _ruleset.py, _bucket.py):   *)
(* one flag's rules for one context.                                       *)
(*                                                                         *)
(* A tag's text is an atom; what the operators see of it is how it splits  *)
(* at the dots and which texts it contains.  A JSON value is its type and  *)
(* an atom; an integer past the doubles and a number that parses to        *)
(* infinity are types of their own.                                        *)
(***************************************************************************)
EXTENDS Integers, Sequences

CONSTANTS
  Text,      \* tag values and condition values
  Parts,     \* Parts[t]: the pieces of t between dots
  Within,    \* the pairs <<s, t>> where s is a substring of t
  TagKey,
  Atom,      \* what values of one type differ in
  Operator,  \* the operators a rule may name, known to this build or not
  ContextKey, Flag,
  Bucket,    \* Bucket[key][flag]: in 0..99, or Unencodable
  Unencodable, \* the key has no UTF-8 form (a lone surrogate)
  None

(* A piece is a run of ASCII digits and its number, or has no digits.       *)
Part == [digits : Nat, number : Nat]

JsonType == {"missing", "null", "boolean", "string", "integer", "float",
             "hugeInteger", "infinite", "other"}
JsonValue == [type : JsonType, atom : Atom]

Condition == [tagKey : TagKey, operator : Operator, value : Text]
Rule == [conditions : SUBSET Condition, serve : JsonValue, rollout : Int \cup {None}]
Config == [kind : {"boolean", "string", "number"}, default : JsonValue, rules : Seq(Rule)]
Context == [key : ContextKey, tags : UNION {[keys -> Text] : keys \in SUBSET TagKey}]

ASSUME EvaluateAssumption ==
  /\ Parts \in [Text -> Seq(Part)]
  /\ Bucket \in [ContextKey -> [Flag -> 0..99 \cup {Unencodable}]]
  /\ Unencodable \notin Int /\ None \notin Int

-----------------------------------------------------------------------------
(* _semver.py                                                              *)

MAX_VERSION_COMPONENT_DIGITS == 10

IsVersion(t) ==
  \A i \in DOMAIN Parts[t] :
    Parts[t][i].digits \in 1..MAX_VERSION_COMPONENT_DIGITS

ParseVersion(t) == [i \in DOMAIN Parts[t] |-> Parts[t][i].number]

(* A missing component is 0.                                                *)
Component(version, i) == IF i <= Len(version) THEN version[i] ELSE 0

Differ(a, b) ==
  {i \in 1..Len(a) \cup 1..Len(b) : Component(a, i) # Component(b, i)}

Least(S) == CHOOSE i \in S : \A j \in S : i <= j

(* Mutant of CompareVersions: of two that agree, the longer is the newer.   *)
LengthDecides(a, b) ==
  IF Differ(a, b) = {} THEN IF Len(a) < Len(b) THEN -1 ELSE IF Len(a) > Len(b) THEN 1 ELSE 0
  ELSE LET i == Least(Differ(a, b))
       IN IF Component(a, i) < Component(b, i) THEN -1 ELSE 1

CompareVersions(a, b) ==
  IF Differ(a, b) = {} THEN 0
  ELSE LET i == Least(Differ(a, b))
       IN IF Component(a, i) < Component(b, i) THEN -1 ELSE 1

-----------------------------------------------------------------------------
(* _evaluate.py: conditions and rules                                      *)

SemverHolds(operator, cmp) ==
  \/ operator \in {"semver_eq", "semver_gte", "semver_lte"} /\ cmp = 0
  \/ operator \in {"semver_gt", "semver_gte"} /\ cmp = 1
  \/ operator \in {"semver_lt", "semver_lte"} /\ cmp = -1

(* An operator this build does not know never holds.                        *)
ConditionHolds(condition, text) ==
  \/ condition.operator = "eq" /\ text = condition.value
  \/ condition.operator = "neq" /\ text # condition.value
  \/ condition.operator = "contains" /\ <<condition.value, text>> \in Within
  \/ /\ IsVersion(text) /\ IsVersion(condition.value)
     /\ SemverHolds(condition.operator,
          CompareVersions(ParseVersion(text), ParseVersion(condition.value)))

RuleMatches(rule, tags) ==
  \A condition \in rule.conditions :
    /\ condition.tagKey \in DOMAIN tags
    /\ ConditionHolds(condition, tags[condition.tagKey])

(* Mutant of GatedOut: the gate is read the other way round.                *)
GatedIn(rule, bucket) == rule.rollout # None /\ bucket < rule.rollout

(* A gate of 0 is a gate.                                                   *)
GatedOut(rule, bucket) == rule.rollout # None /\ bucket >= rule.rollout

-----------------------------------------------------------------------------
(* _ruleset.py: decode_value                                               *)

NoValue == [type |-> "noValue"]
Raised == [type |-> "raised"]

(* Mutant of DecodeValue: a number is served in the type it was sent in.    *)
AsSent(raw, kind) ==
  IF kind = "number"
  THEN IF raw.type = "hugeInteger" THEN Raised
       ELSE IF raw.type \in {"integer", "float"} THEN raw ELSE NoValue
  ELSE IF raw.type = kind THEN raw ELSE NoValue

(* Mutant of DecodeValue: what is present is served, whatever its type.     *)
Present(raw, kind) == IF raw.type = "missing" THEN NoValue ELSE raw

(* float() of an integer past the doubles raises OverflowError.             *)
DecodeValue(raw, kind) ==
  IF kind = "number"
  THEN IF raw.type = "hugeInteger" THEN Raised
       ELSE IF raw.type \in {"integer", "float"} THEN [raw EXCEPT !.type = "float"]
       ELSE NoValue
  ELSE IF raw.type = kind THEN raw ELSE NoValue

-----------------------------------------------------------------------------
(* One rule's part in the answer, and the whole of it: the first rule that *)
(* has an answer for the context gives it, else the default does.          *)
RuleAnswer(rule, kind, context, flag) ==
  LET bucket == Bucket[context.key][flag]
  IN IF ~RuleMatches(rule, context.tags) THEN NoValue
     ELSE IF rule.rollout = None THEN DecodeValue(rule.serve, kind)
     ELSE IF bucket = Unencodable THEN Raised
     ELSE IF GatedOut(rule, bucket) THEN NoValue
     ELSE DecodeValue(rule.serve, kind)

Answering(config, context, flag) ==
  {i \in 1..Len(config.rules) :
     RuleAnswer(config.rules[i], config.kind, context, flag) # NoValue}

FirstMatch(config, context, flag) ==
  LET answering == Answering(config, context, flag)
  IN IF answering = {}
     THEN DecodeValue(config.default, config.kind)
     ELSE RuleAnswer(config.rules[Least(answering)], config.kind, context, flag)

(* The same flag with another percentage on rule i.                         *)
WithRollout(config, i, percentage) == [config EXCEPT !.rules[i].rollout = percentage]
=============================================================================
