------------------------------ MODULE Contract ------------------------------
(***************************************************************************)
(* What a flag answers, stated without the loop, the cursor and the        *)
(* three-way comparison of the code: the reference Lookup is checked       *)
(* against.  It shares Evaluate's data and none of its operators; its      *)
(* words are those of the docstrings of _semver.py and _evaluate.py:43.    *)
(***************************************************************************)
EXTENDS Evaluate

-----------------------------------------------------------------------------
(* Versions.  At reads a piece of a text; a text is older at the first      *)
(* piece where the two differ.                                              *)

Readable(t) == \A i \in DOMAIN Parts[t] : Parts[t][i].digits > 0 /\ Parts[t][i].digits < 11

At(t, i) == IF i \in DOMAIN Parts[t] THEN Parts[t][i].number ELSE 0

Older(s, t) ==
  \E i \in DOMAIN Parts[s] \cup DOMAIN Parts[t] :
    /\ At(s, i) < At(t, i)
    /\ \A j \in 1..(i - 1) : At(s, j) = At(t, j)

Compares(operator, s, t) ==
  \/ operator = "semver_gt" /\ Older(t, s)
  \/ operator = "semver_lt" /\ Older(s, t)
  \/ operator = "semver_gte" /\ ~Older(s, t)
  \/ operator = "semver_lte" /\ ~Older(t, s)
  \/ operator = "semver_eq" /\ ~Older(s, t) /\ ~Older(t, s)

Meant(condition, text) ==
  LET value == condition.value
  IN \/ condition.operator = "eq" /\ text = value
     \/ condition.operator = "neq" /\ text # value
     \/ condition.operator = "contains" /\ <<value, text>> \in Within
     \/ Readable(text) /\ Readable(value) /\ Compares(condition.operator, text, value)

-----------------------------------------------------------------------------
(* Rules                                                                   *)

Targets(rule, tags) ==
  ~ \E condition \in rule.conditions :
      \/ condition.tagKey \notin DOMAIN tags
      \/ ~Meant(condition, tags[condition.tagKey])

(* A gate lets the buckets below its percentage in.                         *)
LetsIn(rule, bucket) == rule.rollout = None \/ bucket \in 0..(rule.rollout - 1)

(* What a value of the kind may be on the wire, and what it is in Python.   *)
Carried == [boolean |-> {"boolean"}, string |-> {"string"}, number |-> {"integer", "float"}]
Delivered(raw, kind) ==
  [type |-> IF kind = "number" THEN "float" ELSE kind, atom |-> raw.atom]

Overflows(raw, kind) == kind = "number" /\ raw.type = "hugeInteger"

(* The ways a rule ends the search: it gives its value, or breaks on it, or *)
(* on the key that has no bucket.                                           *)
Gives(rule, kind, context, flag) ==
  /\ Targets(rule, context.tags)
  /\ LetsIn(rule, Bucket[context.key][flag])
  /\ rule.serve.type \in Carried[kind]

Breaks(rule, kind, context, flag) ==
  /\ Targets(rule, context.tags)
  /\ \/ rule.rollout # None /\ Bucket[context.key][flag] = Unencodable
     \/ LetsIn(rule, Bucket[context.key][flag]) /\ Overflows(rule.serve, kind)

Promised(config, context, flag, result) ==
  LET kind == config.kind
      gives(i) == Gives(config.rules[i], kind, context, flag)
      breaks(i) == Breaks(config.rules[i], kind, context, flag)
      before(i) == \A j \in 1..(i - 1) : ~gives(j) /\ ~breaks(j)
  IN \/ \E i \in DOMAIN config.rules : before(i) /\
          \/ gives(i) /\ result = Delivered(config.rules[i].serve, kind)
          \/ breaks(i) /\ result = Raised
     \/ /\ before(Len(config.rules) + 1)
        /\ result = IF config.default.type \in Carried[kind]
                    THEN Delivered(config.default, kind)
                    ELSE IF Overflows(config.default, kind) THEN Raised ELSE NoValue
=============================================================================
