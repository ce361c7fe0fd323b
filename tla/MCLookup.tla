------------------------------ MODULE MCLookup ------------------------------
(***************************************************************************)
(* Instances of Lookup: few rulesets and many interleavings, or one reader *)
(* and every rule of a small language.                                     *)
(***************************************************************************)
EXTENDS Lookup, TLC

Digits(n) == [digits |-> 1, number |-> n]
Wordy == [digits |-> 0, number |-> 0]
Ten == [digits |-> 10, number |-> 7]
TooLong == [digits |-> 11, number |-> 7]

(* "2.1", "2.1.0", "2.0.9", "2.1-beta", and a component of ten and one of    *)
(* eleven digits.                                                           *)
MCText == {"v21", "v210", "v209", "beta", "ten", "long"}
MCParts ==
  [t \in MCText |->
     CASE t = "v21"  -> <<Digits(2), Digits(1)>>
       [] t = "v210" -> <<Digits(2), Digits(1), Digits(0)>>
       [] t = "v209" -> <<Digits(2), Digits(0), Digits(9)>>
       [] t = "beta" -> <<Digits(2), Wordy>>
       [] t = "ten"  -> <<Ten>>
       [] t = "long" -> <<TooLong>>]
MCWithin == {<<t, t>> : t \in MCText} \cup {<<"v21", "v210">>, <<"v21", "beta">>}

MCOperator == {"eq", "neq", "contains", "semver_eq", "semver_gt", "semver_gte",
               "semver_lt", "semver_lte", "newer_operator"}
MCAtom == {"on", "off"}

(* One key falls below a gate of 50 by one, one on it, one has no bucket.   *)
MCBucket == [key \in ContextKey |-> [flag \in Flag |->
  CASE key = "low" -> 49 [] key = "high" -> 50 [] OTHER -> Unencodable]]

Value(type, atom) == [type |-> type, atom |-> atom]
Serve(rollout, conditions, type, atom) ==
  [conditions |-> conditions, serve |-> Value(type, atom), rollout |-> rollout]
Bool(rules) == [kind |-> "boolean", default |-> Value("boolean", "off"), rules |-> rules]
Asking(key, tags, want) ==
  [flag |-> "f", context |-> [key |-> key, tags |-> tags], want |-> want]
VersionTag(t) == ("version" :> t)

-----------------------------------------------------------------------------
(* Interleavings: a gate then everyone else; the same two rules in the other *)
(* order and answer; a flag that changed its kind; a flag that is gone.      *)
RaceRuleset ==
  {[f |-> Bool(<<Serve(50, {}, "boolean", "on"), Serve(None, {}, "boolean", "off")>>)],
   [f |-> Bool(<<Serve(5, {}, "boolean", "off"), Serve(50, {}, "boolean", "on")>>)],
   [f |-> [kind |-> "string", default |-> Value("missing", "off"),
           rules |-> <<Serve(50, {}, "null", "off"), Serve(50, {}, "string", "on")>>]],
   [g |-> Bool(<<>>)]}
RaceAsked == {Asking("low", <<>>, "boolean"), Asking("low", <<>>, "string")}

Readers == Permutations(Reader)

-----------------------------------------------------------------------------
(* Evaluation: two rules, the first with any one condition or none.         *)
AnyCondition ==
  [tagKey : {"version"}, operator : MCOperator, value : {"v21", "beta", "long"}]
Values == {Value("boolean", "on"), Value("string", "on"), Value("null", "off"),
           Value("integer", "on"), Value("infinite", "on"), Value("hugeInteger", "on")}
EveryRuleset ==
  {[f |-> [kind |-> kind, default |-> Value("float", "off"),
           rules |-> <<[conditions |-> conditions, serve |-> serve, rollout |-> rollout],
                       Serve(later, {}, later_type, "off")>>]] :
     kind \in Kind,
     conditions \in {{}} \cup {{c} : c \in AnyCondition},
     serve \in Values, rollout \in {None, 0, 50}, later \in {None, 50},
     later_type \in {"boolean", "integer"}}
EveryAsked ==
  {Asking(key, tags, want) : key \in ContextKey, want \in Kind,
     tags \in {<<>>} \cup {VersionTag(t) : t \in MCText}}

-----------------------------------------------------------------------------
(* What leaves a getter as an exception.                                    *)
RaisingRuleset ==
  {[f |-> [kind |-> "number", default |-> Value("hugeInteger", "on"), rules |-> <<>>]],
   [f |-> Bool(<<Serve(50, {}, "boolean", "on")>>)]}
RaisingAsked == {Asking("low", <<>>, "number"), Asking("surrogate", <<>>, "boolean")}
=============================================================================
