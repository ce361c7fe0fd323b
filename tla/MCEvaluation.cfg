SPECIFICATION Spec
CHECK_DEADLOCK FALSE
CONSTANTS
  None = None
  Unencodable = Unencodable
  Text <- MCText
  Parts <- MCParts
  Within <- MCWithin
  TagKey = {"version"}
  Atom <- MCAtom
  Operator <- MCOperator
  ContextKey = {"low", "high", "surrogate"}
  Flag = {"f", "g"}
  Bucket <- MCBucket
  Reader = {r1}
  Ruleset <- EveryRuleset
  Asked <- EveryAsked
  MaxPublished = 0
  MaxCalls = 1
INVARIANTS RaisingRolloutOnlyAdds CountedAsServed
PROPERTY AnswersFirstMatch
