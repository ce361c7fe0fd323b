SPECIFICATION Spec
CHECK_DEADLOCK FALSE
CONSTANTS
  None = None
  Unencodable = Unencodable
  Text <- MCText
  Parts <- MCParts
  Within <- MCWithin
  TagKey = {"version"}
  Atom <- MCAtom
  Operator <- MCOperator
  ContextKey = {"low", "high", "surrogate"}
  Flag = {"f", "g"}
  Bucket <- MCBucket
  r1 = r1
  r2 = r2
  Reader = {r1, r2}
  Ruleset <- RaceRuleset
  Asked <- RaceAsked
  MaxPublished = 2
  MaxCalls = 1
INVARIANTS TypeOK DiagnosticsOneAhead
PROPERTY GettersAreAtomic
SYMMETRY Readers
