SPECIFICATION Spec
CONSTANTS
  Limited = {"user", "public"}
  Life = 2
  Proxies = 1
  Prefixes <- MCPrefixes
  HasJobToken = TRUE
  MaxTime = 3
  None = None
INVARIANTS
  TypeOK
  CountedAsServed
  AnswersAreTraced
PROPERTIES
  TokensServeTheirLife
