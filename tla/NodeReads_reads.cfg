CONSTANTS
  Fund = "fund"
  Closers = {"c1", "c2"}
  MaxHeight = 3
  MaxReorg = 2
  MaxForks = 1
  Retries = 2
  HeadersAhead = FALSE
  NoQuestion = NoQuestion
  NoBlock = NoBlock
SPECIFICATION Spec
INVARIANT TypeOK SpentOrUnconfirmed
PROPERTY ImplementsOracle Answered
