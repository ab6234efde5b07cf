CONSTANTS
  Ids = {1, 2, 3, 4, 5, 6}
  Early = {1, 3, 4, 5}
  Streamed = {6}
  MaxTs = 5
  TsOf <- MCTsOf
  Queries = {"all", "team"}
  FilterOf <- MCFilterOf
  Selects <- MCSelects
  SinceOf <- MCSinceOf
  BeforeOf <- MCBeforeOf
  Page = 3
  MaxRows = 4
  MaxFaults = 1
  MaxMoves = 3
SPECIFICATION FeedSpec
CONSTRAINT FaultForMove
CHECK_DEADLOCK FALSE
INVARIANTS ListWellFormed OnlyMatchingRows ListIsExact GapsAreSaid
PROPERTIES OnlyNewcomersMoveRows PagesCome
