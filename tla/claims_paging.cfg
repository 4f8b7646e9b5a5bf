SPECIFICATION MCFairSpec
CONSTANTS
  Dates = {1, 2}
  Ids = {1, 2}
  Types = {ta}
  Statuses = {1}
  MaxEvaluations = 2
  Takes <- PageSizes
  Orders = {"asc", "desc"}
  NotANumber = NotANumber
  DefaultTake = 2
  NoFilter = NoFilter
  Null = Null
INVARIANTS
  TypeOK
  PagesInOrder
  NothingSkipped
PROPERTIES
  HasNextPageUnlessHistory
  PagingEnds
