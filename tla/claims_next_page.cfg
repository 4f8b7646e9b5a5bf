SPECIFICATION Spec
CONSTANTS
  Dates = {1, 2}
  Ids = {1}
  Types = {ta}
  Statuses = {1}
  MaxEvaluations = 2
  Takes = {1}
  Orders = {"asc"}
  NotANumber = NotANumber
  DefaultTake = 2
  NoFilter = NoFilter
  Null = Null
PROPERTY HasNextPageIsTrue
