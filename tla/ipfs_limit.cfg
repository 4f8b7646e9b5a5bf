SPECIFICATION ProxySpec
CONSTANTS
  Downloads = {d1, d2}
  Limit = 2
  Retries = 1
INVARIANT NeverTripsTheLimit
