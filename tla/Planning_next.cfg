\* A ride of the next day is planned with the delays of the day asked for.
SPECIFICATION MCSpec
CONSTANTS
  OnFoot = "foot"
  AreaOf <- MCAreaOf
  StationOf <- MCStationOf
  PublicOf <- MCPublicOf
  CarrierOf <- MCCarrierOf
  PriorityOf <- MCPriorityOf
  MinChange = 5
  MaxWait = 60
  Slack = 15
  Queries <- MCQueries
  Unverified = {"f"}
  Brittle = {"a", "b", "c2"}
  Day = 200
  NextFrom = 102
  Window = 40
  MaxProbes = 4
  Tasks = {t1, t2}
  Builds = {b1}
  Pairs = {1, 2}
  WayOf <- MCWayOf
  Revisions = 1
  MaxOutages = 1
  None = None
  Absent = Absent
  Dates = {1, 2}
  StopLife = 0
  SummaryLife = 1
  CacheLife = 1
  Feeds <- MCFeeds
  MaxSnapshots = 2
  MaxTicks = 2
INVARIANTS
  RideWasSaidLate
CHECK_DEADLOCK FALSE
