\* A late journey is among the candidates and is not offered.
\* Up to four of seven itineraries of the day and two of the next, four configurations; two
\* questions and a build with two pairs and an outage; a trip on two days, two snapshots.
SPECIFICATION MCSpec
CONSTANTS
  OnFoot = "foot"
  AreaOf <- MCAreaOf
  StationOf <- MCStationOf
  PublicOf <- MCPublicOf
  CarrierOf <- MCCarrierOf
  PriorityOf <- MCPriorityOf
  MinChange = 5
  MaxWait = 60
  Slack = 15
  Queries <- MCQueries
  Unverified = {"f"}
  Brittle = {"a", "b", "c2"}
  Day = 200
  NextFrom = 102
  Window = 40
  MaxProbes = 4
  Tasks = {t1, t2}
  Builds = {b1}
  Pairs = {1, 2}
  WayOf <- MCWayOf
  Revisions = 1
  MaxOutages = 1
  None = None
  Absent = Absent
  Dates = {1, 2}
  StopLife = 0
  SummaryLife = 1
  CacheLife = 1
  Feeds <- MCFeeds
  MaxSnapshots = 2
  MaxTicks = 2
INVARIANTS
  LateIsOffered
CHECK_DEADLOCK FALSE
