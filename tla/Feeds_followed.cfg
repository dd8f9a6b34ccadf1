\* A journey subscription refers to the trip of the line that the second version drops.
\* No fault.
SPECIFICATION MCSpec
CONSTANTS
  f1 = f1
  f2 = f2
  a = a
  b = b
  Lines = {a, b}
  Files = {f1, f2}
  CallsOf <- MCCallsOf
  FirstOf <- MCFirstOf
  Runs = {r1, r2, r3, r4, r5}
  Importers = {scheduler}
  Forced = {}
  Limited = {}
  Followed = {b}
  RunsKept = 1
  None = None
  NoStop = NoStop
  MaxChanges = 1
  MaxFaults = 0
  Slow = FALSE
  Reconnects = FALSE
  Searches = {}
  Warmer = warmer
  MaxToggles = 0
  Archives = {jdf, czptt}
  RunsToKeep = 1
  Fallback = TRUE
  Torn = FALSE
  MaxVersions = 2
  MaxCrashes = 0
  Stops = {1, 2, 3, 4, 5}
  FeedOf <- MCFeedOf
  PriorityOf <- MCPriorityOf
  PlaceOf <- MCPlaceOf
  NearOf <- MCNearOf
  Versions <- MCVersions
PROPERTIES
  MCEventuallyImported
CHECK_DEADLOCK FALSE
