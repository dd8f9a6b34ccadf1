\* Two archives and two crashes; a feed of two lines with one new version and
\* one fault.
SPECIFICATION MCSpec
CONSTANTS
  f1 = f1
  f2 = f2
  a = a
  b = b
  Lines = {a, b}
  Files = {f1, f2}
  CallsOf <- MCCallsOf
  FirstOf <- MCFirstOf
  Runs = {r1, r2, r3, r4, r5}
  Importers = {scheduler}
  Forced = {}
  Limited = {}
  Followed = {}
  RunsKept = 1
  None = None
  NoStop = NoStop
  MaxChanges = 1
  MaxFaults = 1
  Slow = FALSE
  Reconnects = FALSE
  Searches = {}
  Warmer = warmer
  MaxToggles = 1
  Archives = {jdf, czptt}
  RunsToKeep = 1
  Fallback = TRUE
  Torn = FALSE
  MaxVersions = 2
  MaxCrashes = 2
  Stops = {1, 2, 3, 4, 5}
  FeedOf <- MCFeedOf
  PriorityOf <- MCPriorityOf
  PlaceOf <- MCPlaceOf
  NearOf <- MCNearOf
  Versions <- MCVersions
INVARIANTS
  SkipIsRight
  SuccessIsWhole
  CurrentTimetableIsWhole
  ImportedIsWhole
  MergesLast
PROPERTIES
  MCEventuallyServed
  MCEventuallyFetched
CHECK_DEADLOCK FALSE
