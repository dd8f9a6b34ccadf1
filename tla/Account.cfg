\* One device with one subscription, two workers, one fault; two sessions and
\* reset tokens; two phones that share a route.
SPECIFICATION MCSpec
CONSTANTS
  u1 = u1
  d1 = d1
  s1 = s1
  platform = "android"
  Users = {u1}
  Devices = {d1}
  Subs = {s1}
  Clients = {c1, c2}
  Workers = {w1, w2}
  UserOf <- MCUserOf
  DeviceOf <- MCDeviceOf
  PlatformOf <- MCPlatformOf
  Follows <- MCFollows
  Records <- MCRecords
  AttemptLimit = 2
  MaxFaults = 1
  Slow = FALSE
  Passwords = {p1, p2}
  Sessions = {t1, t2}
  Resets = {t3, t4}
  Attempts = {r1, r2}
  NoPassword = none
  Phones = {h1, h2}
  Routes = {k1}
  Contents = {x1, x2}
  Limit = 1
  MaxClock = 2
  MaxAuthVersion = 3
  MaxRowVersion = 3
INVARIANTS
  RepeatsHaveACause
  TokensAreSingleUse
  OldSessionsWereUnderWay
  VersionNamesContent
PROPERTIES
  OutcomeIsFinal
  EventuallyDecided
CHECK_DEADLOCK FALSE
