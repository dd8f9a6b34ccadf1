\* Two that fail: a change between the query and server_time is not sent to the other
\* phone, and a device that is registered while its account is deleted stays.
SPECIFICATION MCSpec
CONSTANTS
  u1 = u1
  d1 = d1
  s1 = s1
  platform = "android"
  Users = {u1}
  Devices = {d1}
  Subs = {s1}
  Clients = {c1, c2}
  Workers = {w1, w2}
  UserOf <- MCUserOf
  DeviceOf <- MCDeviceOf
  PlatformOf <- MCPlatformOf
  Follows <- MCFollows
  Records <- MCRecords
  AttemptLimit = 2
  MaxFaults = 1
  Slow = FALSE
  Passwords = {p1, p2}
  Sessions = {t1, t2}
  Resets = {t3, t4}
  Attempts = {r1, r2}
  NoPassword = none
  Phones = {h1, h2}
  Routes = {k1}
  Contents = {x1, x2}
  Limit = 1
  MaxClock = 2
  MaxAuthVersion = 3
  MaxRowVersion = 3
INVARIANTS
  SyncIsComplete
  DeletedKeepsNoDevice
CHECK_DEADLOCK FALSE
