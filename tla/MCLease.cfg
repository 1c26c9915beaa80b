\* Two devices (or one downlink) for two names; times are in ticks, and the lease outlives its
\* last refresh by exactly one tick.
CONSTANTS
  Device = {t, u}
  Downlink = {t}
  Nobody = Nobody
  Name = {a, b}
  NoName = NoName
  Missed = 2
  RequestTime = 1
  PauseTime = 1
  RefreshDelay = 1
  RetryDelay = 1
  MaxFailures = 2
  Expires = 6
SPECIFICATION Spec
INVARIANTS
  NamesExclusive
  LeaseOutlivesUse
PROPERTIES
  LeasesSettle
  TaskEnds
  BothEndsHeal
