\* A router and two devices that exchange two frames, both into one inbox, and attach again.
SPECIFICATION Spec
CONSTANTS
  r = r
  d = d
  e = e
  NoNode = NoNode
  Router = {r}
  Device = {d, e}
  InboxSize = 2
  MaxMembers = 3
  MaxFrames = 2
SYMMETRY DeviceSymmetry
INVARIANTS
  OneController
  MembersAreLive
  DeviceExclusive
  HeardInOrder
\* Everything may be freed.
CHECK_DEADLOCK FALSE
