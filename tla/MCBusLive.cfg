\* A router and a device: whatever ends first, nothing stays behind.
SPECIFICATION Spec
CONSTANTS
  r = r
  d = d
  e = e
  NoNode = NoNode
  Router = {r}
  Device = {d}
  InboxSize = 1
  MaxMembers = 3
  MaxFrames = 1
PROPERTIES
  AttachmentEnds
\* Everything may be freed.
CHECK_DEADLOCK FALSE
