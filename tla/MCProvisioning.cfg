SPECIFICATION Spec
CONSTANTS
  c1 = c1
  p1 = p1
  Layers = {1, 2}
  Plugins = {p1}
  Releases = {1, 2}
  Commands = {c1}
  CommandLimit = 3
  TroubleLimit = 2
INVARIANT CommandsTidy
PROPERTY ShelfSpec
CHECK_DEADLOCK FALSE
