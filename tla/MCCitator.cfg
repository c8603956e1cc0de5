SPECIFICATION WalkSpec
CONSTANTS
  a = a
  b = b
  c = c
  d = d
  Nodes = {a, b, c, d}
  Root = a
  Relations = {"cita"}
  MaxEdges = 5
  Graphs <- MCGraphs
  Directions = {"outbound", "inbound", "both"}
  Depths = {0, 1, 2, 3}
  Sizes = {3, 10}
INVARIANT WalkIsComplete
