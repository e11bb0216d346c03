SPECIFICATION Spec
CONSTANTS
  WindowOpens = {w1, w2}
  McpOpens = {m1, m2}
  WindowCloses = {c1}
  McpCloses = {k1}
  Deletes = {d1}
  None = none
SYMMETRY OpensAreAlike
INVARIANTS
  NoDriverIsLost
  TunnelFollowsDriver
