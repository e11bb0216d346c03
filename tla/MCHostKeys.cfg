SPECIFICATION KeysSpec
CONSTANTS
  Hosts = {a, b}
  Keys = {k, l}
  Handshakes = {g, h}
  Removals = {r}
  Window = window
  Headless = {p}
SYMMETRY NamesAreAlike
INVARIANTS
  OnlyConsentedAreTrusted
  FileFollowsMemory
CHECK_DEADLOCK FALSE
