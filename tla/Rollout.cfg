SPECIFICATION Spec
CONSTANTS
  h1 = h1
  h2 = h2
  h3 = h3
  Hosts = {h1, h2, h3}
  Ignored = Ignored
  ExitCodes = 256
  Inventory <- MCInventory
INVARIANT EveryHostHasAResult
CHECK_DEADLOCK FALSE
