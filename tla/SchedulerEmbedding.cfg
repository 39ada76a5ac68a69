CONSTANTS
  k1 = k1  k2 = k2  k3 = k3  o1 = o1  o2 = o2  o3 = o3
  Keys = {k1, k2, k3}
  Owners = {o1, o2, o3}
  KeysOf <- OwnKey
  Local = {o1, o2, o3}
  MaxPending = 1
  Kind = "embedding"
  NULL = NULL
SPECIFICATION Spec
INVARIANTS TypeOK QueuedOnce OwnedIsBusy RetiredStaysOut RetiredIsQuiet
PROPERTIES AcceptedWorkKept HandedOver
