CONSTANTS
  k1 = k1  k2 = k2  k3 = k3  o1 = o1  o2 = o2  o3 = o3
  Keys = {k1, k2, k3}
  Owners = {o1, o2}
  KeysOf <- EveryKey
  Local = {}
  MaxPending = 2
  Kind = "rollup"
  NULL = NULL
SPECIFICATION FairSpec
INVARIANTS LeaseIsAlone
PROPERTIES QueueDrains
