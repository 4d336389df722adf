CONSTANTS
  Keys = {k1, k2, k3}
  Values = {v1, v2}
  Nodes = {n1, n2, n3, n4}
  Lru = Lru
  Null = Null
  None = None
  Capacities = {0, 2}

SPECIFICATION LRUSpec
INVARIANT
  WithinCapacity
