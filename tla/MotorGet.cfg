SPECIFICATION GetSpec
CONSTANT MaxSets = 1
INVARIANTS
  Coherent
  NoEdgeLost
  OnceInFreshLoop
