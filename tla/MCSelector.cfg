SPECIFICATION Spec
CONSTANTS
  n1 = n1
  n2 = n2
  n3 = n3
  Nodes <- MCNodes
  Initial <- MCInitial
  Weight <- MCWeight
  Points <- MCPoints
  Place <- MCPlace
  Keys <- MCKeys
  Hash <- MCHash
  Hashers = {h1}
  PanicPercent = 40
  MaxChanges = 1
INVARIANTS RingMatchesGroup PickedByWeight
PROPERTIES SnapshotsFrozen OnlyAffectedKeysMove NotStarved
