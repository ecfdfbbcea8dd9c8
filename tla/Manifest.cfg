SPECIFICATION Spec
CONSTANTS
  v1 = v1
  v2 = v2
  None = None
  Manifests <- AllManifests
  ChangeSets <- FewChangeSets
INVARIANT NothingElseChanges
INVARIANT RollbackRestoresTheFile
INVARIANT PatchTwiceIsOnce
CHECK_DEADLOCK FALSE
