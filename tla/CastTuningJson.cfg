\* Documents, profile overrides and overrides documents in every combination,
\* and up to two live patches on what they load.  A session ends refused or
\* with its last patch.
CONSTANTS
    Documents <- MCDocuments
    ProfileOverrides <- MCProfileOverrides
    OverrideDocuments <- MCOverrideDocuments
    LivePatches <- MCLivePatches
    MaxPatches = 2
SPECIFICATION JsonSpec
CHECK_DEADLOCK FALSE
INVARIANT PrecedenceHolds
PROPERTY PatchesKeepTrials
