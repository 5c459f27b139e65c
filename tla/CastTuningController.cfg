\* Live patches with every setter free to fail, over any attachments.
CONSTANTS
    InitialConfigurations <- MCConfigs
    LivePatches <- MCPatches
    MaxRevision = 2
SPECIFICATION Spec
INVARIANTS TypeOK ConfigMatchesBackend SettingsInForce BitrateBoundsOrdered
PROPERTY AppliesAtomically
