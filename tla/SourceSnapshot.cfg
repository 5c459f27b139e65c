\* Three parts for two threads, so that one waits; three attempts; transfers that end
\* after one of two units; two revisions of the builder in turn.
CONSTANTS
    PartCount = 3
    Size = 2
    Workers = 2
    Attempts = 3
    r1 = r1
    r2 = r2
    patched = patched
    shared = shared
    own = own
    None = None
    Revisions = {r1, r2}
    PatchAdds <- MCPatchAdds
    Overlay <- MCOverlay
SPECIFICATION FairSpec
INVARIANTS VerifiedBeforeUse OneFaultIsMended BuildsCurrentRevision
PROPERTIES VerifiedPartsSurvive RunEnds
