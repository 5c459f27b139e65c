\* Three commits, two of which pin the same source; one release of each platform.
CONSTANTS
    old = old
    new = new
    docs = docs
    sourceA = sourceA
    sourceB = sourceB
    patches = patches
    headers = headers
    NoBuild = NoBuild
    Commits = {old, new, docs}
    OtherTargets = {"windows-x64"}
    MaxReleases = 1
    Builds <- MCBuilds
    Config <- MCConfig
    Patches <- MCPatches
    Headers <- MCHeaders
SPECIFICATION GateSpec
PROPERTIES FrameworkOfItsPackages ReleaseOfOneSource EvidenceOfTheRelease
