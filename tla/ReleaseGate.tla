------------------------------ MODULE ReleaseGate ------------------------------
(***************************************************************************)
(* From built targets to a release (builder/package.py, verify.py,         *)
(* metadata.py, compose.py): packages are staged and verified, the two     *)
(* macOS packages are composed into an XCFramework, runtime evidence is    *)
(* taken, and a release is validated from the files that are there.        *)
(*                                                                         *)
(* The files lie in one place, where a later file replaces an earlier one; *)
(* every target may be built again, at any commit, at any time, so the     *)
(* files are any mixture of runs.  A command may stop at any point; what   *)
(* it wrote stays.                                                         *)
(***************************************************************************)
EXTENDS Naturals, FiniteSets

CONSTANTS
    Commits,       \* builder commits
    OtherTargets,  \* the targets of a stable release beside Android and macOS
    Builds,        \* the builds of each target: a commit, and a number, because two
                   \* builds of one commit need not be the same bytes
    Config,        \* pinned source, snapshots and configuration of each commit
    Patches,       \* the patches of each commit
    Headers,       \* the public headers of each commit
    MaxReleases,   \* bound: releases of each platform
    NoBuild

X64 == "macos-x64"
Arm64 == "macos-arm64"
Preview == {"android", X64, Arm64}        \* platform macos-android
All == Preview \cup OtherTargets          \* platform all
Platforms == {"macos-android", "all"}

Commit(b) == b[1]
BuildOf(t) == Builds[t] \cup {NoBuild}

ASSUME ReleaseAssumption ==
    /\ OtherTargets \cap Preview = {}
    /\ \A t \in All : Builds[t] \subseteq Commits \X Nat
    /\ NoBuild \notin Commits \X Nat
    /\ MaxReleases \in Nat

VARIABLES
    package,    \* the package of each target
    staged,     \* the Android build between its AAR and its package
    aar,        \* the build whose classes and JNI library are in the AAR
    xcframework, \* the builds of its slices and the metadata in it
    sidecar,    \* xcframework-metadata.json
    composer,   \* a composition: where it is and what it has read
    smoke,      \* Android smoke evidence: the AAR, and the run it was taken from
    probe,      \* macOS probe evidence: the package
    releases    \* how many of each platform were published

gateVars == <<package, staged, aar, xcframework, sidecar, composer, smoke, probe,
              releases>>
macos == <<xcframework, sidecar, composer, probe>>
android == <<staged, aar, smoke>>

Idle == [pc |-> "idle", x64 |-> NoBuild, arm64 |-> NoBuild]

GateInit ==
    /\ package = [t \in All |-> NoBuild]
    /\ staged = NoBuild /\ aar = NoBuild
    /\ xcframework = NoBuild /\ sidecar = NoBuild /\ composer = Idle
    /\ smoke = NoBuild /\ probe = NoBuild
    /\ releases = [p \in Platforms |-> 0]

-----------------------------------------------------------------------------
(* stage_and_package.  A payload that fails verification leaves nothing.     *)

\* The AAR is made of the staged files, and checked, before the package.
PackageAar(b) ==
    /\ staged = NoBuild
    /\ aar' = b /\ staged' = b
    /\ UNCHANGED <<package, macos, smoke, releases>>

PackageAndroid ==
    /\ staged # NoBuild
    /\ package' = [package EXCEPT !["android"] = staged]
    /\ staged' = NoBuild
    /\ UNCHANGED <<aar, smoke, macos, releases>>

PackageStops ==
    /\ staged # NoBuild
    /\ staged' = NoBuild
    /\ UNCHANGED <<package, aar, smoke, macos, releases>>

Package(t, b) ==
    /\ t # "android"
    /\ package' = [package EXCEPT ![t] = b]
    /\ UNCHANGED <<android, macos, releases>>

-----------------------------------------------------------------------------
(* Metadata.                                                                *)

\* load_metadata by a builder of commit r: source, snapshot and configuration of the
\* package are those that r pins.
Loads(r, b) == b # NoBuild /\ Config[Commit(b)] = Config[r]

\* The metadata of a composition, the digests of its inputs included.
Metadata(x, a) ==
    [builder_commit |-> Commit(x), header_manifest |-> Headers[Commit(x)],
     input_snapshots |-> <<Config[Commit(x)], Config[Commit(a)]>>]

-----------------------------------------------------------------------------
(* compose_macos_xcframework.                                               *)

\* prepare_macos_inputs and the checks before the framework is made: r runs the
\* composition, c is the commit it is asked to compose.
Composable(r, c, x, a) ==
    /\ Loads(r, x) /\ Loads(r, a)
    /\ Commit(x) = Commit(a)
    /\ Patches[Commit(x)] = Patches[Commit(a)]
    /\ Commit(x) = c
    /\ Headers[Commit(x)] = Headers[Commit(a)]

\* The packages are unpacked: what they are later does not matter.
StartComposition ==
    /\ composer.pc = "idle"
    /\ \E r, c \in Commits : Composable(r, c, package[X64], package[Arm64])
    /\ composer' = [pc |-> "merged", x64 |-> package[X64], arm64 |-> package[Arm64]]
    /\ UNCHANGED <<package, android, xcframework, sidecar, probe, releases>>

WriteSidecar ==
    /\ composer.pc = "merged"
    /\ sidecar' = Metadata(composer.x64, composer.arm64)
    /\ composer' = [composer EXCEPT !.pc = "described"]
    /\ UNCHANGED <<package, android, xcframework, probe, releases>>

DeleteArchive ==
    /\ composer.pc = "described"
    /\ xcframework' = NoBuild
    /\ composer' = [composer EXCEPT !.pc = "deleted"]
    /\ UNCHANGED <<package, android, sidecar, probe, releases>>

\* The bundle that is zipped holds a copy of the metadata.
Zip ==
    /\ composer.pc = "deleted"
    /\ xcframework' = [x64 |-> composer.x64, arm64 |-> composer.arm64,
                   metadata |-> Metadata(composer.x64, composer.arm64)]
    /\ composer' = Idle
    /\ UNCHANGED <<package, android, sidecar, probe, releases>>

\* A tool fails, or the process is killed.
CompositionStops ==
    /\ composer.pc # "idle"
    /\ composer' = Idle
    /\ UNCHANGED <<package, android, xcframework, sidecar, probe, releases>>

-----------------------------------------------------------------------------
(* Evidence is taken of the files that are there.                           *)

SmokeTest ==
    /\ package["android"] # NoBuild /\ aar # NoBuild
    /\ smoke' = [aar |-> aar, run |-> package["android"]]
    /\ UNCHANGED <<package, staged, aar, macos, releases>>

Probe ==
    /\ package[Arm64] # NoBuild
    /\ probe' = package[Arm64]
    /\ UNCHANGED <<package, android, xcframework, sidecar, composer, releases>>

-----------------------------------------------------------------------------
(* create_release_manifest and create_preview_release_manifest.             *)

\* Every package of the platform was built for what r, which validates, pins.
PackagesPresent(r, T) == \A t \in T : package[t] # NoBuild
PackagesCompatible(r, T) == \A t \in T : Loads(r, package[t])

\* verify_android_aar compares the payloads byte by byte.
AarVerified == aar # NoBuild /\ aar = package["android"]

\* _validate_xcframework_archive, and the provenance of the composition.
ProvenanceMatches ==
    /\ xcframework # NoBuild
    /\ Commit(package[X64]) = Commit(package[Arm64])
    /\ sidecar = Metadata(package[X64], package[Arm64])
XcframeworkVerified == ProvenanceMatches /\ xcframework.metadata = sidecar

\* The evidence of the Android smoke, by commit and digest of the AAR, and of the
\* VideoToolbox probe, by digest of the package.  That the smoke names the workflow run
\* and artifact of the package is compared with inputs of the release, which may be any.
EvidenceOfAnyBuild ==
    /\ smoke # NoBuild /\ probe # NoBuild
    /\ Commit(smoke.run) = Commit(package["android"])
EvidenceVerified ==
    /\ EvidenceOfAnyBuild
    /\ smoke.aar = aar
    /\ probe = package[Arm64]

PublishRelease(platform) ==
    /\ releases[platform] < MaxReleases
    /\ releases' = [releases EXCEPT ![platform] = @ + 1]
    /\ UNCHANGED <<package, android, macos>>

\* r validates the files that are there, and publishes them.
PublishStable(r) ==
    /\ PackagesCompatible(r, All) /\ AarVerified /\ XcframeworkVerified
    /\ PublishRelease("all")

PublishPreview(r) ==
    /\ PackagesCompatible(r, Preview) /\ AarVerified /\ XcframeworkVerified
    /\ EvidenceVerified
    /\ PublishRelease("macos-android")

GateNext ==
    \/ \E b \in Builds["android"] : PackageAar(b)
    \/ PackageAndroid \/ PackageStops
    \/ \E t \in All \ {"android"} : \E b \in Builds[t] : Package(t, b)
    \/ StartComposition \/ WriteSidecar \/ DeleteArchive \/ Zip \/ CompositionStops
    \/ SmokeTest \/ Probe
    \/ \E r \in Commits : PublishStable(r) \/ PublishPreview(r)

GateSpec == GateInit /\ [][GateNext]_gateVars

-----------------------------------------------------------------------------
(* Properties.                                                              *)

ProvenanceOf(c) == [builder_commit |-> c, header_manifest |-> Headers[c],
                    input_snapshots |-> <<Config[c], Config[c]>>]

GateTypeOK ==
    /\ package \in [All -> UNION {BuildOf(t) : t \in All}]
    /\ \A t \in All : package[t] \in BuildOf(t)
    /\ staged \in BuildOf("android") /\ aar \in BuildOf("android")
    /\ staged # NoBuild => aar = staged
    /\ xcframework \in {NoBuild} \cup [x64 : Builds[X64], arm64 : Builds[Arm64],
                               metadata : {ProvenanceOf(c) : c \in Commits}]
    /\ sidecar \in {NoBuild} \cup {ProvenanceOf(c) : c \in Commits}
    /\ composer.pc = "idle" => composer = Idle
    /\ composer.pc # "idle" =>
          /\ composer \in [pc : {"merged", "described", "deleted"},
                           x64 : Builds[X64], arm64 : Builds[Arm64]]
          /\ Commit(composer.x64) = Commit(composer.arm64)
    /\ smoke \in {NoBuild} \cup [aar : Builds["android"], run : Builds["android"]]
    /\ probe \in BuildOf(Arm64)
    /\ releases \in [Platforms -> 0..MaxReleases]

\* Both slices of a released XCFramework are of the commit of the two macOS packages
\* released with it, whichever packages were built after the composition and wherever
\* compositions stopped: the gate reads metadata, never the binary, and a sidecar and an
\* archive of different compositions may lie side by side
\* (compose_macos_xcframework, _validate_preview_xcframework).
FrameworkOfItsPackages ==
    [][releases' # releases =>
          /\ Commit(xcframework.x64) = Commit(package[X64])
          /\ Commit(xcframework.arm64) = Commit(package[Arm64])]_gateVars

\* Whatever a release hands out, packages, AAR and slices, was built for one pinned
\* source and configuration, though its parts come from different runs and may be of
\* different commits (load_metadata, validate_compatible, create_release_manifest).
ReleaseOfOneSource ==
    [][\A p \in Platforms : releases'[p] # releases[p] =>
          \E c \in {Config[r] : r \in Commits} :
              /\ \A t \in IF p = "all" THEN All ELSE Preview : Config[Commit(package[t])] = c
              /\ \A b \in {aar, xcframework.x64, xcframework.arm64} :
                    Config[Commit(b)] = c]_gateVars

\* What a preview calls tested was tested: the smoke ran the AAR that has the bytes of
\* the released package, and the probe ran a package of the commit of the slice; no
\* evidence of an earlier build passes (create_preview_release_manifest).
EvidenceOfTheRelease ==
    [][releases'["macos-android"] # releases["macos-android"] =>
          /\ smoke.aar = package["android"]
          /\ Commit(probe) = Commit(xcframework.arm64)]_gateVars
=============================================================================
