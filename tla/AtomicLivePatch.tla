--------------------------- MODULE AtomicLivePatch ---------------------------
(***************************************************************************)
(* What a live patch promises, as README.md and the shim design state it:  *)
(* a patch is validated as a whole and takes effect as a whole, with one   *)
(* new revision, or it leaves everything as it was, or the session is      *)
(* marked as one that has to be recreated.                                 *)
(***************************************************************************)
EXTENDS Naturals

CONSTANTS
    InitialConfigurations, LivePatches,
    LiveFields,     \* the members a live patch may change
    Accepts(_, _),  \* a configuration allows a patch
    Merge(_, _),    \* the configuration after a patch
    Value(_, _)     \* the value of a member, 0 when it has none

VARIABLES config,   \* the effective configuration
          live,     \* the live settings the backend reports
          revision,
          degraded  \* the session has to be recreated

atomicVars == <<config, live, revision, degraded>>

AtomicInit ==
    /\ config \in InitialConfigurations
    /\ live = [f \in LiveFields |-> Value(config, f)]
    /\ revision = 0
    /\ degraded = FALSE

ApplyPatch(patch) ==
    /\ Accepts(config, patch)
    /\ config' = Merge(config, patch)
    /\ live' = [f \in LiveFields |->
                   IF f \in DOMAIN patch THEN patch[f] ELSE live[f]]
    /\ revision' = revision + 1
    /\ UNCHANGED degraded

\* An unsuccessful rollback: nothing is known of the live settings.
Degrade ==
    /\ degraded' = TRUE
    /\ live' \in [LiveFields -> Nat]
    /\ UNCHANGED <<config, revision>>

AtomicNext == Degrade \/ \E patch \in LivePatches : ApplyPatch(patch)

AtomicSpec == AtomicInit /\ [][AtomicNext]_atomicVars
=============================================================================
