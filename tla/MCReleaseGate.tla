----------------------------- MODULE MCReleaseGate -----------------------------
(* The instance of ReleaseGate for TLC.                                       *)
EXTENDS ReleaseGate, TLC

CONSTANTS old, new, docs, sourceA, sourceB, patches, headers

\* old pins another source than new; docs differs from new in nothing that is built.
\* Android is built twice of one commit.
MCBuilds ==
    "android" :> {<<new, 1>>, <<new, 2>>} @@ X64 :> {<<old, 1>>, <<new, 1>>}
    @@ Arm64 :> {<<old, 1>>, <<new, 1>>, <<docs, 1>>}
    @@ "windows-x64" :> {<<old, 1>>, <<docs, 1>>}
MCConfig == old :> sourceA @@ new :> sourceB @@ docs :> sourceB
MCPatches == [c \in Commits |-> patches]
MCHeaders == [c \in Commits |-> headers]
=============================================================================
