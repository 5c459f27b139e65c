--------------------------- MODULE MCSourceSnapshot ---------------------------
(* The instance of SourceSnapshot for TLC.                                    *)
EXTENDS SourceSnapshot, TLC

CONSTANTS r1, r2, patched, shared, own

\* Both revisions add a file through their patches and one of the same name
\* through their overlays; the first also adds one of its own.
MCPatchAdds == r1 :> {patched} @@ r2 :> {patched}
MCOverlay == r1 :> {shared, own} @@ r2 :> {shared}
=============================================================================
