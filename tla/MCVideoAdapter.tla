----------------------------- MODULE MCVideoAdapter -----------------------------
(* The instance of VideoAdapter for TLC.                                      *)
EXTENDS VideoAdapter

\* A landscape, a portrait and a square frame, of sides divisible by nine, by
\* three and by neither, large against the alignment and small; one so oblong
\* that a side rounds to nothing, and one that an aspect ratio crops to nothing.
const_Sizes == {<<36, 18>>, <<12, 24>>, <<16, 16>>, <<32, 10>>, <<5, 7>>,
                <<40, 2>>, <<4, 1>>}
const_Aspects == {<<2, 1>>, <<3, 4>>}
const_Resolutions == {<<8, 6>>, <<5, 12>>}
=============================================================================
