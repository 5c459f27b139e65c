-------------------------- MODULE MCVideoStreamEncoder --------------------------
(* The instance of VideoStreamEncoder for TLC.                                *)
EXTENDS VideoStreamEncoder

\* VP8 has limits of its own and temporal layers; H264 prepares frames, takes native
\* ones and has a QP that says nothing; VP9 leaves the limits to the defaults; AV1 asks for
\* more than the streams' factory gives.
const_Info ==
    [VP8 |-> [trusted |-> TRUE, mapped |-> FALSE, native |-> FALSE, temporal |-> TRUE,
              limit |-> [min |-> 200, max |-> 1500, start |-> 250]],
     VP9 |-> [trusted |-> TRUE, mapped |-> FALSE, native |-> FALSE, temporal |-> FALSE,
              limit |-> None],
     AV1 |-> [trusted |-> TRUE, mapped |-> FALSE, native |-> FALSE, temporal |-> FALSE,
              limit |-> [min |-> 2500, max |-> 3000, start |-> 2500]],
     H264 |-> [trusted |-> FALSE, mapped |-> TRUE, native |-> TRUE, temporal |-> FALSE,
               limit |-> None]]
const_Limit == [min |-> 100, max |-> 800, start |-> 120]

Layer(active, max, temporal) ==
    [active |-> active, min |-> 0, max |-> max, temporal |-> temporal, fps |-> 30]
Config(format, layers, max, screen, scale) ==
    [format |-> format, layers |-> layers, max |-> max, screen |-> screen,
     scale_resolution_down_to |-> scale]
const_Configs ==
    {Config("VP8", <<Layer(TRUE, 150, 2)>>, 0, FALSE, TRUE),
     Config("VP8", <<Layer(FALSE, 0, 1), Layer(TRUE, 0, 1)>>, 0, FALSE, FALSE),
     Config("VP9", <<Layer(TRUE, 300, 1), Layer(TRUE, 0, 1)>>, 900, FALSE, FALSE),
     Config("AV1", <<Layer(TRUE, 0, 1)>>, 0, FALSE, FALSE),
     Config("H264", <<Layer(TRUE, 0, 1)>>, 0, TRUE, FALSE)}
\* Multiples of the alignment, and a size to be cropped.
Frame(size, native, known) == [size |-> size, native |-> native, known |-> known]
const_Frames ==
    {Frame(<<640, 480>>, FALSE, TRUE), Frame(<<640, 480>>, TRUE, FALSE),
     Frame(<<323, 241>>, FALSE, TRUE)}
const_KeyLists == {<<>>, <<"delta", "key">>}
const_Bound == [frames |-> 3, configs |-> 2, bitrates |-> 3, requests |-> 1, odd |-> 1,
                seconds |-> 1]
=============================================================================
