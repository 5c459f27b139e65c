------------------------ MODULE MCCastTuningController ------------------------
(* Small instances of CastTuningController for TLC.                          *)
EXTENDS CastTuningController

Config(values) ==
    [schema_version |-> 3, profile |-> "UPSTREAM", enabled |-> TRUE,
     set |-> values]

\* One configuration in which every live setting a patch changes has a
\* value, and one in which a live patch sets a cap for the first time.  The
\* numbers are small; only their order and ranges matter.
MCFullConfig ==
    Config([min_bitrate_bps |-> 1, start_bitrate_bps |-> 2,
            max_bitrate_bps |-> 3, max_fps |-> 15, max_width |-> 640,
            content_mode |-> kText, network_priority |-> kHigh,
            degradation_preference |-> kMaintainResolution,
            jitter_minimum_ms |-> 10, stale_decoded_frame_ms |-> 150,
            max_qp |-> 30])
MCBoundsConfig ==
    Config([min_bitrate_bps |-> 2, max_bitrate_bps |-> 4, max_fps |-> 15,
            jitter_minimum_ms |-> 10])

MCConfigs == {MCFullConfig, MCBoundsConfig}

MCPatches ==
    { [max_bitrate_bps |-> 4, max_fps |-> 20, max_qp |-> 24,
       jitter_minimum_ms |-> 20],
      [jitter_minimum_ms |-> 0, content_mode |-> kFluid, max_width |-> 320],
      [max_bitrate_bps |-> 1], [min_bitrate_bps |-> -1],
      [min_bitrate_bps |-> 5, max_bitrate_bps |-> 6],
      [start_bitrate_bps |-> 3, max_qp |-> 20] }
=============================================================================
