-------------------------- MODULE CastTuningConfig --------------------------
(***************************************************************************)
(* The tuning configuration of cast_tuning_config.{h,cc}: profiles,        *)
(* validation, field trials, live patches and the scope each one needs.    *)
(*                                                                         *)
(* A configuration is a record whose `set' is a partial function from the  *)
(* names of the C++ members to their values: a std::optional that holds    *)
(* nothing is a name outside the domain.  Enumerations are their C++       *)
(* ordinals (0 is kUnspecified), the two real-valued factors are tenths.   *)
(***************************************************************************)
EXTENDS Integers

kMinimumTuningSchemaVersion == 1
kTuningSchemaVersion == 3

Profiles == {"UPSTREAM", "DETAIL_IDLE", "DETAIL_ACTIVE", "MOTION", "RECOVERY"}

\* ContentMode, DegradationPreference, NetworkPriority, FecMode,
\* SpatialAdaptiveQpMode: the ordinals of cast_tuning_config.h.
kUnspecified == 0
kText == 1
kFluid == 2
kMaintainResolution == 1
kMaintainFramerate == 2
kHigh == 3
FecModes == 0..2
SpatialAdaptiveQpModes == 0..1

-----------------------------------------------------------------------------
(* Optional members.                                                       *)

Has(c, f) == f \in DOMAIN c.set
ValueOr(c, f, default) == IF Has(c, f) THEN c.set[f] ELSE default

\* `over' on top of `base'.
Overlay(base, over) ==
    [f \in DOMAIN base \cup DOMAIN over |->
        IF f \in DOMAIN over THEN over[f] ELSE base[f]]

Empty == [f \in {} |-> 0]

-----------------------------------------------------------------------------
(* Profiles.                                                               *)

\* What every profile but UPSTREAM sets.
ProfileBase(version) ==
    Overlay(
      [ max_width |-> 1920, max_height |-> 1080, min_fps |-> 0,
        latest_frame_only |-> TRUE, min_bitrate_bps |-> 250000,
        degradation_preference |-> kMaintainResolution,
        network_priority |-> kHigh, disable_tcp_candidates |-> TRUE,
        screencast_min_bitrate_bps |-> 150000,
        screenshare_alr_probing |-> TRUE, factor |-> 11, max_queue_ms |-> 100,
        realtime |-> TRUE, allow_frame_reordering |-> FALSE,
        h264_profile |-> IF version >= 2 THEN "CONSTRAINED_HIGH"
                                         ELSE "CONSTRAINED_BASELINE",
        h264_level |-> "4.1",
        jitter_minimum_ms |-> 0, prerender_smoothing |-> FALSE,
        render_lead_ms |-> 10, android_decoder_low_latency |-> TRUE,
        stale_decoded_frame_ms |-> 150, nack_enabled |-> TRUE,
        nack_history_ms |-> 1000, rtx_enabled |-> TRUE, fec_mode |-> 0,
        pli_min_interval_ms |-> 500, no_decoded_frame_timeout_ms |-> 150,
        decoder_recreate_after_failed_pli |-> 2,
        sender_reset_after_failed_pli |-> 3, sample_interval_ms |-> 1000 ],
      IF version >= 2
      THEN [video_toolbox_low_latency_rate_control |-> TRUE]
      ELSE [data_rate_limit_factor |-> 15, data_rate_window_ms |-> 1000])

\* What each profile changes on top of it.
ProfileSpecific ==
    [ DETAIL_IDLE   |-> [max_fps |-> 15, content_mode |-> kText,
                         start_bitrate_bps |-> 2500000,
                         max_bitrate_bps |-> 6000000],
      DETAIL_ACTIVE |-> [max_fps |-> 20, content_mode |-> kText,
                         start_bitrate_bps |-> 3000000,
                         max_bitrate_bps |-> 6000000],
      MOTION        |-> [max_fps |-> 30, content_mode |-> kFluid,
                         start_bitrate_bps |-> 4000000,
                         max_bitrate_bps |-> 8000000,
                         degradation_preference |-> kMaintainFramerate],
      RECOVERY      |-> [max_width |-> 1280, max_height |-> 720,
                         max_fps |-> 15, content_mode |-> kFluid,
                         start_bitrate_bps |-> 1500000,
                         max_bitrate_bps |-> 3000000] ]

ForProfile(profile, version) ==
    [ schema_version |-> version, profile |-> profile,
      enabled |-> profile # "UPSTREAM",
      set |-> IF profile = "UPSTREAM" THEN Empty
              ELSE Overlay(ProfileBase(version), ProfileSpecific[profile]) ]

IsUpstream(c) == ~c.enabled /\ c.profile = "UPSTREAM"

-----------------------------------------------------------------------------
(* Validation.                                                             *)

Bounds ==
    [ max_width |-> <<320, 3840>>, max_height |-> <<180, 2160>>,
      min_fps |-> <<0, 60>>, max_fps |-> <<1, 60>>,
      factor |-> <<10, 30>>, max_queue_ms |-> <<10, 2000>>,
      periodic_idr_seconds |-> <<10, 240>>,
      max_h264_slice_bytes |-> <<512, 65535>>,
      data_rate_limit_factor |-> <<10, 30>>,
      data_rate_window_ms |-> <<100, 5000>>,
      max_frame_delay_count |-> <<0, 8>>, max_qp |-> <<0, 51>>,
      jitter_minimum_ms |-> <<0, 500>>, render_lead_ms |-> <<0, 100>>,
      stale_decoded_frame_ms |-> <<0, 5000>>,
      nack_history_ms |-> <<0, 5000>>, pli_min_interval_ms |-> <<100, 5000>>,
      no_decoded_frame_timeout_ms |-> <<50, 5000>>,
      decoder_recreate_after_failed_pli |-> <<1, 20>>,
      sender_reset_after_failed_pli |-> <<1, 20>> ]

InRange(c) ==
    \A f \in DOMAIN Bounds \cap DOMAIN c.set :
        Bounds[f][1] <= c.set[f] /\ c.set[f] <= Bounds[f][2]

FpsOrdered(c) ==
    Has(c, "min_fps") /\ Has(c, "max_fps") => c.set.min_fps <= c.set.max_fps

\* A check that a configuration without a start bitrate escapes.
BitratesOrderedIfStarted(c) ==
    Has(c, "start_bitrate_bps") =>
        /\ 0 <= ValueOr(c, "min_bitrate_bps", 0)
        /\ ValueOr(c, "min_bitrate_bps", 0) <= c.set.start_bitrate_bps
        /\ c.set.start_bitrate_bps
              <= ValueOr(c, "max_bitrate_bps", c.set.start_bitrate_bps)

\* A check that looks at the order alone.
BitratesOrderedSigned(c) ==
    LET minimum == ValueOr(c, "min_bitrate_bps", 0)
        start   == ValueOr(c, "start_bitrate_bps", minimum)
    IN  minimum <= start
        /\ start <= ValueOr(c, "max_bitrate_bps",
                            IF start >= minimum THEN start ELSE minimum)

\* min <= start <= max, each missing one standing for its neighbour.
BitratesOrdered(c) ==
    LET minimum == ValueOr(c, "min_bitrate_bps", 0)
        start   == ValueOr(c, "start_bitrate_bps", minimum)
        maximum == ValueOr(c, "max_bitrate_bps",
                           IF start >= minimum THEN start ELSE minimum)
    IN  0 <= minimum /\ minimum <= start /\ start <= maximum

H264Levels ==
    {"1.0", "1.1", "1.2", "1.3", "2.0", "2.1", "2.2", "3.0",
     "3.1", "3.2", "4.0", "4.1", "4.2", "5.0", "5.1", "5.2"}

H264Known(c) ==
    /\ Has(c, "h264_profile") =>
          c.set.h264_profile \in {"CONSTRAINED_BASELINE", "CONSTRAINED_HIGH"}
    /\ Has(c, "h264_level") => c.set.h264_level \in H264Levels

\* Which VideoToolbox members a schema version knows and which exclude
\* each other.
VideoToolboxConsistent(c) ==
    LET lowLatency == ValueOr(c, "video_toolbox_low_latency_rate_control", FALSE)
    IN  /\ Has(c, "video_toolbox_low_latency_rate_control")
              => c.schema_version # 1
        /\ Has(c, "video_toolbox_spatial_adaptive_qp") =>
              /\ c.schema_version >= 3
              /\ c.set.video_toolbox_spatial_adaptive_qp
                    \in SpatialAdaptiveQpModes
              /\ ~lowLatency
        /\ lowLatency => /\ ~Has(c, "data_rate_limit_factor")
                         /\ ~Has(c, "data_rate_window_ms")

RecoveryConsistent(c) ==
    /\ ValueOr(c, "rtx_enabled", FALSE) => ValueOr(c, "nack_enabled", FALSE)
    /\ Has(c, "fec_mode") => c.set.fec_mode \in FecModes
    /\ (/\ Has(c, "decoder_recreate_after_failed_pli")
        /\ Has(c, "sender_reset_after_failed_pli"))
          => c.set.sender_reset_after_failed_pli
                >= c.set.decoder_recreate_after_failed_pli

TypedTrials ==
    {"WebRTC-ProbingScreenshareBwe", "WebRTC-Video-Pacing",
     "WebRTC-CastTuning-Recovery", "WebRTC-CastTuning-VideoToolbox"}

RawTrials(c) == ValueOr(c, "raw_field_trials", Empty)

RawTrialsAllowed(c) ==
    /\ DOMAIN RawTrials(c) # {} => ValueOr(c, "allow_raw_field_trials", FALSE)
    /\ \A key \in DOMAIN RawTrials(c) :
          key # "" /\ RawTrials(c)[key] # "" /\ key \notin TypedTrials

Validate(c) ==
    /\ c.schema_version \in kMinimumTuningSchemaVersion..kTuningSchemaVersion
    /\ \/ IsUpstream(c)
       \/ /\ InRange(c)
          /\ FpsOrdered(c)
          /\ BitratesOrdered(c)
          /\ H264Known(c)
          /\ VideoToolboxConsistent(c)
          /\ RecoveryConsistent(c)
          /\ RawTrialsAllowed(c)

-----------------------------------------------------------------------------
(* Field trials: the trials of FieldTrialString by name, each with its      *)
(* parameters; the rendering as one string is left out.                     *)

ProbingTrial(c) ==
    << ValueOr(c, "factor", 11), ValueOr(c, "max_queue_ms", 100) >>

PacingTrial(c) ==
    [ factor |-> ValueOr(c, "factor", 11),
      max_delay_ms |-> ValueOr(c, "max_queue_ms", 100) ]

RecoveryTrial(c) ==
    [ nack |-> ValueOr(c, "nack_enabled", TRUE),
      nack_history_ms |-> ValueOr(c, "nack_history_ms", 1000),
      rtx |-> ValueOr(c, "rtx_enabled", TRUE),
      fec |-> ValueOr(c, "fec_mode", 0),
      pli_min_interval_ms |-> ValueOr(c, "pli_min_interval_ms", 500) ]

VideoToolboxTrial(c) ==
    [ realtime |-> ValueOr(c, "realtime", TRUE),
      reorder |-> ValueOr(c, "allow_frame_reordering", FALSE),
      idr_s |-> ValueOr(c, "periodic_idr_seconds", 0),
      slice_bytes |-> ValueOr(c, "max_h264_slice_bytes", 0),
      rate_factor |-> ValueOr(c, "data_rate_limit_factor", 15),
      rate_window_ms |-> ValueOr(c, "data_rate_window_ms", 1000),
      frame_delay |-> ValueOr(c, "max_frame_delay_count", -1),
      max_qp |-> ValueOr(c, "max_qp", -1),
      low_latency_rate_control |->
          ValueOr(c, "video_toolbox_low_latency_rate_control", FALSE),
      spatial_adaptive_qp |->
          ValueOr(c, "video_toolbox_spatial_adaptive_qp", -1) ]

VideoToolboxKeys ==
    {"realtime", "allow_frame_reordering", "periodic_idr_seconds",
     "max_h264_slice_bytes", "data_rate_limit_factor", "data_rate_window_ms",
     "max_frame_delay_count", "max_qp",
     "video_toolbox_low_latency_rate_control",
     "video_toolbox_spatial_adaptive_qp"}

TrialOn(c, trial) ==
    CASE trial = "WebRTC-ProbingScreenshareBwe" ->
           ValueOr(c, "screenshare_alr_probing", FALSE)
      [] trial = "WebRTC-Video-Pacing" ->
           Has(c, "factor") \/ Has(c, "max_queue_ms")
      [] trial = "WebRTC-CastTuning-Recovery" ->
           \E f \in {"nack_enabled", "rtx_enabled", "fec_mode"} : Has(c, f)
      [] trial = "WebRTC-CastTuning-VideoToolbox" ->
           \E f \in VideoToolboxKeys : Has(c, f)

FieldTrials(c) ==
    LET silent == IsUpstream(c) \/ ~Validate(c)
    IN  [trial \in IF silent THEN {}
                   ELSE {t \in TypedTrials : TrialOn(c, t)}
                        \cup DOMAIN RawTrials(c) |->
           CASE trial = "WebRTC-ProbingScreenshareBwe" -> ProbingTrial(c)
             [] trial = "WebRTC-Video-Pacing" -> PacingTrial(c)
             [] trial = "WebRTC-CastTuning-Recovery" -> RecoveryTrial(c)
             [] trial = "WebRTC-CastTuning-VideoToolbox" -> VideoToolboxTrial(c)
             [] OTHER -> RawTrials(c)[trial]]

-----------------------------------------------------------------------------
(* Live patches: partial functions from the member names of                 *)
(* CastTuningLivePatch; reset_bwe_estimate is in the domain when it is true. *)

LiveFields ==
    {"min_bitrate_bps", "max_bitrate_bps", "max_width", "max_height",
     "max_fps", "content_mode", "degradation_preference",
     "jitter_minimum_ms", "stale_decoded_frame_ms", "max_qp"}

\* The live fields whose values are ordinals; the others are ints.
Enumerations == {"content_mode", "degradation_preference"}

PatchFields ==
    LiveFields \cup {"start_bitrate_bps", "pacing_factor",
                     "periodic_idr_seconds", "reset_bwe_estimate"}

RequiredScope(patch) ==
    IF "pacing_factor" \in DOMAIN patch THEN "FACTORY"
    ELSE IF DOMAIN patch \cap {"start_bitrate_bps", "periodic_idr_seconds",
                               "reset_bwe_estimate"} # {} THEN "SESSION"
    ELSE "LIVE"

\* A merge that leaves the QP cap out of the effective configuration.
LivePartForgetsQp(patch) ==
    [f \in DOMAIN patch \cap (LiveFields \ {"max_qp"}) |-> patch[f]]
LivePart(patch) == [f \in DOMAIN patch \cap LiveFields |-> patch[f]]

\* A merge into the profile's defaults instead of the effective configuration.
MergeConfigOntoProfile(c, patch) ==
    [ schema_version |-> c.schema_version, profile |-> c.profile,
      enabled |-> TRUE,
      set |-> Overlay(ForProfile(c.profile, c.schema_version).set,
                      LivePart(patch)) ]
MergeConfig(c, patch) ==
    [ schema_version |-> c.schema_version, profile |-> c.profile,
      enabled |-> TRUE, set |-> Overlay(c.set, LivePart(patch)) ]

\* The checks of ApplyLivePatch before it touches anything.
Accepts(c, patch) ==
    RequiredScope(patch) = "LIVE" /\ Validate(MergeConfig(c, patch))
=============================================================================
