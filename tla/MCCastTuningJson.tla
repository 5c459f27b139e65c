---------------------------- MODULE MCCastTuningJson ----------------------------
(* Small instances of CastTuningJson for TLC.                                *)
EXTENDS CastTuningJson

Integer(n) == Number(10 * n)
Version(n) == [schema_version |-> Integer(n)]
Profiled(n, profile) == [schema_version |-> Integer(n), profile |-> String(profile)]
With(root, group, members) == Overlay(root, [g \in {group} |-> Object(members)])

TwoTrials ==
    [ allow_raw_field_trials |-> Bool(TRUE),
      raw_field_trials |-> Object([TrialA |-> String("on"), TrialB |-> String("on")]) ]

\* Documents that parse with some overrides and not with others.
MCDocuments ==
    { Malformed, Number(15), Object(Version(3)),
      Object(Profiled(1, "DETAIL_IDLE")), Object(Profiled(2, "UPSTREAM")),
      Object(Profiled(4, "MOTION")), Object(Profiled(3, "TEXT")),
      Object(With(Profiled(3, "DETAIL_ACTIVE"), "sender",
                  [max_fps |-> Integer(25), content_mode |-> String("FLUID")])),
      Object(With(Profiled(2, "MOTION"), "sender", [mystery |-> Integer(1)])),
      Object(With(Profiled(2, "MOTION"), "mystery", [max_fps |-> Integer(1)])),
      Object(Overlay(Profiled(2, "MOTION"), [sender |-> Null])),
      Object(With(Version(3), "experimental", TwoTrials)),
      Object(With(Version(3), "experimental", [raw_field_trials |-> Null])),
      Object(With(Version(3), "experimental",
                  [raw_field_trials |-> Object([TrialB |-> Object(TwoTrials)])])),
      Object(With(Profiled(3, "RECOVERY"), "recovery",
                  [nack_enabled |-> Bool(FALSE), rtx_enabled |-> Bool(FALSE),
                   fec_mode |-> String("FLEXFEC")])),
      Object(With(Profiled(2, "MOTION"), "encoder",
                  [max_qp |-> Integer(52), periodic_idr_seconds |-> Number(105)])),
      Object(With(With(Profiled(3, "UPSTREAM"), "pacing", [factor |-> Number(15)]),
                  "encoder",
                  [hardware_policy |-> String("REQUIRE_HARDWARE"),
                   video_toolbox_spatial_adaptive_qp |-> String("DISABLE")])) }

\* The VideoToolbox setting of schema version 2 in a document of version 1
\* without a profile.
MCUnvalidatedDocuments ==
    MCDocuments \cup
    { Object(With(Version(1), "encoder",
                  [video_toolbox_low_latency_rate_control |-> Bool(TRUE)])) }

MCProfileOverrides == {"", "MOTION", "UPSTREAM", "motion"}

MCOverrideDocuments ==
    { Absent, Malformed, Object(Empty), Object([sender |-> Bool(TRUE)]),
      Object([sender |-> Object([max_fps |-> Integer(20),
                                 network_priority |-> String("LOW")])]),
      Object([sender |-> Object([max_fps |-> Null])]),
      Object([sender |-> Object([mystery |-> Integer(1)])]),
      Object([profile |-> String("DETAIL_IDLE"),
              pacing |-> Object([max_queue_ms |-> Integer(200)])]),
      Object([schema_version |-> Integer(1),
              experimental |->
                 Object([allow_raw_field_trials |-> Bool(TRUE),
                         raw_field_trials |-> Object([TrialB |-> String("off")])])]),
      Object([experimental |->
                 Object([allow_raw_field_trials |-> Bool(TRUE),
                         raw_field_trials |->
                            Object([TrialB |-> Object([TrialB |-> Null])])])]),
      Object([encoder |-> Object([max_qp |-> Integer(30),
                                  periodic_idr_seconds |-> Integer(60),
                                  hardware_policy |-> String("ALLOW_SOFTWARE")])]) }

MCLivePatches ==
    { [max_fps |-> 10], [max_fps |-> 61], [max_qp |-> 24, max_fps |-> 12],
      [content_mode |-> kText], [start_bitrate_bps |-> 2000000] }

-----------------------------------------------------------------------------
(* The merge of the code, which descends as far as the objects go.           *)

RECURSIVE MergeObject(_, _)
MergeObject(overrides, destination) ==
    [ k \in DOMAIN overrides \cup DOMAIN destination |->
        IF k \notin DOMAIN overrides THEN destination[k]
        ELSE IF k \in ObjectsInBoth(overrides, destination)
        THEN Object(MergeObject(Members(overrides[k]), Members(destination[k])))
        ELSE overrides[k] ]

\* The levels of CastTuningJson's merge are enough: the recursive MergeObject
\* (cast_tuning_json.cc:22) loads the same documents, with the same configuration.
ASSUME MergesAllTheWay ==
    \A document \in Documents, profile \in ProfileOverrides,
       overrides \in OverrideDocuments :
      IsObject(document) /\ IsObject(overrides) =>
        LET deep   == MergeObject(Members(overrides), Base(document, profile))
            merged == Root(document, profile, overrides)
        IN  /\ ParsesJson(deep) <=> ParsesJson(merged)
            /\ ParsesJson(deep) => Configuration(deep) = Configuration(merged)
=============================================================================
