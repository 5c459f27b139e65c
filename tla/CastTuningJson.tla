---------------------------- MODULE CastTuningJson ----------------------------
(***************************************************************************)
(* cast_tuning_json.cc: from a document, a profile override and an         *)
(* overrides document to an effective configuration, and what live patches *)
(* make of it afterwards.                                                  *)
(*                                                                         *)
(* A JSON value is a record of its kind and its value.  Numbers are in     *)
(* tenths, so 15 is 1.5; an object is a function from member names to      *)
(* values.  A text that does not parse is the value Malformed.             *)
(***************************************************************************)
EXTENDS CastTuningConfig, Sequences, FiniteSets

CONSTANTS
    Documents,          \* the texts a session may be configured with
    ProfileOverrides,   \* CAST_TUNING_PROFILE, "" when it is not set
    OverrideDocuments,  \* CAST_TUNING_OVERRIDES_JSON, Absent when not set
    LivePatches,
    MaxPatches          \* bound on the patches applied

ASSUME MaxPatchesTyped == MaxPatches \in Nat

ASSUME PatchesHaveThePatchFields ==
    \A p \in LivePatches : DOMAIN p \subseteq PatchFields

Number(tenths)  == [kind |-> "number", value |-> tenths]
Bool(b)         == [kind |-> "bool", value |-> b]
String(text)    == [kind |-> "string", value |-> text]
Object(members) == [kind |-> "object", value |-> members]
Null            == [kind |-> "null", value |-> 0]
Malformed       == [kind |-> "malformed", value |-> 0]
Absent          == [kind |-> "absent", value |-> 0]

IsObject(v) == v.kind = "object"
Members(object) == object.value
IsInt(v) == v.kind = "number" /\ v.value % 10 = 0

-----------------------------------------------------------------------------
(* What each group of a document may contain.                              *)

SenderMembers ==
    [ max_width |-> "int", max_height |-> "int", min_fps |-> "int",
      max_fps |-> "int", latest_frame_only |-> "bool",
      content_mode |-> "content_mode", min_bitrate_bps |-> "int",
      start_bitrate_bps |-> "int", max_bitrate_bps |-> "int",
      degradation_preference |-> "degradation_preference",
      network_priority |-> "network_priority" ]

TransportMembers ==
    [ relay_only |-> "bool", disable_tcp_candidates |-> "bool",
      screencast_min_bitrate_bps |-> "int",
      allow_probe_without_media |-> "bool" ]

PacingMembers ==
    [ screenshare_alr_probing |-> "bool", factor |-> "double",
      max_queue_ms |-> "int" ]

EncoderMembers ==
    [ hardware_policy |-> "hardware_policy", realtime |-> "bool",
      allow_frame_reordering |-> "bool", h264_profile |-> "string",
      h264_level |-> "string", periodic_idr_seconds |-> "int",
      max_h264_slice_bytes |-> "int", data_rate_limit_factor |-> "double",
      data_rate_window_ms |-> "int", max_frame_delay_count |-> "int",
      max_qp |-> "int", video_toolbox_low_latency_rate_control |-> "bool",
      video_toolbox_spatial_adaptive_qp |-> "spatial_adaptive_qp" ]

ReceiverMembers ==
    [ jitter_minimum_ms |-> "int", prerender_smoothing |-> "bool",
      render_lead_ms |-> "int", android_decoder_low_latency |-> "bool",
      stale_decoded_frame_ms |-> "int" ]

RecoveryMembers ==
    [ nack_enabled |-> "bool", nack_history_ms |-> "int",
      rtx_enabled |-> "bool", fec_mode |-> "fec_mode",
      pli_min_interval_ms |-> "int", no_decoded_frame_timeout_ms |-> "int",
      decoder_recreate_after_failed_pli |-> "int",
      sender_reset_after_failed_pli |-> "int" ]

TelemetryMembers ==
    [ sample_interval_ms |-> "int", jsonl_path |-> "string",
      rtc_event_log |-> "bool" ]

ExperimentalMembers ==
    [ allow_raw_field_trials |-> "bool", raw_field_trials |-> "strings" ]

Groups ==
    [ sender |-> SenderMembers, transport |-> TransportMembers,
      pacing |-> PacingMembers, encoder |-> EncoderMembers,
      receiver |-> ReceiverMembers, recovery |-> RecoveryMembers,
      telemetry |-> TelemetryMembers, experimental |-> ExperimentalMembers ]

\* The texts of the enumerations.
EnumValues ==
    [ content_mode |-> [TEXT |-> 1, FLUID |-> 2],
      degradation_preference |->
          [MAINTAIN_RESOLUTION |-> 1, MAINTAIN_FRAMERATE |-> 2],
      network_priority |-> [LOW |-> 1, MEDIUM |-> 2, HIGH |-> 3],
      hardware_policy |-> [PREFER_HARDWARE |-> 0, REQUIRE_HARDWARE |-> 1,
                           ALLOW_SOFTWARE |-> 2],
      spatial_adaptive_qp |-> [DEFAULT |-> 0, DISABLE |-> 1],
      fec_mode |-> [DISABLED |-> 0, ULPFEC |-> 1, FLEXFEC |-> 2] ]

-----------------------------------------------------------------------------
(* ParseJson.                                                              *)

\* The Read* functions: whether a value is one of the member's type, and what
\* the configuration gets.
Conforms(type, v) ==
    CASE type = "int"     -> IsInt(v)
      [] type = "double"  -> v.kind = "number"
      [] type = "bool"    -> v.kind = "bool"
      [] type = "string"  -> v.kind = "string"
      [] type = "strings" -> /\ IsObject(v)
                             /\ \A k \in DOMAIN v.value : v.value[k].kind = "string"
      [] OTHER            -> v.kind = "string" /\ v.value \in DOMAIN EnumValues[type]

Decoded(type, v) ==
    CASE type = "int"     -> v.value \div 10
      [] type = "strings" -> [k \in DOMAIN v.value |-> v.value[k].value]
      [] type \in DOMAIN EnumValues -> EnumValues[type][v.value]
      [] OTHER            -> v.value

GroupParses(group, v) ==
    /\ IsObject(v)
    /\ DOMAIN v.value \subseteq DOMAIN Groups[group]
    /\ \A k \in DOMAIN v.value : Conforms(Groups[group][k], v.value[k])

ProfileNamed(root) ==
    IF "profile" \in DOMAIN root THEN root.profile ELSE String("UPSTREAM")

WellFormed(root) ==
    /\ DOMAIN root \subseteq {"schema_version", "profile"} \cup DOMAIN Groups
    /\ "schema_version" \in DOMAIN root /\ IsInt(root.schema_version)
    /\ root.schema_version.value \div 10
          \in kMinimumTuningSchemaVersion..kTuningSchemaVersion
    /\ ProfileNamed(root).kind = "string" /\ ProfileNamed(root).value \in Profiles
    /\ \A g \in DOMAIN root \cap DOMAIN Groups : GroupParses(g, root[g])

\* The members a document sets, from all its groups.
Settings(root) ==
    LET members(g) == DOMAIN root[g].value \cap DOMAIN Groups[g]
        present == DOMAIN root \cap DOMAIN Groups
    IN  [k \in UNION {members(g) : g \in present} |->
           LET g == CHOOSE g \in present : k \in members(g)
           IN  Decoded(Groups[g][k], root[g].value[k])]

Configuration(root) ==
    LET version == root.schema_version.value \div 10
        profile == ProfileNamed(root).value
    IN  [ schema_version |-> version, profile |-> profile,
          enabled |-> profile # "UPSTREAM" \/ Cardinality(DOMAIN root) > 2,
          set |-> Overlay(ForProfile(profile, version).set, Settings(root)) ]

ParsesJson(root) == WellFormed(root) /\ Validate(Configuration(root))

-----------------------------------------------------------------------------
(* ParseJsonWithOverrides.                                                  *)

(* MergeObject, level by level.  It descends where both values are objects, *)
(* and a root that parses has objects on three levels: the root, its groups *)
(* and the raw trials of one of them.  A trial that is an object is refused, *)
(* so what it would be merged into makes no difference.                     *)

MergeTrials(overrides, destination) == Overlay(destination, overrides)

ObjectsInBoth(overrides, destination) ==
    {k \in DOMAIN overrides \cap DOMAIN destination :
        IsObject(overrides[k]) /\ IsObject(destination[k])}

MergeGroup(overrides, destination) ==
    Overlay(Overlay(destination, overrides),
            [k \in ObjectsInBoth(overrides, destination) |->
                Object(MergeTrials(Members(overrides[k]), Members(destination[k])))])

MergeRoot(overrides, destination) ==
    Overlay(Overlay(destination, overrides),
            [k \in ObjectsInBoth(overrides, destination) |->
                Object(MergeGroup(Members(overrides[k]), Members(destination[k])))])

\* A profile override that only fills in what the document leaves out.
BaseFillsIn(document, profile) ==
    IF profile = "" THEN Members(document)
    ELSE Overlay([profile |-> String(profile)], Members(document))
\* The document's root under the profile of the session.
Base(document, profile) ==
    IF profile = "" THEN Members(document)
    ELSE Overlay(Members(document), [profile |-> String(profile)])

Root(document, profile, overrides) ==
    IF overrides = Absent THEN Base(document, profile)
    ELSE MergeRoot(Members(overrides), Base(document, profile))

ParsesWithOverrides(document, profile, overrides) ==
    /\ IsObject(document)
    /\ overrides = Absent \/ IsObject(overrides)
    /\ ParsesJson(Root(document, profile, overrides))

-----------------------------------------------------------------------------
(* A session: its configuration is loaded once, and then patched.           *)

VARIABLES json, profile_override, overrides_json,
          status,     \* "unloaded", "loaded" or "refused"
          config,     \* the effective configuration
          patches     \* the live patches applied to it

inputs == <<json, profile_override, overrides_json>>
jsonVars == <<inputs, status, config, patches>>

JsonInit ==
    /\ json \in Documents
    /\ profile_override \in ProfileOverrides
    /\ overrides_json \in OverrideDocuments
    /\ status = "unloaded"
    /\ config = ForProfile("UPSTREAM", kTuningSchemaVersion)
    /\ patches = <<>>

Load ==
    /\ status = "unloaded"
    /\ IF ParsesWithOverrides(json, profile_override, overrides_json)
       THEN /\ status' = "loaded"
            /\ config' = Configuration(Root(json, profile_override, overrides_json))
       ELSE status' = "refused" /\ UNCHANGED config
    /\ UNCHANGED <<inputs, patches>>

\* A live patch that the controller applied.
Patch(p) ==
    /\ status = "loaded" /\ Len(patches) < MaxPatches
    /\ Accepts(config, p)
    /\ config' = MergeConfig(config, p)
    /\ patches' = Append(patches, p)
    /\ UNCHANGED <<inputs, status>>

JsonNext == Load \/ \E p \in LivePatches : Patch(p)

JsonSpec == JsonInit /\ [][JsonNext]_jsonVars
-----------------------------------------------------------------------------
(* Properties.                                                              *)

\* "Precedence is fixed" (shim design, 21-27): every member has the value of
\* the strongest layer that names it - live patches, the latest first, then
\* the overrides, then the document, then the profile, which is itself the one
\* of the strongest layer - and no member has a value no layer gave it.  Raw
\* trials are merged one by one.  A member that the schema does not know, in either
\* document and at either level, refuses the configuration, and no override hides it
\* (cast_tuning_json_contract_test.cc:111, "unknown field must fail").
Names(document, group, k) ==
    /\ IsObject(document) /\ group \in DOMAIN document.value
    /\ IsObject(document.value[group]) /\ k \in DOMAIN document.value[group].value

Patched(k) == {i \in DOMAIN patches : k \in DOMAIN patches[i]}

Strongest(member, default) ==
    IF IsObject(overrides_json) /\ member \in DOMAIN overrides_json.value
    THEN overrides_json.value[member].value
    ELSE IF member = "profile" /\ profile_override # "" THEN profile_override
    ELSE IF member \in DOMAIN json.value THEN json.value[member].value
    ELSE default

ProfileDefaults ==
    ForProfile(Strongest("profile", "UPSTREAM"),
               Strongest("schema_version", 0) \div 10).set

Expected(group, k) ==
    IF Patched(k) # {}
    THEN patches[CHOOSE i \in Patched(k) : \A j \in Patched(k) : j <= i][k]
    ELSE IF Names(overrides_json, group, k)
    THEN Decoded(Groups[group][k], overrides_json.value[group].value[k])
    ELSE IF Names(json, group, k)
    THEN Decoded(Groups[group][k], json.value[group].value[k])
    ELSE ProfileDefaults[k]

Given(group, k) ==
    \/ Patched(k) # {} \/ k \in DOMAIN ProfileDefaults
    \/ Names(json, group, k) \/ Names(overrides_json, group, k)

TrialsOf(document) ==
    IF /\ Names(document, "experimental", "raw_field_trials")
       /\ IsObject(document.value.experimental.value.raw_field_trials)
    THEN document.value.experimental.value.raw_field_trials.value ELSE Empty

Unknown(document) ==
    IsObject(document) /\ \E m \in DOMAIN document.value :
       \/ m \notin {"schema_version", "profile"} \cup DOMAIN Groups
       \/ /\ m \in DOMAIN Groups /\ IsObject(document.value[m])
          /\ \E k \in DOMAIN document.value[m].value : k \notin DOMAIN Groups[m]

PrecedenceHolds ==
    status = "loaded" =>
      /\ ~Unknown(json) /\ ~Unknown(overrides_json)
      /\ config.profile = Strongest("profile", "UPSTREAM")
      /\ \A g \in DOMAIN Groups : \A k \in DOMAIN Groups[g] \ {"raw_field_trials"} :
            /\ Has(config, k) = Given(g, k)
            /\ Has(config, k) => config.set[k] = Expected(g, k)
      /\ LET trials == Overlay(TrialsOf(json), TrialsOf(overrides_json))
         IN  RawTrials(config) = [k \in DOMAIN trials |-> trials[k].value]

\* README.md:88-92: bitrate, framerate and content are LIVE, the field trials
\* belong to the FACTORY.  No live patch of an enabled configuration changes a
\* parameter of the trials its factory was created with, but for the QP cap,
\* which the hooks also take at run time.  (The first patch of a disabled
\* configuration enables it, and with it the trials of its document.)
WithoutQp(c) ==
    [c EXCEPT !.set = [f \in DOMAIN c.set \ {"max_qp"} |-> c.set[f]]]

PatchesKeepTrials ==
    [][ status = "loaded" /\ config.enabled =>
          FieldTrials(WithoutQp(config')) = FieldTrials(WithoutQp(config)) ]_jsonVars

-----------------------------------------------------------------------------
(* A statement of the tests which TLC refutes, see the README.              *)

\* cast_tuning_json_contract_test.cc:45-50, "schema v1 must reject the schema
\* v2 VideoToolbox setting": the values of a loaded configuration satisfy the
\* rules of its schema version.
LoadedValuesAreValid ==
    status = "loaded" => Validate([config EXCEPT !.enabled = TRUE])
================================================================================
