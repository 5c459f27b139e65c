------------------------- MODULE CastTuningController -------------------------
(***************************************************************************)
(* cast_tuning_controller.{h,cc} over the WebRTC backend: a live patch is  *)
(* merged and validated as one candidate, then carried through the four    *)
(* setters of the backend, and undone in reverse order when one fails.     *)
(*                                                                         *)
(* One step is one call of the backend, because the media threads see what *)
(* each call leaves behind.  The controller itself runs on one thread: its *)
(* `step' is the program counter of ApplyLivePatch, and nothing else of    *)
(* the controller or the backend runs until it is "idle" again.  The       *)
(* fingerprint of a configuration stands for the configuration.            *)
(***************************************************************************)
EXTENDS WebRtcCastTuningBackend

CONSTANTS
    InitialConfigurations,  \* what the controller may be constructed with
    LivePatches,            \* what the application may ask for
    MaxRevision             \* bound on the patches applied

ASSUME PatchesTyped ==
    \A p \in LivePatches : /\ DOMAIN p \subseteq PatchFields
                           /\ \A f \in DOMAIN p \cap LiveFields :
                                 p[f] \in (IF f \in Enumerations THEN Nat ELSE Int)
ASSUME ConfigsTyped ==
    \A c \in InitialConfigurations :
        \A f \in StateFields : ValueOr(c, f, 0) \in Nat
\* The loader validates an enabled configuration (cast_tuning_json.cc:455), and the
\* profiles of cast_tuning_config.cc that set a minimum set no maximum below it.
BoundsOrdered(min, max) == min # 0 /\ max # 0 => min <= max
ASSUME ConfigsOrdered ==
    \A c \in InitialConfigurations :
        BoundsOrdered(ValueOr(c, "min_bitrate_bps", 0), ValueOr(c, "max_bitrate_bps", 0))
ASSUME MaxRevisionTyped == MaxRevision \in Nat

VARIABLES
    config_,
    revision, recreate_required,    \* of snapshot_
    step,                           \* where ApplyLivePatch is
    txn,                            \* its locals
    result,                         \* status and scope it last returned
    telemetry                       \* the last event emitted

vars == <<backendVars, config_, revision, recreate_required, step, txn,
          result, telemetry>>

Forward == {"bitrate", "sender", "encoder", "receiver"}
Undo    == {"undo_encoder", "undo_sender", "undo_bitrate"}
Steps   == {"idle"} \cup Forward \cup Undo

NoTxn == [active |-> FALSE]

MergeState(current, patch) ==
    [f \in StateFields |-> IF f \in DOMAIN patch \cap LiveFields
                           THEN patch[f] ELSE current[f]]

Event(type, detail) ==
    [event_type |-> type, detail |-> detail, revision |-> revision]

Init ==
    \E c \in InitialConfigurations :
        /\ BackendInit(c)
        /\ config_ = c
        /\ revision = 0 /\ recreate_required = FALSE
        /\ step = "idle" /\ txn = NoTxn
        /\ result = [status |-> "none", required_scope |-> "LIVE"]
        /\ telemetry = [event_type |-> "config_applied", detail |-> "initial",
                        revision |-> 0]

-----------------------------------------------------------------------------
(* ApplyLivePatch up to its first setter.                                   *)

Reject(patch) ==
    /\ step = "idle" /\ revision < MaxRevision
    /\ ~Accepts(config_, patch)
    /\ result' = [status |-> "rejected", required_scope |-> RequiredScope(patch)]
    /\ telemetry' = Event("config_rejected", "validation_or_backend_error")
    /\ UNCHANGED <<backendVars, config_, revision, recreate_required, step, txn>>

BeginLivePatch(patch) ==
    /\ step = "idle" /\ revision < MaxRevision
    /\ Accepts(config_, patch)
    /\ step' = "bitrate"
    /\ txn' = [active |-> TRUE, patch |-> patch,
               candidate |-> MergeConfig(config_, patch),
               old |-> state_, new |-> MergeState(state_, patch),
               failed |-> FALSE, before |-> InForce]
    /\ result' = [status |-> "rejected", required_scope |-> "LIVE"]
    /\ telemetry' = Event("config_applied", "live_patch")
    /\ UNCHANGED <<backendVars, config_, revision, recreate_required>>

-----------------------------------------------------------------------------
(* The setters, in order.                                                   *)

Return == step' = "idle" /\ txn' = NoTxn
Goto(next) == step' = next /\ UNCHANGED txn

ControllerUnchanged ==
    UNCHANGED <<config_, revision, recreate_required, result, telemetry>>

\* Which undo a failed setter starts at: the setter before it.
AfterSender(ok)  == IF ok THEN "encoder" ELSE "undo_bitrate"
\* A rollback that forgets one setter.
AfterEncoderForgetsSender(ok) == IF ok THEN "receiver" ELSE "undo_bitrate"
AfterEncoder(ok) == IF ok THEN "receiver" ELSE "undo_sender"

SetBitrate(ok) ==
    /\ step = "bitrate"
    /\ ApplyBitrate(txn.new, ok)
    /\ IF ok THEN Goto("sender") ELSE Return
    /\ ControllerUnchanged
    /\ UNCHANGED <<hasInitial, last_initial_apply_error_, senderVars,
                   receiverVars, encoderVars>>

SetSender(ok) ==
    /\ step = "sender"
    /\ ApplySender(txn.new, ok)
    /\ Goto(AfterSender(ok))
    /\ ControllerUnchanged
    /\ UNCHANGED <<hasInitial, last_initial_apply_error_, peerVars,
                   receiverVars, encoderVars>>

SetEncoder(ok) ==
    /\ step = "encoder"
    /\ ApplyEncoder(txn.new, ok)
    /\ Goto(AfterEncoder(ok))
    /\ ControllerUnchanged
    /\ UNCHANGED <<hasInitial, last_initial_apply_error_, peerVars,
                   senderVars, receiverVars>>

\* The last setter, and with its success the commit.
SetReceiver(ok) ==
    /\ step = "receiver"
    /\ ApplyReceiver(txn.new, ok)
    /\ IF ok
       THEN /\ config_' = txn.candidate
            /\ revision' = revision + 1
            /\ result' = [status |-> "applied", required_scope |-> "LIVE"]
            /\ Return
       ELSE /\ Goto("undo_encoder")
            /\ UNCHANGED <<config_, revision, result>>
    /\ UNCHANGED <<recreate_required, telemetry, hasInitial,
                   last_initial_apply_error_, peerVars, senderVars, encoderVars>>

-----------------------------------------------------------------------------
(* RollBack*: every setter already called is called again with the old      *)
(* state, whatever the others answer.                                       *)

UndoThen(next, ok) ==
    /\ step' = next
    /\ txn' = [txn EXCEPT !.failed = @ \/ ~ok]

UndoEncoder(ok) ==
    /\ step = "undo_encoder"
    /\ ApplyEncoder(txn.old, ok)
    /\ UndoThen("undo_sender", ok)
    /\ ControllerUnchanged
    /\ UNCHANGED <<hasInitial, last_initial_apply_error_, peerVars,
                   senderVars, receiverVars>>

UndoSender(ok) ==
    /\ step = "undo_sender"
    /\ ApplySender(txn.old, ok)
    /\ UndoThen("undo_bitrate", ok)
    /\ ControllerUnchanged
    /\ UNCHANGED <<hasInitial, last_initial_apply_error_, peerVars,
                   receiverVars, encoderVars>>

UndoBitrate(ok) ==
    /\ step = "undo_bitrate"
    /\ ApplyBitrate(txn.old, ok)
    /\ IF txn.failed \/ ~ok
       THEN /\ result' = [status |-> "session_recreate_required",
                          required_scope |-> "SESSION"]
            /\ recreate_required' = TRUE
       ELSE UNCHANGED <<result, recreate_required>>
    /\ Return
    /\ UNCHANGED <<config_, revision, telemetry, hasInitial,
                   last_initial_apply_error_, senderVars, receiverVars,
                   encoderVars>>

-----------------------------------------------------------------------------
(* Between two patches the application attaches and drops objects.          *)

Attach ==
    /\ step = "idle"
    /\ \/ \E same, ok \in BOOLEAN : AttachPeerConnection(same, ok)
       \/ \E same, withTrack, withSource, ok \in BOOLEAN :
             AttachSender(same, withTrack, withSource, ok)
       \/ \E same \in BOOLEAN : AttachReceiver(same)
    /\ UNCHANGED <<config_, revision, recreate_required, step, txn, result,
                   telemetry>>

\* The source is dropped by another thread as well, also amid a patch.
DropSource ==
    /\ ReleaseSource
    /\ UNCHANGED <<config_, revision, recreate_required, step, txn, result,
                   telemetry>>

Next ==
    \/ \E p \in LivePatches : Reject(p) \/ BeginLivePatch(p)
    \/ \E ok \in BOOLEAN :
          \/ SetBitrate(ok) \/ SetSender(ok) \/ SetEncoder(ok) \/ SetReceiver(ok)
          \/ UndoEncoder(ok) \/ UndoSender(ok) \/ UndoBitrate(ok)
    \/ Attach
    \/ DropSource

Spec == Init /\ [][Next]_vars
-----------------------------------------------------------------------------
(* Properties.                                                              *)

\* The types of the variables, and that the locals of ApplyLivePatch exist
\* exactly while it runs.
TypeOK ==
    /\ BackendTypeOK
    /\ \A f \in StateFields : ValueOr(config_, f, 0) \in Nat
    /\ revision \in Nat /\ recreate_required \in BOOLEAN
    /\ step \in Steps
    /\ txn.active = (step # "idle")
    /\ step # "idle" =>
          /\ txn.patch \in LivePatches /\ txn.failed \in BOOLEAN
          /\ txn.old \in [StateFields -> Nat]
          /\ txn.new \in [StateFields -> Nat]

\* Between two patches, unless an unsuccessful rollback has been reported,
\* what the backend believes to be in force is what the effective
\* configuration says, whichever setter of whichever earlier patch failed
\* (cast_tuning_controller.cc, ApplyLivePatch and the three RollBack*).
ConfigMatchesBackend ==
    step = "idle" /\ ~recreate_required =>
        \A f \in LiveFields : state_[f] = ValueOr(config_, f, 0)

\* What each attached object holds is what the backend reports, for every
\* setting that has a value (0 or unspecified is none, and ApplySender passes it
\* over), as long as no initial apply failed and the
\* source has not been released; also after rejected patches and after an
\* object was attached again.  An object the initial configuration says
\* nothing about is not set when it is attached, and is exempt.
SettingsInForce ==
    step = "idle" /\ ~recreate_required /\ ~last_initial_apply_error_ =>
        /\ peer /\ "bitrate" \in hasInitial =>
              \A f \in BitrateFields : bwe[f] = state_[f]
        /\ sender /\ source # "released" /\ "sender" \in hasInitial =>
              /\ \A f \in EncodingFields : state_[f] # 0 => encoding[f] = state_[f]
              /\ track /\ state_["content_mode"] # kUnspecified =>
                    hint = state_["content_mode"]
              /\ source = "live" /\ (\E f \in OutputFields : state_[f] # 0) =>
                    \A f \in OutputFields : output[f] = state_[f]
        /\ receiver /\ "receiver" \in hasInitial =>
              delay = state_["jitter_minimum_ms"]
        /\ state_["max_qp"] # 0 => cap = state_["max_qp"]

\* Until an unsuccessful rollback has been reported, the PeerConnection never
\* holds a minimum above its maximum, not even between two setters of a patch or
\* of its rollback: bounds reach it only together and from a validated
\* configuration.  After such a report a patch is validated against the effective
\* configuration and merged into a backend state that is another one
\* (cast_tuning_controller.cc:290-297), so its bounds may cross.
BitrateBoundsOrdered ==
    ~recreate_required =>
        BoundsOrdered(bwe["min_bitrate_bps"], bwe["max_bitrate_bps"])

\* The controller with its backend implements AtomicLivePatch: the steps
\* between the first setter and the commit or the end of the rollback are
\* invisible.
Reported == IF step = "idle" THEN state_ ELSE txn.old
LiveValue(c, f) == ValueOr(c, f, 0)

Atomic == INSTANCE AtomicLivePatch
            WITH Merge <- MergeConfig, Value <- LiveValue,
                 config <- config_,
                 live <- [f \in LiveFields |-> Reported[f]],
                 degraded <- recreate_required

AppliesAtomically == Atomic!AtomicSpec

-----------------------------------------------------------------------------
(* Statements of the documentation which TLC refutes, see the README.       *)

RejectedPatchEnds ==
    step # "idle" /\ step' = "idle" /\ result'.status = "rejected"

\* README.md:94-96: on a setter failure the old values are rolled back, and
\* an unsuccessful rollback is reported as SESSION_RECREATE_REQUIRED rather
\* than as a partial success.  So a sender value that was in force before a
\* patch that is merely rejected is in force after it.
RejectedPatchRestores ==
    [][ RejectedPatchEnds /\ ~last_initial_apply_error_ =>
          \A f \in EncodingFields :
             txn.old[f] # 0 => encoding'[f] = txn.before.encoding[f] ]_vars

\* webrtc_cast_tuning_backend.cc:158, "start_bitrate_bps seeds a new estimate
\* once; live min/max changes must not reset an established bandwidth
\* estimate".
StartSeedsOnce == seeds <= 1
=============================================================================
