---------------------- MODULE CastTuningControllerProofs ----------------------
(***************************************************************************)
(* Theorems about CastTuningController for every value of its constants:   *)
(* any set of initial configurations, any set of live patches, any bound.  *)
(***************************************************************************)
EXTENDS CastTuningController, TLAPS

-----------------------------------------------------------------------------
(* Lemmas about the operators.                                              *)

\* A configuration after a patch has the patched value of a live member the
\* patch names, and its own value of any other.
LEMMA MergedValue ==
    ASSUME NEW c, NEW patch, NEW f
    PROVE  ValueOr(MergeConfig(c, patch), f, 0) =
             IF f \in DOMAIN patch \cap LiveFields THEN patch[f]
                                                   ELSE ValueOr(c, f, 0)
<1> DEFINE over == LivePart(patch)
<1>1. DOMAIN over = DOMAIN patch \cap LiveFields
  BY DEF LivePart
<1>2. \A g \in DOMAIN patch \cap LiveFields : over[g] = patch[g]
  BY DEF LivePart
<1>3. DOMAIN Overlay(c.set, over) = DOMAIN c.set \cup DOMAIN over
  BY DEF Overlay
<1>4. \A g \in DOMAIN c.set \cup DOMAIN over :
        Overlay(c.set, over)[g] = IF g \in DOMAIN over THEN over[g] ELSE c.set[g]
  BY DEF Overlay
<1>5. MergeConfig(c, patch).set = Overlay(c.set, over)
  BY DEF MergeConfig
<1> QED
  BY <1>1, <1>2, <1>3, <1>4, <1>5 DEF ValueOr, Has

LEMMA FieldSets ==
    /\ LiveFields \subseteq StateFields
    /\ BitrateFields \subseteq StateFields
    /\ SenderFields \subseteq StateFields
    /\ OutputFields \subseteq SenderFields
    /\ EncodingFields \subseteq StateFields
    /\ ReceiverFields \subseteq StateFields
    /\ "max_qp" \in StateFields /\ "content_mode" \in StateFields
    /\ "start_bitrate_bps" \in StateFields
    /\ "jitter_minimum_ms" \in StateFields
  BY DEF LiveFields, StateFields, BitrateFields, SenderFields, OutputFields,
         EncodingFields, ReceiverFields

\* Validation keeps negative values out: a patch may ask for one, an accepted
\* patch does not.
LEMMA AcceptedTyped ==
    ASSUME NEW c, \A f \in StateFields : ValueOr(c, f, 0) \in Nat,
           NEW patch \in LivePatches, Accepts(c, patch),
           NEW f \in DOMAIN patch \cap LiveFields
    PROVE  patch[f] \in Nat
<1> DEFINE m == MergeConfig(c, patch)
<1>1. InRange(m) /\ BitratesOrdered(m)
  BY DEF Accepts, Validate, IsUpstream, MergeConfig
<1>2. Has(m, f) /\ m.set[f] = patch[f]
  BY DEF MergeConfig, Overlay, LivePart, Has
<1>3. \A g \in StateFields : ValueOr(m, g, 0) \in Int
  BY MergedValue, PatchesTyped
<1>4. CASE f \in Enumerations
  BY <1>4, PatchesTyped
<1>5. CASE f = "min_bitrate_bps"
  BY <1>1, <1>2, <1>3, <1>5, FieldSets DEF BitratesOrdered, ValueOr, BitrateFields
<1>6. CASE f = "max_bitrate_bps"
  <2>1. /\ ValueOr(m, "min_bitrate_bps", 0) \in Int
        /\ \A d \in Int : ValueOr(m, "start_bitrate_bps", d) \in Int
    BY <1>3, FieldSets DEF ValueOr, BitrateFields
  <2>2. \A d : ValueOr(m, "max_bitrate_bps", d) = patch[f]
    BY <1>2, <1>6 DEF ValueOr
  <2>3. patch[f] \in Int
    BY PatchesTyped
  <2> QED
    BY <1>1, <2>1, <2>2, <2>3 DEF BitratesOrdered
<1>7. CASE f \in {"max_width", "max_height", "max_fps", "jitter_minimum_ms",
                  "stale_decoded_frame_ms", "max_qp"}
  <2>1. f \in DOMAIN Bounds /\ 0 <= Bounds[f][1]
    BY <1>7 DEF Bounds
  <2>2. Bounds[f][1] \in Int
    BY <1>7 DEF Bounds
  <2>3. Bounds[f][1] <= patch[f]
    BY <1>1, <1>2, <2>1 DEF InRange, Has
  <2>4. patch[f] \in Int
    BY PatchesTyped
  <2> QED
    BY <2>1, <2>2, <2>3, <2>4
<1> QED
  BY <1>4, <1>5, <1>6, <1>7 DEF LiveFields, Enumerations

\* The state a patch asks for.
LEMMA MergedState ==
    ASSUME NEW s \in [StateFields -> Nat], NEW c,
           \A f \in StateFields : ValueOr(c, f, 0) \in Nat,
           NEW patch \in LivePatches, Accepts(c, patch)
    PROVE  MergeState(s, patch) \in [StateFields -> Nat]
<1> SUFFICES ASSUME NEW f \in StateFields
             PROVE  (IF f \in DOMAIN patch \cap LiveFields THEN patch[f]
                                                           ELSE s[f]) \in Nat
  BY DEF MergeState
<1> QED
  BY AcceptedTyped

\* The state after one setter.
LEMMA AdoptTyped ==
    ASSUME state_ \in [StateFields -> Nat],
           NEW s \in [StateFields -> Nat], NEW fields
    PROVE  Adopt(s, fields) \in [StateFields -> Nat]
  BY DEF Adopt

-----------------------------------------------------------------------------
(* The inductive invariant.                                                 *)

LiveSenderFields == OutputFields \cup {"content_mode", "degradation_preference"}

AgreeOn(s, t, fields) == \A f \in fields : s[f] = t[f]

\* The locals of ApplyLivePatch while it runs.
Locals ==
    step # "idle" =>
        /\ DOMAIN txn = {"active", "patch", "candidate", "old", "new",
                         "failed", "before"}
        /\ txn.candidate = MergeConfig(config_, txn.patch)
        /\ txn.new = MergeState(txn.old, txn.patch)
        /\ Accepts(config_, txn.patch)

\* The captured state agrees with the configuration, unless some earlier
\* rollback was reported as unsuccessful.
OldMatchesConfig ==
    step # "idle" /\ ~recreate_required =>
        \A f \in LiveFields : txn.old[f] = ValueOr(config_, f, 0)

\* Which settings of the backend are the new ones, and which the old, before
\* each call of the backend.
Progress ==
    /\ step = "bitrate" => AgreeOn(state_, txn.old, LiveFields)
    /\ step = "sender" =>
          /\ AgreeOn(state_, txn.new, BitrateFields)
          /\ AgreeOn(state_, txn.old,
                     LiveSenderFields \cup {"max_qp"} \cup ReceiverFields)
    /\ step = "encoder" =>
          /\ AgreeOn(state_, txn.new, BitrateFields \cup LiveSenderFields)
          /\ AgreeOn(state_, txn.old, {"max_qp"} \cup ReceiverFields)
    /\ step \in {"receiver", "undo_encoder"} =>
          /\ AgreeOn(state_, txn.new,
                     BitrateFields \cup LiveSenderFields \cup {"max_qp"})
          /\ AgreeOn(state_, txn.old, ReceiverFields)
    /\ step = "undo_sender" /\ ~txn.failed =>
          AgreeOn(state_, txn.old, {"max_qp"} \cup ReceiverFields)
    /\ step = "undo_bitrate" /\ ~txn.failed =>
          AgreeOn(state_, txn.old,
                  LiveSenderFields \cup {"max_qp"} \cup ReceiverFields)

IInv ==
    /\ TypeOK
    /\ Locals
    /\ OldMatchesConfig
    /\ Progress
    /\ ConfigMatchesBackend

-----------------------------------------------------------------------------
(* What one call of a setter does to state_ and to the objects it writes.   *)

LEMMA ApplyBitrateEffect ==
    ASSUME BackendTypeOK, NEW s \in [StateFields -> Nat], NEW ok \in BOOLEAN,
           ApplyBitrate(s, ok)
    PROVE  /\ state_' \in [StateFields -> Nat]
           /\ peer' \in BOOLEAN /\ seeds' \in 0..2
           /\ bwe' \in [BitrateFields -> Nat]
           /\ ok => AgreeOn(state_', s, BitrateFields)
           /\ ~ok => state_' = state_
           /\ AgreeOn(state_', state_,
                      LiveSenderFields \cup {"max_qp"} \cup ReceiverFields)
<1> USE FieldSets DEF BackendTypeOK, AgreeOn, LiveSenderFields, OutputFields,
                      BitrateFields, ReceiverFields
<1>1. CASE ~peer
  BY <1>1 DEF ApplyBitrate, peerVars
<1>2. CASE peer /\ ~ok
  BY <1>2 DEF ApplyBitrate, peerVars
<1>3. CASE peer /\ ok
  <2>1. /\ state_' = [Adopt(s, BitrateFields) EXCEPT !["start_bitrate_bps"] = 0]
        /\ bwe' = [f \in BitrateFields |-> s[f]]
        /\ seeds' = IF s["start_bitrate_bps"] > 0 /\ seeds < 2
                    THEN seeds + 1 ELSE seeds
        /\ peer' = peer
    BY <1>3 DEF ApplyBitrate
  <2>2. Adopt(s, BitrateFields) \in [StateFields -> Nat]
    BY AdoptTyped
  <2>3. /\ state_' \in [StateFields -> Nat]
        /\ \A f \in StateFields \ {"start_bitrate_bps"} :
              state_'[f] = Adopt(s, BitrateFields)[f]
    BY <2>1, <2>2
  <2>4. \A f \in StateFields :
           Adopt(s, BitrateFields)[f] = IF f \in BitrateFields THEN s[f] ELSE state_[f]
    BY DEF Adopt
  <2>5. bwe' \in [BitrateFields -> Nat]
    BY <2>1
  <2>6. seeds' \in 0..2 /\ peer' \in BOOLEAN
    BY <2>1
  <2> QED
    BY <1>3, <2>3, <2>4, <2>5, <2>6 DEF StateFields, SenderFields
<1> QED
  BY <1>1, <1>2, <1>3

LEMMA ApplySenderEffect ==
    ASSUME BackendTypeOK, NEW s \in [StateFields -> Nat], NEW ok \in BOOLEAN,
           ApplySender(s, ok)
    PROVE  /\ state_' \in [StateFields -> Nat]
           /\ sender' \in BOOLEAN /\ encoding' \in [EncodingFields -> Nat]
           /\ track' \in BOOLEAN /\ hint' \in Nat
           /\ source' \in {"none", "live", "released"}
           /\ output' \in [OutputFields -> Nat]
           /\ ok => AgreeOn(state_', s, LiveSenderFields)
           /\ ~ok => state_' = state_
           /\ AgreeOn(state_', state_,
                      BitrateFields \cup {"max_qp"} \cup ReceiverFields)
<1> USE FieldSets DEF BackendTypeOK, AgreeOn
<1>0. /\ LiveSenderFields \subseteq SenderFields \ {"network_priority"}
      /\ (BitrateFields \cup {"max_qp"} \cup ReceiverFields) \cap SenderFields = {}
      /\ (BitrateFields \cup {"max_qp"} \cup ReceiverFields) \subseteq StateFields
  BY DEF LiveSenderFields, SenderFields, OutputFields, BitrateFields,
         ReceiverFields, StateFields
<1>1. CASE ~sender
  BY <1>0, <1>1 DEF ApplySender, senderVars
<1>2. CASE sender /\ ~ok /\ UNCHANGED <<state_, senderVars>>
  BY <1>2 DEF senderVars
<1>3. CASE /\ sender
           /\ encoding' = [f \in EncodingFields |->
                             IF s[f] > 0 THEN s[f] ELSE encoding[f]]
           /\ hint' = IF track /\ s["content_mode"] # kUnspecified
                      THEN s["content_mode"] ELSE hint
           /\ LET adapts == source # "none" /\ \E f \in OutputFields : s[f] > 0
              IN  /\ ok = (adapts => source = "live")
                  /\ output' = IF adapts /\ ok
                               THEN [f \in OutputFields |-> s[f]] ELSE output
           /\ state_' = IF ok THEN Adopt(s, SenderFields) ELSE state_
           /\ UNCHANGED <<sender, track, source>>
  <2>1. encoding' \in [EncodingFields -> Nat]
    BY <1>3
  <2>2. \A f \in OutputFields : s[f] \in Nat
    OBVIOUS
  <2>3. output' \in [OutputFields -> Nat]
    BY <1>3, <2>2
  <2>4. hint' \in Nat /\ sender' \in BOOLEAN /\ track' \in BOOLEAN
        /\ source' \in {"none", "live", "released"}
    BY <1>3
  <2>5. Adopt(s, SenderFields) \in [StateFields -> Nat]
    BY AdoptTyped
  <2>6. \A f \in StateFields :
           Adopt(s, SenderFields)[f] = IF f \in SenderFields THEN s[f] ELSE state_[f]
    BY DEF Adopt
  <2>7. state_' = IF ok THEN Adopt(s, SenderFields) ELSE state_
    BY <1>3
  <2> QED
    BY <1>0, <2>1, <2>3, <2>4, <2>5, <2>6, <2>7
<1> QED
  BY <1>1, <1>2, <1>3 DEF ApplySender

LEMMA ApplyEncoderEffect ==
    ASSUME BackendTypeOK, NEW s \in [StateFields -> Nat], NEW ok \in BOOLEAN,
           ApplyEncoder(s, ok)
    PROVE  /\ state_' \in [StateFields -> Nat]
           /\ adapter' \in BOOLEAN /\ cap' \in Nat \cup {NoCap}
           /\ ok => state_'["max_qp"] = s["max_qp"]
           /\ ~ok => state_' = state_
           /\ AgreeOn(state_', state_,
                      BitrateFields \cup LiveSenderFields \cup ReceiverFields)
<1> USE FieldSets DEF BackendTypeOK, AgreeOn, encoderVars
<1>0. /\ "max_qp" \notin BitrateFields \cup LiveSenderFields \cup ReceiverFields
      /\ BitrateFields \cup LiveSenderFields \cup ReceiverFields \subseteq StateFields
  BY DEF LiveSenderFields, SenderFields, OutputFields, BitrateFields,
         ReceiverFields, StateFields
<1>1. CASE s["max_qp"] = state_["max_qp"]
  BY <1>1 DEF ApplyEncoder
<1>2. CASE s["max_qp"] # state_["max_qp"] /\ ~ok
  BY <1>2 DEF ApplyEncoder
<1>3. CASE s["max_qp"] # state_["max_qp"] /\ ok
  <2>1. /\ cap' = s["max_qp"] /\ adapter' = adapter
        /\ state_' = Adopt(s, {"max_qp"})
    BY <1>3 DEF ApplyEncoder
  <2>2. Adopt(s, {"max_qp"}) \in [StateFields -> Nat]
    BY AdoptTyped
  <2> QED
    BY <1>0, <1>3, <2>1, <2>2 DEF Adopt
<1> QED
  BY <1>1, <1>2, <1>3

LEMMA ApplyReceiverEffect ==
    ASSUME BackendTypeOK, NEW s \in [StateFields -> Nat], NEW ok \in BOOLEAN,
           ApplyReceiver(s, ok)
    PROVE  /\ state_' \in [StateFields -> Nat]
           /\ receiver' \in BOOLEAN /\ delay' \in Nat
           /\ ok => AgreeOn(state_', s, ReceiverFields)
           /\ ~ok => state_' = state_
           /\ AgreeOn(state_', state_,
                      BitrateFields \cup LiveSenderFields \cup {"max_qp"})
<1> USE FieldSets DEF BackendTypeOK, AgreeOn, ReceiverFields
<1>0. /\ ReceiverFields \cap (BitrateFields \cup LiveSenderFields \cup {"max_qp"}) = {}
      /\ BitrateFields \cup LiveSenderFields \cup {"max_qp"} \subseteq StateFields
  BY DEF LiveSenderFields, SenderFields, OutputFields, BitrateFields, StateFields
<1>1. \A fields : Adopt(s, fields) \in [StateFields -> Nat]
  BY AdoptTyped
<1>2. CASE ~receiver
  <2>1. /\ ok = (s["jitter_minimum_ms"] = state_["jitter_minimum_ms"])
        /\ state_' = IF ok THEN Adopt(s, {"stale_decoded_frame_ms"}) ELSE state_
        /\ UNCHANGED receiverVars
    BY <1>2 DEF ApplyReceiver
  <2> QED
    BY <1>0, <1>1, <2>1 DEF Adopt, receiverVars
<1>3. CASE receiver
  <2>1. /\ ok /\ delay' = s["jitter_minimum_ms"] /\ receiver' = receiver
        /\ state_' = Adopt(s, ReceiverFields)
    BY <1>3 DEF ApplyReceiver
  <2> QED
    BY <1>0, <1>1, <2>1 DEF Adopt
<1> QED
  BY <1>2, <1>3

-----------------------------------------------------------------------------
(* Attaching an object touches no live setting of state_.                   *)

LEMMA AttachEffect ==
    ASSUME BackendTypeOK, Attach
    PROVE  BackendTypeOK' /\ AgreeOn(state_', state_, LiveFields)
<1> USE FieldSets DEF AgreeOn
<1>1. CASE \E same, ok \in BOOLEAN : AttachPeerConnection(same, ok)
  <2> PICK same \in BOOLEAN, ok \in BOOLEAN : AttachPeerConnection(same, ok)
    BY <1>1
  <2>1. CASE "bitrate" \in hasInitial /\ ok
    <3>1. /\ bwe' = [f \in BitrateFields |-> state_[f]]
          /\ state_' = [state_ EXCEPT !["start_bitrate_bps"] = 0]
          /\ seeds' = seeds \/ seeds' = 0 \/ seeds' = 1 \/ (seeds < 2 /\ seeds' = seeds + 1)
      BY <2>1 DEF AttachPeerConnection
    <3>2. /\ state_' \in [StateFields -> Nat]
          /\ \A f \in StateFields \ {"start_bitrate_bps"} : state_'[f] = state_[f]
      BY <3>1 DEF BackendTypeOK
    <3>3. bwe' \in [BitrateFields -> Nat]
      BY <3>1 DEF BackendTypeOK
    <3>4. seeds' \in 0..2
      BY <3>1 DEF BackendTypeOK
    <3>5. /\ peer' = TRUE
          /\ last_initial_apply_error_' \in BOOLEAN
          /\ UNCHANGED <<hasInitial, senderVars, receiverVars, encoderVars>>
      BY <2>1 DEF AttachPeerConnection, RecordInitialApplyResult, BackendTypeOK
    <3>6. "start_bitrate_bps" \notin LiveFields
      BY DEF LiveFields
    <3> QED
      BY <3>2, <3>3, <3>4, <3>5, <3>6
      DEF BackendTypeOK, senderVars, receiverVars, encoderVars
  <2>2. CASE ~("bitrate" \in hasInitial /\ ok)
    <3>1. /\ bwe' = bwe \/ bwe' = Zero(BitrateFields)
          /\ seeds' = seeds \/ seeds' = 0
          /\ state_' = state_ /\ peer' = TRUE
          /\ last_initial_apply_error_' \in BOOLEAN
          /\ UNCHANGED <<hasInitial, senderVars, receiverVars, encoderVars>>
      BY <2>2 DEF AttachPeerConnection, RecordInitialApplyResult, BackendTypeOK
    <3> QED
      BY <3>1 DEF BackendTypeOK, Zero, senderVars, receiverVars, encoderVars
  <2> QED
    BY <2>1, <2>2
<1>2. CASE \E same, withTrack, withSource, ok \in BOOLEAN :
              AttachSender(same, withTrack, withSource, ok)
  <2> PICK same \in BOOLEAN, withTrack \in BOOLEAN, withSource \in BOOLEAN,
           ok \in BOOLEAN : AttachSender(same, withTrack, withSource, ok)
    BY <1>2
  <2> DEFINE applied == "sender" \in hasInitial /\ ok
             oldEncoding == IF same THEN encoding ELSE Zero(EncodingFields)
             oldHint == IF same /\ withTrack THEN hint ELSE kUnspecified
             oldOutput == IF same /\ withSource THEN output ELSE Zero(OutputFields)
  <2>1. /\ oldEncoding \in [EncodingFields -> Nat]
        /\ oldHint \in Nat
        /\ oldOutput \in [OutputFields -> Nat]
    BY DEF BackendTypeOK, Zero, kUnspecified
  <2>2. encoding' = [f \in EncodingFields |->
                       IF applied /\ state_[f] > 0 THEN state_[f] ELSE oldEncoding[f]]
    BY DEF AttachSender
  <2>3. encoding' \in [EncodingFields -> Nat]
    <3> HIDE DEF applied, oldEncoding
    <3> QED
      BY <2>1, <2>2 DEF BackendTypeOK
  <2>4. hint' = oldHint \/ hint' = state_["content_mode"]
    BY DEF AttachSender
  <2>5. output' = oldOutput \/ output' = [f \in OutputFields |-> state_[f]]
    BY DEF AttachSender
  <2>6. hint' \in Nat /\ output' \in [OutputFields -> Nat]
    <3> HIDE DEF oldHint, oldOutput
    <3>1. \A f \in OutputFields : state_[f] \in Nat
      BY DEF BackendTypeOK
    <3> QED
      BY <2>1, <2>4, <2>5, <3>1 DEF BackendTypeOK
  <2>7. /\ sender' = TRUE /\ track' \in BOOLEAN
        /\ source' \in {"none", "live", "released"}
        /\ last_initial_apply_error_' \in BOOLEAN
        /\ UNCHANGED <<state_, hasInitial, peerVars, receiverVars, encoderVars>>
    BY DEF AttachSender, RecordInitialApplyResult, BackendTypeOK
  <2> QED
    BY <2>3, <2>6, <2>7 DEF BackendTypeOK, peerVars, receiverVars, encoderVars
<1>3. CASE \E same \in BOOLEAN : AttachReceiver(same)
  BY <1>3 DEF AttachReceiver, BackendTypeOK, peerVars, senderVars, encoderVars
<1> QED
  BY <1>1, <1>2, <1>3 DEF Attach

LEMMA ReleaseSourceEffect ==
    ASSUME BackendTypeOK, ReleaseSource
    PROVE  BackendTypeOK' /\ state_' = state_
  BY DEF ReleaseSource, BackendTypeOK, peerVars, receiverVars, encoderVars

-----------------------------------------------------------------------------
(* The invariant holds initially.                                           *)

LEMMA InitIInv == Init => IInv
<1> SUFFICES ASSUME Init PROVE IInv
  OBVIOUS
<1> USE FieldSets
<1> PICK c \in InitialConfigurations :
        /\ BackendInit(c)
        /\ config_ = c
        /\ revision = 0 /\ recreate_required = FALSE
        /\ step = "idle" /\ txn = NoTxn
  BY DEF Init
<1>1. \A f \in StateFields : ValueOr(c, f, 0) \in Nat
  BY ConfigsTyped
<1>2. state_ = [f \in StateFields |-> ValueOr(c, f, 0)]
  BY DEF BackendInit, BackendState
<1>3. state_ \in [StateFields -> Nat]
  BY <1>1, <1>2
<1>4. cap \in Nat \cup {NoCap}
  <2>1. ValueOr(c, "max_qp", 0) \in Nat
    BY <1>1
  <2> QED
    BY <2>1 DEF BackendInit, ValueOr, NoCap
<1>5. BackendTypeOK
  <2>1. hasInitial \subseteq {"bitrate", "sender", "receiver"}
    BY DEF BackendInit, InitialConfigs
  <2>2. /\ bwe \in [BitrateFields -> Nat] /\ encoding \in [EncodingFields -> Nat]
        /\ output \in [OutputFields -> Nat]
    BY DEF BackendInit, Zero
  <2>3. /\ last_initial_apply_error_ = FALSE
        /\ peer = FALSE /\ sender = FALSE /\ track = FALSE /\ receiver = FALSE
        /\ adapter \in BOOLEAN
        /\ source \in {"none", "live", "released"}
        /\ seeds = 0 /\ hint = kUnspecified /\ delay = 0
    BY Zenon DEF BackendInit
  <2>4. seeds \in 0..2 /\ hint \in Nat /\ delay \in Nat
    BY <2>3 DEF kUnspecified
  <2> QED
    BY <1>3, <1>4, <2>1, <2>2, <2>3, <2>4 DEF BackendTypeOK
<1>6. TypeOK
  BY <1>1, <1>5 DEF TypeOK, Steps, NoTxn
<1>7. ConfigMatchesBackend
  BY <1>2 DEF ConfigMatchesBackend
<1> QED
  BY <1>6, <1>7 DEF IInv, Locals, OldMatchesConfig, Progress

-----------------------------------------------------------------------------
(* Every step preserves it.                                                 *)

LEMMA FieldPartition ==
    /\ LiveFields = BitrateFields \cup LiveSenderFields \cup {"max_qp"}
                      \cup ReceiverFields
    /\ BitrateFields \cap LiveSenderFields = {}
    /\ (BitrateFields \cup LiveSenderFields) \cap ({"max_qp"} \cup ReceiverFields) = {}
    /\ "max_qp" \notin ReceiverFields
  BY DEF LiveFields, BitrateFields, LiveSenderFields, OutputFields, ReceiverFields

\* The state captured and the state asked for are states.
LEMMA LocalsTyped ==
    ASSUME IInv, step # "idle"
    PROVE  /\ txn.old \in [StateFields -> Nat] /\ txn.new \in [StateFields -> Nat]
           /\ txn.patch \in LivePatches /\ txn.failed \in BOOLEAN
           /\ txn.new = MergeState(txn.old, txn.patch)
           /\ txn.candidate = MergeConfig(config_, txn.patch)
           /\ Accepts(config_, txn.patch)
  BY DEF IInv, TypeOK, Locals

\* A configuration stays typed when the patch of a transaction is committed.
LEMMA CandidateTyped ==
    ASSUME NEW c, \A f \in StateFields : ValueOr(c, f, 0) \in Nat,
           NEW patch \in LivePatches, Accepts(c, patch)
    PROVE  \A f \in StateFields : ValueOr(MergeConfig(c, patch), f, 0) \in Nat
  BY MergedValue, AcceptedTyped

\* A setter on the way forward keeps the locals.
LEMMA StepKeepsLocals ==
    ASSUME IInv, step # "idle", NEW next \in Steps \ {"idle"}, Goto(next),
           config_' = config_, recreate_required' = recreate_required
    PROVE  Locals' /\ OldMatchesConfig'
  BY DEF IInv, Goto, Locals, OldMatchesConfig

LEMMA UndoKeepsLocals ==
    ASSUME IInv, step # "idle", NEW next \in Steps \ {"idle"},
           NEW ok \in BOOLEAN, UndoThen(next, ok),
           config_' = config_, recreate_required' = recreate_required
    PROVE  /\ Locals' /\ OldMatchesConfig'
           /\ txn'.active = TRUE /\ txn'.patch = txn.patch
           /\ txn'.old = txn.old /\ txn'.new = txn.new
           /\ txn'.failed = (txn.failed \/ ~ok)
<1>1. DOMAIN txn = {"active", "patch", "candidate", "old", "new", "failed",
                     "before"}
  BY DEF IInv, Locals
<1>2. txn' = [txn EXCEPT !.failed = txn.failed \/ ~ok]
  BY DEF UndoThen
<1>3. ASSUME NEW v, txn' = [txn EXCEPT !.failed = v]
      PROVE  /\ DOMAIN txn' = DOMAIN txn
             /\ txn'.active = txn.active /\ txn'.patch = txn.patch
             /\ txn'.candidate = txn.candidate
             /\ txn'.old = txn.old /\ txn'.new = txn.new
             /\ txn'.failed = v /\ txn'.before = txn.before
  BY <1>1, <1>3
<1>4. /\ DOMAIN txn' = DOMAIN txn
      /\ txn'.active = txn.active /\ txn'.patch = txn.patch
      /\ txn'.candidate = txn.candidate
      /\ txn'.old = txn.old /\ txn'.new = txn.new
      /\ txn'.failed = (txn.failed \/ ~ok)
  BY <1>2, <1>3, Zenon
<1>5. txn.active = TRUE
  BY DEF IInv, TypeOK
<1>6. Locals'
  BY <1>1, <1>4, Zenon DEF IInv, Locals
<1>7. OldMatchesConfig'
  BY <1>4 DEF IInv, OldMatchesConfig
<1> QED
  BY <1>4, <1>5, <1>6, <1>7, Zenon

LEMMA RejectKeepsIInv ==
    ASSUME IInv, NEW p \in LivePatches, Reject(p)
    PROVE  IInv'
<1> USE DEF backendVars, peerVars, senderVars, receiverVars, encoderVars
<1>1. UNCHANGED <<backendVars, config_, revision, recreate_required, step, txn>>
  BY DEF Reject
<1> QED
  BY <1>1 DEF IInv, TypeOK, BackendTypeOK, Locals, OldMatchesConfig, Progress,
              ConfigMatchesBackend, AgreeOn

LEMMA BeginKeepsIInv ==
    ASSUME IInv, NEW p \in LivePatches, BeginLivePatch(p)
    PROVE  IInv'
<1>1. /\ UNCHANGED <<backendVars, config_, revision, recreate_required>>
      /\ step = "idle" /\ step' = "bitrate" /\ Accepts(config_, p)
  BY DEF BeginLivePatch
<1>2. /\ DOMAIN txn' = {"active", "patch", "candidate", "old", "new", "failed",
                        "before"}
      /\ txn'.active = TRUE /\ txn'.patch = p
      /\ txn'.candidate = MergeConfig(config_, p)
      /\ txn'.old = state_ /\ txn'.new = MergeState(state_, p)
      /\ txn'.failed = FALSE
  BY DEF BeginLivePatch
<1>3. BackendTypeOK' /\ state_' = state_
  BY <1>1 DEF IInv, TypeOK, BackendTypeOK, backendVars, peerVars, senderVars,
              receiverVars, encoderVars
<1>4. MergeState(state_, p) \in [StateFields -> Nat] /\ state_ \in [StateFields -> Nat]
  BY <1>1, MergedState DEF IInv, TypeOK, BackendTypeOK
<1>5. TypeOK'
  BY <1>1, <1>2, <1>3, <1>4 DEF IInv, TypeOK, Steps, Forward
<1>6. Locals'
  BY <1>1, <1>2 DEF Locals
<1>7. OldMatchesConfig' /\ ConfigMatchesBackend'
  BY <1>1, <1>2 DEF IInv, OldMatchesConfig, ConfigMatchesBackend
<1>8. Progress'
  BY <1>1, <1>2, <1>3 DEF Progress, AgreeOn
<1> QED
  BY <1>5, <1>6, <1>7, <1>8 DEF IInv

\* Whatever is done between two patches or by another thread: the invariant
\* only needs the live settings of state_ to stay as they are.
LEMMA EnvironmentKeepsIInv ==
    ASSUME IInv, BackendTypeOK', AgreeOn(state_', state_, LiveFields),
           UNCHANGED <<config_, revision, recreate_required, step, txn>>
    PROVE  IInv'
<1>1. TypeOK' /\ Locals' /\ OldMatchesConfig'
  BY DEF IInv, TypeOK, Locals, OldMatchesConfig
<1>2. ConfigMatchesBackend'
  BY DEF IInv, ConfigMatchesBackend, AgreeOn
<1>3. Progress'
  BY FieldPartition DEF IInv, Progress, AgreeOn
<1> QED
  BY <1>1, <1>2, <1>3 DEF IInv

LEMMA SetBitrateKeepsIInv ==
    ASSUME IInv, NEW ok \in BOOLEAN, SetBitrate(ok)
    PROVE  IInv'
<1>1. /\ step = "bitrate" /\ ApplyBitrate(txn.new, ok)
      /\ UNCHANGED <<config_, revision, recreate_required>>
      /\ UNCHANGED <<hasInitial, last_initial_apply_error_, senderVars,
                     receiverVars, encoderVars>>
  BY DEF SetBitrate, ControllerUnchanged
<1>2. BackendTypeOK
  BY DEF IInv, TypeOK
<1>3. /\ txn.new \in [StateFields -> Nat] /\ txn.patch \in LivePatches
      /\ txn.failed \in BOOLEAN /\ txn.old \in [StateFields -> Nat]
  BY <1>1, LocalsTyped
<1>4. /\ state_' \in [StateFields -> Nat]
      /\ peer' \in BOOLEAN /\ seeds' \in 0..2 /\ bwe' \in [BitrateFields -> Nat]
      /\ ok => AgreeOn(state_', txn.new, BitrateFields)
      /\ ~ok => state_' = state_
      /\ AgreeOn(state_', state_, LiveSenderFields \cup {"max_qp"} \cup ReceiverFields)
  BY <1>1, <1>2, <1>3, ApplyBitrateEffect
<1>5. BackendTypeOK'
  BY <1>1, <1>2, <1>4 DEF BackendTypeOK, senderVars, receiverVars, encoderVars
<1>6. AgreeOn(state_, txn.old, LiveFields)
  BY <1>1 DEF IInv, Progress
<1>7. CASE ok
  <2>1. Goto("sender")
    BY <1>7 DEF SetBitrate
  <2>2. Locals' /\ OldMatchesConfig'
    BY <1>1, <2>1, StepKeepsLocals DEF Steps, Forward
  <2>3. TypeOK'
    BY <1>1, <1>3, <1>5, <2>1 DEF IInv, TypeOK, Goto, Steps, Forward
  <2>4. Progress'
    BY <1>4, <1>6, <1>7, <2>1, FieldPartition DEF Progress, AgreeOn, Goto
  <2> QED
    BY <2>1, <2>2, <2>3, <2>4 DEF IInv, Goto, ConfigMatchesBackend
<1>8. CASE ~ok
  <2>1. Return
    BY <1>8 DEF SetBitrate
  <2>2. TypeOK'
    BY <1>1, <1>5, <2>1 DEF IInv, TypeOK, Return, NoTxn, Steps
  <2>3. ConfigMatchesBackend'
    BY <1>1, <1>4, <1>6, <1>8 DEF IInv, OldMatchesConfig, ConfigMatchesBackend, AgreeOn
  <2> QED
    BY <2>1, <2>2, <2>3 DEF IInv, Return, Locals, OldMatchesConfig, Progress
<1> QED
  BY <1>7, <1>8

LEMMA SetSenderKeepsIInv ==
    ASSUME IInv, NEW ok \in BOOLEAN, SetSender(ok)
    PROVE  IInv'
<1>1. /\ step = "sender" /\ ApplySender(txn.new, ok)
      /\ Goto(AfterSender(ok))
      /\ UNCHANGED <<config_, revision, recreate_required>>
      /\ UNCHANGED <<hasInitial, last_initial_apply_error_, peerVars,
                     receiverVars, encoderVars>>
  BY DEF SetSender, ControllerUnchanged
<1>2. BackendTypeOK
  BY DEF IInv, TypeOK
<1>3. /\ txn.new \in [StateFields -> Nat] /\ txn.patch \in LivePatches
      /\ txn.failed \in BOOLEAN /\ txn.old \in [StateFields -> Nat]
  BY <1>1, LocalsTyped
<1>4. /\ state_' \in [StateFields -> Nat]
      /\ sender' \in BOOLEAN /\ encoding' \in [EncodingFields -> Nat]
      /\ track' \in BOOLEAN /\ hint' \in Nat
      /\ source' \in {"none", "live", "released"}
      /\ output' \in [OutputFields -> Nat]
      /\ ok => AgreeOn(state_', txn.new, LiveSenderFields)
      /\ ~ok => state_' = state_
      /\ AgreeOn(state_', state_, BitrateFields \cup {"max_qp"} \cup ReceiverFields)
  BY <1>1, <1>2, <1>3, ApplySenderEffect
<1>5. BackendTypeOK'
  BY <1>1, <1>2, <1>4 DEF BackendTypeOK, peerVars, receiverVars, encoderVars
<1>6. AfterSender(ok) = IF ok THEN "encoder" ELSE "undo_bitrate"
  BY DEF AfterSender
<1>7. Locals' /\ OldMatchesConfig'
  BY <1>1, <1>6, StepKeepsLocals DEF Steps, Forward, Undo
<1>8. TypeOK'
  BY <1>1, <1>3, <1>5, <1>6 DEF IInv, TypeOK, Goto, Steps, Forward, Undo
<1>9. Progress'
  <2>1. /\ AgreeOn(state_, txn.new, BitrateFields)
        /\ AgreeOn(state_, txn.old,
                   LiveSenderFields \cup {"max_qp"} \cup ReceiverFields)
    BY <1>1 DEF IInv, Progress
  <2> QED
    BY <1>1, <1>4, <1>6, <2>1 DEF Progress, AgreeOn, Goto
<1> QED
  BY <1>1, <1>6, <1>7, <1>8, <1>9 DEF IInv, Goto, ConfigMatchesBackend

LEMMA SetEncoderKeepsIInv ==
    ASSUME IInv, NEW ok \in BOOLEAN, SetEncoder(ok)
    PROVE  IInv'
<1>1. /\ step = "encoder" /\ ApplyEncoder(txn.new, ok)
      /\ Goto(AfterEncoder(ok))
      /\ UNCHANGED <<config_, revision, recreate_required>>
      /\ UNCHANGED <<hasInitial, last_initial_apply_error_, peerVars,
                     senderVars, receiverVars>>
  BY DEF SetEncoder, ControllerUnchanged
<1>2. BackendTypeOK
  BY DEF IInv, TypeOK
<1>3. /\ txn.new \in [StateFields -> Nat] /\ txn.patch \in LivePatches
      /\ txn.failed \in BOOLEAN /\ txn.old \in [StateFields -> Nat]
  BY <1>1, LocalsTyped
<1>4. /\ state_' \in [StateFields -> Nat]
      /\ adapter' \in BOOLEAN /\ cap' \in Nat \cup {NoCap}
      /\ ok => state_'["max_qp"] = txn.new["max_qp"]
      /\ ~ok => state_' = state_
      /\ AgreeOn(state_', state_, BitrateFields \cup LiveSenderFields \cup ReceiverFields)
  BY <1>1, <1>2, <1>3, ApplyEncoderEffect
<1>5. BackendTypeOK'
  BY <1>1, <1>2, <1>4 DEF BackendTypeOK, peerVars, receiverVars, senderVars
<1>6. AfterEncoder(ok) = IF ok THEN "receiver" ELSE "undo_sender"
  BY DEF AfterEncoder
<1>7. Locals' /\ OldMatchesConfig'
  BY <1>1, <1>6, StepKeepsLocals DEF Steps, Forward, Undo
<1>8. TypeOK'
  BY <1>1, <1>3, <1>5, <1>6 DEF IInv, TypeOK, Goto, Steps, Forward, Undo
<1>9. Progress'
  <2>1. /\ AgreeOn(state_, txn.new, BitrateFields \cup LiveSenderFields)
        /\ AgreeOn(state_, txn.old, {"max_qp"} \cup ReceiverFields)
    BY <1>1 DEF IInv, Progress
  <2> QED
    BY <1>1, <1>4, <1>6, <2>1 DEF Progress, AgreeOn, Goto
<1> QED
  BY <1>1, <1>6, <1>7, <1>8, <1>9 DEF IInv, Goto, ConfigMatchesBackend

\* With the receiver's success the new state is complete, and it is what the
\* committed configuration says.
LEMMA SetReceiverKeepsIInv ==
    ASSUME IInv, NEW ok \in BOOLEAN, SetReceiver(ok)
    PROVE  IInv'
<1>1. /\ step = "receiver" /\ ApplyReceiver(txn.new, ok)
      /\ UNCHANGED <<recreate_required, hasInitial, last_initial_apply_error_,
                     peerVars, senderVars, encoderVars>>
  BY DEF SetReceiver
<1>2. BackendTypeOK
  BY DEF IInv, TypeOK
<1>3. /\ txn.new \in [StateFields -> Nat] /\ txn.old \in [StateFields -> Nat]
      /\ txn.patch \in LivePatches /\ txn.failed \in BOOLEAN
      /\ txn.new = MergeState(txn.old, txn.patch)
      /\ txn.candidate = MergeConfig(config_, txn.patch)
      /\ Accepts(config_, txn.patch)
  BY <1>1, LocalsTyped
<1>4. /\ state_' \in [StateFields -> Nat]
      /\ receiver' \in BOOLEAN /\ delay' \in Nat
      /\ ok => AgreeOn(state_', txn.new, ReceiverFields)
      /\ ~ok => state_' = state_
      /\ AgreeOn(state_', state_,
                 BitrateFields \cup LiveSenderFields \cup {"max_qp"})
  BY <1>1, <1>2, <1>3, ApplyReceiverEffect
<1>5. BackendTypeOK'
  BY <1>1, <1>2, <1>4 DEF BackendTypeOK, peerVars, senderVars, encoderVars
<1>6. /\ AgreeOn(state_, txn.new,
                 BitrateFields \cup LiveSenderFields \cup {"max_qp"})
      /\ AgreeOn(state_, txn.old, ReceiverFields)
  BY <1>1 DEF IInv, Progress
<1>7. CASE ok
  <2>1. config_' = txn.candidate /\ revision' = revision + 1 /\ Return
    BY <1>7 DEF SetReceiver
  <2>2. \A f \in LiveFields : state_'[f] = txn.new[f]
    BY <1>4, <1>6, <1>7, FieldPartition DEF AgreeOn
  <2>3. \A f \in LiveFields :
           txn.new[f] = IF f \in DOMAIN txn.patch \cap LiveFields
                        THEN txn.patch[f] ELSE txn.old[f]
    BY <1>3, FieldSets DEF MergeState
  <2>4. \A f \in LiveFields :
           ValueOr(config_', f, 0) = IF f \in DOMAIN txn.patch \cap LiveFields
                                     THEN txn.patch[f] ELSE ValueOr(config_, f, 0)
    BY <1>3, <2>1, MergedValue
  <2>5. ConfigMatchesBackend'
    BY <1>1, <2>2, <2>3, <2>4 DEF IInv, OldMatchesConfig, ConfigMatchesBackend
  <2>6. \A f \in StateFields : ValueOr(config_', f, 0) \in Nat
    BY <1>3, <2>1, CandidateTyped DEF IInv, TypeOK
  <2>7. TypeOK'
    <3>1. revision' \in Nat /\ recreate_required' \in BOOLEAN
      BY <1>1, <2>1 DEF IInv, TypeOK
    <3>2. step' = "idle" /\ txn'.active = FALSE
      BY <2>1 DEF Return, NoTxn
    <3> QED
      BY <1>5, <2>6, <3>1, <3>2 DEF TypeOK, Steps
  <2> QED
    BY <2>1, <2>5, <2>7 DEF IInv, Return, Locals, OldMatchesConfig, Progress
<1>8. CASE ~ok
  <2>1. Goto("undo_encoder") /\ UNCHANGED <<config_, revision>>
    BY <1>8 DEF SetReceiver
  <2>2. Locals' /\ OldMatchesConfig'
    BY <1>1, <2>1, StepKeepsLocals DEF Steps, Undo
  <2>3. TypeOK'
    BY <1>1, <1>3, <1>5, <2>1 DEF IInv, TypeOK, Goto, Steps, Undo
  <2>4. Progress'
    BY <1>4, <1>6, <1>8, <2>1 DEF Progress, AgreeOn, Goto
  <2> QED
    BY <2>1, <2>2, <2>3, <2>4 DEF IInv, Goto, ConfigMatchesBackend
<1> QED
  BY <1>7, <1>8

LEMMA UndoEncoderKeepsIInv ==
    ASSUME IInv, NEW ok \in BOOLEAN, UndoEncoder(ok)
    PROVE  IInv'
<1>1. /\ step = "undo_encoder" /\ ApplyEncoder(txn.old, ok)
      /\ UndoThen("undo_sender", ok) /\ step' = "undo_sender"
      /\ UNCHANGED <<config_, revision, recreate_required>>
      /\ UNCHANGED <<hasInitial, last_initial_apply_error_, peerVars,
                     senderVars, receiverVars>>
  BY DEF UndoEncoder, ControllerUnchanged, UndoThen
<1>2. BackendTypeOK
  BY DEF IInv, TypeOK
<1>3. /\ txn.new \in [StateFields -> Nat] /\ txn.old \in [StateFields -> Nat]
      /\ txn.patch \in LivePatches /\ txn.failed \in BOOLEAN
  BY <1>1, LocalsTyped
<1>4. /\ state_' \in [StateFields -> Nat]
      /\ adapter' \in BOOLEAN /\ cap' \in Nat \cup {NoCap}
      /\ ok => state_'["max_qp"] = txn.old["max_qp"]
      /\ AgreeOn(state_', state_,
                 BitrateFields \cup LiveSenderFields \cup ReceiverFields)
  BY <1>1, <1>2, <1>3, ApplyEncoderEffect
<1>5. BackendTypeOK'
  BY <1>1, <1>2, <1>4 DEF BackendTypeOK, peerVars, receiverVars, senderVars
<1>6. /\ Locals' /\ OldMatchesConfig'
      /\ txn'.active = TRUE /\ txn'.patch = txn.patch
      /\ txn'.old = txn.old /\ txn'.new = txn.new
      /\ txn'.failed = (txn.failed \/ ~ok)
  BY <1>1, UndoKeepsLocals DEF Steps, Undo
<1>7. TypeOK'
  BY <1>1, <1>3, <1>5, <1>6 DEF IInv, TypeOK, Steps, Undo
<1>8. Progress'
  <2>1. AgreeOn(state_, txn.old, ReceiverFields)
    BY <1>1 DEF IInv, Progress
  <2> QED
    BY <1>1, <1>4, <1>6, <2>1 DEF Progress, AgreeOn
<1> QED
  BY <1>1, <1>6, <1>7, <1>8 DEF IInv, ConfigMatchesBackend

LEMMA UndoSenderKeepsIInv ==
    ASSUME IInv, NEW ok \in BOOLEAN, UndoSender(ok)
    PROVE  IInv'
<1>1. /\ step = "undo_sender" /\ ApplySender(txn.old, ok)
      /\ UndoThen("undo_bitrate", ok) /\ step' = "undo_bitrate"
      /\ UNCHANGED <<config_, revision, recreate_required>>
      /\ UNCHANGED <<hasInitial, last_initial_apply_error_, peerVars,
                     receiverVars, encoderVars>>
  BY DEF UndoSender, ControllerUnchanged, UndoThen
<1>2. BackendTypeOK
  BY DEF IInv, TypeOK
<1>3. /\ txn.new \in [StateFields -> Nat] /\ txn.old \in [StateFields -> Nat]
      /\ txn.patch \in LivePatches /\ txn.failed \in BOOLEAN
  BY <1>1, LocalsTyped
<1>4. /\ state_' \in [StateFields -> Nat]
      /\ sender' \in BOOLEAN /\ encoding' \in [EncodingFields -> Nat]
      /\ track' \in BOOLEAN /\ hint' \in Nat
      /\ source' \in {"none", "live", "released"}
      /\ output' \in [OutputFields -> Nat]
      /\ ok => AgreeOn(state_', txn.old, LiveSenderFields)
      /\ AgreeOn(state_', state_,
                 BitrateFields \cup {"max_qp"} \cup ReceiverFields)
  BY <1>1, <1>2, <1>3, ApplySenderEffect
<1>5. BackendTypeOK'
  BY <1>1, <1>2, <1>4 DEF BackendTypeOK, peerVars, receiverVars, encoderVars
<1>6. /\ Locals' /\ OldMatchesConfig'
      /\ txn'.active = TRUE /\ txn'.patch = txn.patch
      /\ txn'.old = txn.old /\ txn'.new = txn.new
      /\ txn'.failed = (txn.failed \/ ~ok)
  BY <1>1, UndoKeepsLocals DEF Steps, Undo
<1>7. TypeOK'
  BY <1>1, <1>3, <1>5, <1>6 DEF IInv, TypeOK, Steps, Undo
<1>8. Progress'
  <2>1. ~txn.failed => AgreeOn(state_, txn.old, {"max_qp"} \cup ReceiverFields)
    BY <1>1 DEF IInv, Progress
  <2> QED
    BY <1>1, <1>4, <1>6, <2>1 DEF Progress, AgreeOn
<1> QED
  BY <1>1, <1>6, <1>7, <1>8 DEF IInv, ConfigMatchesBackend

\* The rollback ends here: either every undo succeeded, and the old state is
\* complete, or the session is marked.
LEMMA UndoBitrateKeepsIInv ==
    ASSUME IInv, NEW ok \in BOOLEAN, UndoBitrate(ok)
    PROVE  IInv'
<1>1. /\ step = "undo_bitrate" /\ ApplyBitrate(txn.old, ok) /\ Return
      /\ UNCHANGED <<config_, revision>>
      /\ UNCHANGED <<hasInitial, last_initial_apply_error_, senderVars,
                     receiverVars, encoderVars>>
  BY DEF UndoBitrate
<1>2. BackendTypeOK
  BY DEF IInv, TypeOK
<1>3. /\ txn.old \in [StateFields -> Nat] /\ txn.failed \in BOOLEAN
  BY <1>1, LocalsTyped
<1>4. /\ state_' \in [StateFields -> Nat]
      /\ peer' \in BOOLEAN /\ seeds' \in 0..2 /\ bwe' \in [BitrateFields -> Nat]
      /\ ok => AgreeOn(state_', txn.old, BitrateFields)
      /\ AgreeOn(state_', state_,
                 LiveSenderFields \cup {"max_qp"} \cup ReceiverFields)
  BY <1>1, <1>2, <1>3, ApplyBitrateEffect
<1>5. BackendTypeOK'
  BY <1>1, <1>2, <1>4 DEF BackendTypeOK, senderVars, receiverVars, encoderVars
<1>6. ~txn.failed => AgreeOn(state_, txn.old,
                             LiveSenderFields \cup {"max_qp"} \cup ReceiverFields)
  BY <1>1 DEF IInv, Progress
<1>7. recreate_required' = (recreate_required \/ txn.failed \/ ~ok)
  BY <1>3 DEF UndoBitrate, IInv, TypeOK
<1>8. TypeOK'
  BY <1>1, <1>3, <1>5, <1>7 DEF IInv, TypeOK, Return, NoTxn, Steps
<1>9. ConfigMatchesBackend'
  <2>1. ~recreate_required' => /\ ~txn.failed /\ ok /\ ~recreate_required
    BY <1>7
  <2>2. ~recreate_required' => \A f \in LiveFields : state_'[f] = txn.old[f]
    BY <1>4, <1>6, <2>1, FieldPartition DEF AgreeOn
  <2> QED
    BY <1>1, <2>1, <2>2 DEF IInv, OldMatchesConfig, ConfigMatchesBackend
<1> QED
  BY <1>1, <1>8, <1>9 DEF IInv, Return, Locals, OldMatchesConfig, Progress

LEMMA NextIInv == IInv /\ [Next]_vars => IInv'
<1> SUFFICES ASSUME IInv, [Next]_vars PROVE IInv'
  OBVIOUS
<1>1. CASE \E p \in LivePatches : Reject(p) \/ BeginLivePatch(p)
  BY <1>1, RejectKeepsIInv, BeginKeepsIInv
<1>2. CASE \E ok \in BOOLEAN : SetBitrate(ok) \/ SetSender(ok) \/ SetEncoder(ok)
                               \/ SetReceiver(ok)
  BY <1>2, SetBitrateKeepsIInv, SetSenderKeepsIInv, SetEncoderKeepsIInv,
     SetReceiverKeepsIInv
<1>3. CASE \E ok \in BOOLEAN : UndoEncoder(ok) \/ UndoSender(ok) \/ UndoBitrate(ok)
  BY <1>3, UndoEncoderKeepsIInv, UndoSenderKeepsIInv, UndoBitrateKeepsIInv
<1>4. CASE Attach
  <2>1. BackendTypeOK' /\ AgreeOn(state_', state_, LiveFields)
    <3>1. BackendTypeOK
      BY DEF IInv, TypeOK
    <3> QED
      BY <1>4, <3>1, AttachEffect
  <2>2. UNCHANGED <<config_, revision, recreate_required, step, txn>>
    BY <1>4 DEF Attach
  <2> QED
    BY <2>1, <2>2, EnvironmentKeepsIInv
<1>5. CASE DropSource
  <2>1. BackendTypeOK' /\ state_' = state_
    BY <1>5, ReleaseSourceEffect DEF DropSource, IInv, TypeOK
  <2>2. UNCHANGED <<config_, revision, recreate_required, step, txn>>
    BY <1>5 DEF DropSource
  <2> QED
    BY <2>1, <2>2, EnvironmentKeepsIInv DEF AgreeOn
<1>6. CASE UNCHANGED vars
  <2>1. BackendTypeOK' /\ state_' = state_
        /\ UNCHANGED <<config_, revision, recreate_required, step, txn>>
    BY <1>6 DEF IInv, TypeOK, BackendTypeOK, vars, backendVars, peerVars,
                senderVars, receiverVars, encoderVars
  <2> QED
    BY <2>1, EnvironmentKeepsIInv DEF AgreeOn
<1> QED
  BY <1>1, <1>2, <1>3, <1>4, <1>5, <1>6 DEF Next

-----------------------------------------------------------------------------
\* The variables keep their types, and the locals of ApplyLivePatch exist
\* exactly while it runs.
THEOREM TypeCorrect == Spec => []TypeOK
<1>1. IInv => TypeOK
  BY DEF IInv
<1> QED
  BY InitIInv, NextIInv, <1>1, PTL DEF Spec

\* Whatever patches are applied, whichever setters fail and whatever is
\* attached in between: between two patches the backend's state is what the
\* effective configuration says, unless an unsuccessful rollback was reported
\* (cast_tuning_controller.cc, ApplyLivePatch).
THEOREM BackendFollowsConfig == Spec => []ConfigMatchesBackend
<1>1. IInv => ConfigMatchesBackend
  BY DEF IInv
<1> QED
  BY InitIInv, NextIInv, <1>1, PTL DEF Spec

-----------------------------------------------------------------------------
(* The controller implements AtomicLivePatch.                               *)

AtomicLive == [f \in LiveFields |-> Reported[f]]

LEMMA AtomicInitially == Init => Atomic!AtomicInit
<1> SUFFICES ASSUME Init PROVE Atomic!AtomicInit
  OBVIOUS
<1> PICK c \in InitialConfigurations :
        /\ BackendInit(c)
        /\ config_ = c
        /\ revision = 0 /\ recreate_required = FALSE
        /\ step = "idle"
  BY DEF Init
<1>1. state_ = [f \in StateFields |-> ValueOr(c, f, 0)]
  BY DEF BackendInit, BackendState
<1>2. AtomicLive = [f \in LiveFields |-> LiveValue(config_, f)]
  BY <1>1, FieldSets DEF AtomicLive, Reported, LiveValue
<1> QED
  BY <1>2 DEF Atomic!AtomicInit, AtomicLive

\* What the abstract specification does not see of a step.
LEMMA Unseen ==
    ASSUME UNCHANGED <<config_, revision, recreate_required>>,
           \A f \in LiveFields : Reported'[f] = Reported[f]
    PROVE  UNCHANGED Atomic!atomicVars
  BY DEF Atomic!atomicVars

\* While a patch is under way the captured state is reported.
LEMMA AmidPatchUnseen ==
    ASSUME step # "idle", step' # "idle", txn'.old = txn.old,
           UNCHANGED <<config_, revision, recreate_required>>
    PROVE  UNCHANGED Atomic!atomicVars
  BY Unseen DEF Reported

LEMMA GotoUnseen ==
    ASSUME step # "idle", NEW next \in Steps \ {"idle"}, Goto(next),
           UNCHANGED <<config_, revision, recreate_required>>
    PROVE  UNCHANGED Atomic!atomicVars
  BY AmidPatchUnseen DEF Goto

\* A begun patch, and whatever the environment does, is not seen.
LEMMA EnvironmentUnseen ==
    ASSUME IInv, AgreeOn(state_', state_, LiveFields),
           UNCHANGED <<config_, revision, recreate_required, step, txn>>
    PROVE  UNCHANGED Atomic!atomicVars
  BY Unseen DEF Reported, AgreeOn

LEMMA BeginUnseen ==
    ASSUME IInv, NEW p \in LivePatches, BeginLivePatch(p)
    PROVE  UNCHANGED Atomic!atomicVars
<1>1. /\ UNCHANGED <<state_, config_, revision, recreate_required>>
      /\ step = "idle" /\ step' = "bitrate" /\ txn'.old = state_
  BY DEF BeginLivePatch, backendVars
<1> QED
  BY <1>1, Unseen DEF Reported

\* A refused bitrate ends the patch with nothing changed.
LEMMA SetBitrateUnseen ==
    ASSUME IInv, NEW ok \in BOOLEAN, SetBitrate(ok)
    PROVE  UNCHANGED Atomic!atomicVars
<1>1. /\ step = "bitrate" /\ ApplyBitrate(txn.new, ok)
      /\ UNCHANGED <<config_, revision, recreate_required>>
      /\ IF ok THEN Goto("sender") ELSE Return
  BY DEF SetBitrate, ControllerUnchanged
<1>2. CASE ok
  BY <1>1, <1>2, GotoUnseen DEF Steps, Forward
<1>3. CASE ~ok
  <2>1. BackendTypeOK /\ txn.new \in [StateFields -> Nat]
    BY <1>1, LocalsTyped DEF IInv, TypeOK
  <2>2. state_' = state_
    BY <1>1, <1>3, <2>1, ApplyBitrateEffect
  <2>3. AgreeOn(state_, txn.old, LiveFields)
    BY <1>1 DEF IInv, Progress
  <2>4. step' = "idle"
    BY <1>1, <1>3 DEF Return
  <2> QED
    BY <1>1, <2>2, <2>3, <2>4, Unseen DEF Reported, AgreeOn
<1> QED
  BY <1>2, <1>3

\* The receiver's success is the step at which the patch takes effect.
LEMMA SetReceiverApplies ==
    ASSUME IInv, NEW ok \in BOOLEAN, SetReceiver(ok)
    PROVE  [Atomic!AtomicNext]_Atomic!atomicVars
<1>1. /\ step = "receiver" /\ ApplyReceiver(txn.new, ok)
      /\ UNCHANGED recreate_required
  BY DEF SetReceiver
<1>2. CASE ok
  <2>1. /\ config_' = txn.candidate /\ revision' = revision + 1
        /\ step' = "idle"
    BY <1>2 DEF SetReceiver, Return
  <2>2. /\ txn.new \in [StateFields -> Nat] /\ txn.patch \in LivePatches
        /\ txn.new = MergeState(txn.old, txn.patch)
        /\ txn.candidate = MergeConfig(config_, txn.patch)
        /\ Accepts(config_, txn.patch)
        /\ BackendTypeOK
    BY <1>1, LocalsTyped DEF IInv, TypeOK
  <2>3. /\ AgreeOn(state_', txn.new, ReceiverFields)
        /\ AgreeOn(state_', state_,
                   BitrateFields \cup LiveSenderFields \cup {"max_qp"})
    BY <1>1, <1>2, <2>2, ApplyReceiverEffect
  <2>4. AgreeOn(state_, txn.new,
                BitrateFields \cup LiveSenderFields \cup {"max_qp"})
    BY <1>1 DEF IInv, Progress
  <2>5. \A f \in LiveFields : state_'[f] = txn.new[f]
    BY <2>3, <2>4, FieldPartition DEF AgreeOn
  <2>6. \A f \in LiveFields :
           txn.new[f] = IF f \in DOMAIN txn.patch THEN txn.patch[f] ELSE txn.old[f]
    BY <2>2, FieldSets DEF MergeState
  <2>7. [f \in LiveFields |-> Reported[f]]' =
          [f \in LiveFields |-> IF f \in DOMAIN txn.patch THEN txn.patch[f]
                                ELSE [g \in LiveFields |-> Reported[g]][f]]
    BY <1>1, <2>1, <2>5, <2>6 DEF Reported
  <2>8. PICK p \in LivePatches : p = txn.patch
    BY <2>2
  <2>9. Atomic!ApplyPatch(p)
    BY <1>1, <2>1, <2>2, <2>7, <2>8 DEF Atomic!ApplyPatch
  <2>10. \E patch \in LivePatches : Atomic!ApplyPatch(patch)
    BY <2>9
  <2> QED
    BY <2>10 DEF Atomic!AtomicNext
<1>3. CASE ~ok
  <2>1. Goto("undo_encoder") /\ UNCHANGED <<config_, revision>>
    BY <1>3 DEF SetReceiver
  <2> QED
    BY <1>1, <2>1, GotoUnseen DEF Steps, Undo
<1> QED
  BY <1>2, <1>3

\* A complete rollback is not seen, an incomplete one degrades the session.
LEMMA UndoBitrateUnseenOrDegrades ==
    ASSUME IInv, NEW ok \in BOOLEAN, UndoBitrate(ok)
    PROVE  [Atomic!AtomicNext]_Atomic!atomicVars
<1>1. /\ step = "undo_bitrate" /\ ApplyBitrate(txn.old, ok) /\ step' = "idle"
      /\ UNCHANGED <<config_, revision>>
  BY DEF UndoBitrate, Return
<1>2. /\ BackendTypeOK
      /\ txn.old \in [StateFields -> Nat] /\ txn.failed \in BOOLEAN
  BY <1>1, LocalsTyped DEF IInv, TypeOK
<1>3. /\ state_' \in [StateFields -> Nat]
      /\ ok => AgreeOn(state_', txn.old, BitrateFields)
      /\ AgreeOn(state_', state_,
                 LiveSenderFields \cup {"max_qp"} \cup ReceiverFields)
  BY <1>1, <1>2, ApplyBitrateEffect
<1>4. CASE txn.failed \/ ~ok
  <2>1. recreate_required' = TRUE
    BY <1>4 DEF UndoBitrate
  <2>2. [f \in LiveFields |-> Reported[f]]' \in [LiveFields -> Nat]
    BY <1>1, <1>3, FieldSets DEF Reported
  <2> QED
    BY <1>1, <2>1, <2>2 DEF Atomic!AtomicNext, Atomic!Degrade
<1>5. CASE ~txn.failed /\ ok
  <2>1. UNCHANGED recreate_required
    BY <1>5 DEF UndoBitrate
  <2>2. AgreeOn(state_, txn.old,
                LiveSenderFields \cup {"max_qp"} \cup ReceiverFields)
    BY <1>1, <1>5 DEF IInv, Progress
  <2>3. \A f \in LiveFields : state_'[f] = txn.old[f]
    BY <1>3, <1>5, <2>2, FieldPartition DEF AgreeOn
  <2> QED
    BY <1>1, <2>1, <2>3, Unseen DEF Reported
<1> QED
  BY <1>4, <1>5

LEMMA NextRefines == IInv /\ [Next]_vars => [Atomic!AtomicNext]_Atomic!atomicVars
<1> SUFFICES ASSUME IInv, [Next]_vars
             PROVE  [Atomic!AtomicNext]_Atomic!atomicVars
  OBVIOUS
<1>1. CASE \E p \in LivePatches : Reject(p) \/ BeginLivePatch(p)
  <2> PICK p \in LivePatches : Reject(p) \/ BeginLivePatch(p)
    BY <1>1
  <2>1. CASE Reject(p)
    BY <2>1, EnvironmentUnseen DEF Reject, backendVars, AgreeOn
  <2>2. CASE BeginLivePatch(p)
    BY <2>2, BeginUnseen
  <2> QED
    BY <2>1, <2>2
<1>2. CASE \E ok \in BOOLEAN : SetBitrate(ok)
  BY <1>2, SetBitrateUnseen
<1>3. CASE \E ok \in BOOLEAN : SetSender(ok) \/ SetEncoder(ok)
  <2> PICK ok \in BOOLEAN : SetSender(ok) \/ SetEncoder(ok)
    BY <1>3
  <2>1. /\ step \in {"sender", "encoder"}
        /\ UNCHANGED <<config_, revision, recreate_required>>
        /\ \E next \in Steps \ {"idle"} : Goto(next)
    BY DEF SetSender, SetEncoder, AfterSender, AfterEncoder, ControllerUnchanged,
           Steps, Forward, Undo
  <2> QED
    BY <2>1, GotoUnseen
<1>4. CASE \E ok \in BOOLEAN : SetReceiver(ok)
  BY <1>4, SetReceiverApplies
<1>5. CASE \E ok \in BOOLEAN : UndoEncoder(ok) \/ UndoSender(ok)
  <2> PICK ok \in BOOLEAN : UndoEncoder(ok) \/ UndoSender(ok)
    BY <1>5
  <2>1. /\ step \in {"undo_encoder", "undo_sender"}
        /\ step' \in {"undo_sender", "undo_bitrate"}
        /\ UNCHANGED <<config_, revision, recreate_required>>
        /\ \E next \in Steps \ {"idle"} : UndoThen(next, ok)
    BY DEF UndoEncoder, UndoSender, UndoThen, ControllerUnchanged, Steps, Undo
  <2>2. txn'.old = txn.old
    BY <2>1, UndoKeepsLocals
  <2> QED
    BY <2>1, <2>2, AmidPatchUnseen
<1>6. CASE \E ok \in BOOLEAN : UndoBitrate(ok)
  BY <1>6, UndoBitrateUnseenOrDegrades
<1>7. CASE Attach
  <2>1. AgreeOn(state_', state_, LiveFields)
    BY <1>7, AttachEffect DEF IInv, TypeOK
  <2> QED
    BY <1>7, <2>1, EnvironmentUnseen DEF Attach
<1>8. CASE DropSource
  BY <1>8, EnvironmentUnseen DEF DropSource, ReleaseSource, AgreeOn
<1>9. CASE UNCHANGED vars
  BY <1>9, EnvironmentUnseen DEF vars, backendVars, AgreeOn
<1> QED
  BY <1>1, <1>2, <1>3, <1>4, <1>5, <1>6, <1>7, <1>8, <1>9 DEF Next

\* Seen from outside, every patch takes effect as a whole with one new
\* revision or not at all, and only an incomplete rollback leaves anything
\* else, marked as a session to recreate (README.md:94-96).
THEOREM ControllerAppliesAtomically == Spec => AppliesAtomically
<1>1. Init => Atomic!AtomicInit
  BY AtomicInitially
<1> QED
  BY <1>1, InitIInv, NextIInv, NextRefines, PTL
  DEF Spec, AppliesAtomically, Atomic!AtomicSpec

-----------------------------------------------------------------------------
(* The bounds of the PeerConnection.                                        *)

\* The bounds of a state, and of the effective configuration.
Ordered(s) == BoundsOrdered(s["min_bitrate_bps"], s["max_bitrate_bps"])
ConfigOrdered ==
    BoundsOrdered(LiveValue(config_, "min_bitrate_bps"),
                  LiveValue(config_, "max_bitrate_bps"))

BoundsInv == ConfigOrdered /\ BitrateBoundsOrdered

\* Validation orders the bounds of a patched configuration.
LEMMA AcceptedOrdered ==
    ASSUME NEW c, \A f \in StateFields : ValueOr(c, f, 0) \in Nat,
           NEW patch \in LivePatches, Accepts(c, patch)
    PROVE  LET m == MergeConfig(c, patch)
           IN  BoundsOrdered(ValueOr(m, "min_bitrate_bps", 0),
                             ValueOr(m, "max_bitrate_bps", 0))
<1> DEFINE m == MergeConfig(c, patch)
           minimum == ValueOr(m, "min_bitrate_bps", 0)
           maximum == ValueOr(m, "max_bitrate_bps", 0)
           start == ValueOr(m, "start_bitrate_bps", minimum)
<1>1. \A f \in StateFields : ValueOr(m, f, 0) \in Nat
  BY CandidateTyped
<1>2. minimum \in Nat /\ maximum \in Nat /\ start \in Nat
  BY <1>1, FieldSets DEF BitrateFields, ValueOr
<1>3. BitratesOrdered(m)
  BY DEF Accepts, Validate, IsUpstream, MergeConfig
<1>4. ASSUME maximum # 0 PROVE start <= maximum /\ minimum <= start
  BY <1>3, <1>4 DEF BitratesOrdered, ValueOr
<1> QED
  BY <1>2, <1>4 DEF BoundsOrdered

\* So are the bounds that a patch or its rollback asks for.
LEMMA LocalsOrdered ==
    ASSUME IInv, ConfigOrdered, step # "idle", ~recreate_required
    PROVE  Ordered(txn.old) /\ Ordered(txn.new)
<1>1. /\ txn.patch \in LivePatches /\ Accepts(config_, txn.patch)
      /\ txn.new = MergeState(txn.old, txn.patch)
      /\ \A f \in StateFields : ValueOr(config_, f, 0) \in Nat
  BY LocalsTyped DEF IInv, TypeOK
<1>2. \A f \in LiveFields : txn.old[f] = ValueOr(config_, f, 0)
  BY DEF IInv, OldMatchesConfig
<1>3. \A f \in BitrateFields : f \in LiveFields /\ f \in StateFields
  BY FieldPartition, FieldSets
<1>4. \A f \in BitrateFields :
         txn.new[f] = ValueOr(MergeConfig(config_, txn.patch), f, 0)
  BY <1>1, <1>2, <1>3, MergedValue DEF MergeState
<1>5. Ordered(txn.new)
  BY <1>1, <1>4, AcceptedOrdered DEF Ordered, BitrateFields
<1>6. Ordered(txn.old)
  BY <1>2, <1>3 DEF Ordered, BitrateFields, ConfigOrdered, LiveValue
<1> QED
  BY <1>5, <1>6

\* Bounds reach the PeerConnection together.
LEMMA BitrateSets ==
    ASSUME NEW s, NEW ok, ApplyBitrate(s, ok), Ordered(s), Ordered(bwe)
    PROVE  Ordered(bwe')
<1>1. UNCHANGED bwe \/ bwe' = [f \in BitrateFields |-> s[f]]
  BY DEF ApplyBitrate, peerVars
<1> QED
  BY <1>1 DEF Ordered, BitrateFields

LEMMA InitBounds == Init => BoundsInv
<1> SUFFICES ASSUME Init PROVE BoundsInv
  OBVIOUS
<1>1. PICK c \in InitialConfigurations : BackendInit(c) /\ config_ = c
  BY DEF Init
<1>2. bwe["min_bitrate_bps"] = 0
  BY <1>1 DEF BackendInit, Zero, BitrateFields
<1> QED
  BY <1>1, <1>2, ConfigsOrdered
  DEF BoundsInv, ConfigOrdered, LiveValue, BitrateBoundsOrdered, BoundsOrdered

\* A step that leaves the PeerConnection alone.
LEMMA SameBounds ==
    ASSUME BoundsInv, UNCHANGED <<bwe, config_, recreate_required>>
    PROVE  BoundsInv'
  BY DEF BoundsInv, ConfigOrdered, BitrateBoundsOrdered, LiveValue

LEMMA NextBounds == IInv /\ BoundsInv /\ [Next]_vars => BoundsInv'
<1> SUFFICES ASSUME IInv, BoundsInv, [Next]_vars PROVE BoundsInv'
  OBVIOUS
<1> USE DEF peerVars
<1>0. BitrateBoundsOrdered = (~recreate_required => Ordered(bwe))
  BY DEF BitrateBoundsOrdered, Ordered
<1>1. ASSUME NEW p \in LivePatches, Reject(p) \/ BeginLivePatch(p) PROVE BoundsInv'
  BY <1>1, SameBounds DEF Reject, BeginLivePatch, backendVars
<1>2. ASSUME NEW ok \in BOOLEAN, SetBitrate(ok) PROVE BoundsInv'
  <2>1. /\ step = "bitrate" /\ ApplyBitrate(txn.new, ok)
        /\ UNCHANGED <<config_, recreate_required>>
    BY <1>2 DEF SetBitrate, ControllerUnchanged
  <2>2. ~recreate_required => Ordered(txn.new)
    BY <2>1, LocalsOrdered DEF BoundsInv
  <2>3. ~recreate_required => Ordered(bwe')
    BY <2>1, <2>2, <1>0, BitrateSets DEF BoundsInv
  <2> QED
    BY <2>1, <2>3 DEF BoundsInv, ConfigOrdered, LiveValue, BitrateBoundsOrdered, Ordered
<1>3. ASSUME NEW ok \in BOOLEAN, UndoBitrate(ok) PROVE BoundsInv'
  <2>1. /\ step = "undo_bitrate" /\ ApplyBitrate(txn.old, ok) /\ UNCHANGED config_
        /\ ~recreate_required' => ~recreate_required
    BY <1>3 DEF UndoBitrate
  <2>2. ~recreate_required => Ordered(txn.old)
    BY <2>1, LocalsOrdered DEF BoundsInv
  <2>3. ~recreate_required => Ordered(bwe')
    BY <2>1, <2>2, <1>0, BitrateSets DEF BoundsInv
  <2> QED
    BY <2>1, <2>3 DEF BoundsInv, ConfigOrdered, LiveValue, BitrateBoundsOrdered, Ordered
<1>4. ASSUME NEW ok \in BOOLEAN, SetReceiver(ok) PROVE BoundsInv'
  <2>1. /\ step = "receiver" /\ UNCHANGED <<bwe, recreate_required>>
        /\ config_' = config_ \/ config_' = txn.candidate
    BY <1>4 DEF SetReceiver
  <2>2. CASE config_' = config_
    BY <2>1, <2>2, SameBounds
  <2>3. CASE config_' = txn.candidate
    <3>1. ConfigOrdered'
      BY <2>1, <2>3, LocalsTyped, AcceptedOrdered DEF IInv, TypeOK, ConfigOrdered, LiveValue
    <3> QED
      BY <2>1, <3>1 DEF BoundsInv, BitrateBoundsOrdered
  <2> QED
    BY <2>1, <2>2, <2>3
<1>5. ASSUME NEW ok \in BOOLEAN,
             SetSender(ok) \/ SetEncoder(ok) \/ UndoEncoder(ok) \/ UndoSender(ok)
      PROVE  BoundsInv'
  BY <1>5, SameBounds
  DEF SetSender, SetEncoder, UndoEncoder, UndoSender, ControllerUnchanged
<1>6. CASE Attach
  <2>1. UNCHANGED <<config_, recreate_required>> /\ step = "idle"
    BY <1>6 DEF Attach
  <2>2. CASE UNCHANGED bwe
    BY <2>1, <2>2, SameBounds
  <2>3. CASE bwe' = Zero(BitrateFields)
    BY <2>1, <2>3 DEF BoundsInv, ConfigOrdered, LiveValue, BitrateBoundsOrdered,
                      BoundsOrdered, Zero, BitrateFields
  <2>4. CASE bwe' = [f \in BitrateFields |-> state_[f]]
    <3>1. ~recreate_required => \A f \in BitrateFields : state_[f] = LiveValue(config_, f)
      BY <2>1, FieldPartition DEF IInv, ConfigMatchesBackend, LiveValue
    <3>2. ~recreate_required => Ordered(bwe')
      BY <2>4, <3>1 DEF BoundsInv, ConfigOrdered, Ordered, BitrateFields
    <3> QED
      BY <2>1, <3>2 DEF BoundsInv, ConfigOrdered, LiveValue, BitrateBoundsOrdered, Ordered
  <2>5. UNCHANGED bwe \/ bwe' = Zero(BitrateFields)
        \/ bwe' = [f \in BitrateFields |-> state_[f]]
    BY <1>6 DEF Attach, AttachPeerConnection, AttachSender, AttachReceiver
  <2> QED
    BY <2>2, <2>3, <2>4, <2>5
<1>7. CASE DropSource
  BY <1>7, SameBounds DEF DropSource, ReleaseSource
<1>8. CASE UNCHANGED vars
  BY <1>8, SameBounds DEF vars, backendVars
<1> QED
  BY <1>1, <1>2, <1>3, <1>4, <1>5, <1>6, <1>7, <1>8 DEF Next

\* Until an unsuccessful rollback was reported, no setter, rollback or attachment
\* gives the PeerConnection a minimum above its maximum: ApplyLivePatch validates
\* the bounds together, and ApplyBitrate and SetPeerConnection pass them together.
THEOREM BoundsStayOrdered == Spec => []BitrateBoundsOrdered
<1>1. BoundsInv => BitrateBoundsOrdered
  BY DEF BoundsInv
<1> QED
  BY InitIInv, NextIInv, InitBounds, NextBounds, <1>1, PTL DEF Spec

-----------------------------------------------------------------------------
(* What the attached objects hold.                                          *)

\* The sender and what belongs to it hold the values of s.
Sent(s) ==
    sender /\ source # "released" /\ "sender" \in hasInitial =>
      /\ \A f \in EncodingFields : s[f] # 0 => encoding[f] = s[f]
      /\ track /\ s["content_mode"] # kUnspecified => hint = s["content_mode"]
      /\ source = "live" /\ (\E f \in OutputFields : s[f] # 0) =>
            \A f \in OutputFields : output[f] = s[f]

\* The other objects always hold what state_ says, between two setters too.
Held ==
    /\ peer /\ "bitrate" \in hasInitial /\ ~last_initial_apply_error_ =>
          \A f \in BitrateFields : bwe[f] = state_[f]
    /\ receiver /\ "receiver" \in hasInitial => delay = state_["jitter_minimum_ms"]
    /\ state_["max_qp"] # 0 => cap = state_["max_qp"]

\* No patch names the network priority.
PriorityKept ==
    step # "idle" => /\ txn.old["network_priority"] = state_["network_priority"]
                     /\ txn.new["network_priority"] = state_["network_priority"]

\* Whose values the sender has before each call of the backend.
SenderProgress ==
    ~recreate_required /\ ~last_initial_apply_error_ =>
      /\ step = "idle" => Sent(state_)
      /\ step \in {"bitrate", "sender"} => Sent(txn.old)
      /\ step \in {"encoder", "receiver", "undo_encoder", "undo_sender"} => Sent(txn.new)
      /\ step = "undo_bitrate" /\ ~txn.failed => Sent(txn.old)

HeldInv == Held /\ PriorityKept /\ SenderProgress

-----------------------------------------------------------------------------
\* Only these values of a state reach the sender.
SentFields == EncodingFields \cup OutputFields \cup {"content_mode"}

LEMMA SentFieldsLive ==
    SentFields = BitrateFields \cup LiveSenderFields \cup {"network_priority"}
  BY DEF SentFields, EncodingFields, OutputFields, BitrateFields, LiveSenderFields

LEMMA SameSent ==
    ASSUME NEW s, NEW t, AgreeOn(s, t, SentFields)
    PROVE  (Sent(s) => Sent(t)) /\ (Sent(s)' => Sent(t)')
<1>1. /\ \A f \in EncodingFields : s[f] = t[f]
      /\ \A f \in OutputFields : s[f] = t[f]
      /\ s["content_mode"] = t["content_mode"]
  BY DEF AgreeOn, SentFields
<1> QED
  BY <1>1 DEF Sent

\* What the sender holds is untouched.
LEMMA SentStays ==
    ASSUME NEW s, Sent(s), UNCHANGED <<senderVars, hasInitial>>
    PROVE  Sent(s)'
  BY DEF Sent, senderVars

\* A setter that succeeded gave the sender its values; one that failed left it
\* alone, or the source is gone.
LEMMA SenderSets ==
    ASSUME BackendTypeOK, NEW s \in [StateFields -> Nat], NEW ok \in BOOLEAN,
           ApplySender(s, ok), UNCHANGED hasInitial
    PROVE  /\ ok => Sent(s)'
           /\ \A t : ~ok /\ Sent(t) => Sent(t)'
           /\ state_'["network_priority"] \in
                 {state_["network_priority"], s["network_priority"]}
<1>0. /\ "network_priority" \in StateFields /\ "network_priority" \in SenderFields
      /\ EncodingFields \subseteq StateFields /\ OutputFields \subseteq StateFields
      /\ "content_mode" \in StateFields
  BY FieldSets DEF SenderFields, StateFields
<1>1. CASE ~sender
  <2>1. UNCHANGED <<state_, senderVars>>
    BY <1>1 DEF ApplySender
  <2>2. ~sender'
    BY <1>1, <2>1 DEF senderVars
  <2> QED
    BY <2>1, <2>2 DEF Sent
<1>2. CASE sender /\ ~ok /\ UNCHANGED <<state_, senderVars>>
  BY <1>2, SentStays
<1>3. CASE /\ sender
           /\ encoding' = [f \in EncodingFields |->
                             IF s[f] > 0 THEN s[f] ELSE encoding[f]]
           /\ hint' = IF track /\ s["content_mode"] # kUnspecified
                      THEN s["content_mode"] ELSE hint
           /\ LET adapts == source # "none" /\ \E f \in OutputFields : s[f] > 0
              IN  /\ ok = (adapts => source = "live")
                  /\ output' = IF adapts /\ ok
                               THEN [f \in OutputFields |-> s[f]] ELSE output
           /\ state_' = IF ok THEN Adopt(s, SenderFields) ELSE state_
           /\ UNCHANGED <<sender, track, source>>
  <2>1. \A f \in StateFields : s[f] # 0 <=> s[f] > 0
    OBVIOUS
  <2>2. source \in {"none", "live", "released"}
    BY DEF BackendTypeOK
  <2>3. ok => Sent(s)'
    <3>1. \A f \in EncodingFields : s[f] # 0 => encoding'[f] = s[f]
      BY <1>0, <1>3, <2>1
    <3>2. track' /\ s["content_mode"] # kUnspecified => hint' = s["content_mode"]
      BY <1>3
    <3>3. ok /\ source' = "live" /\ (\E f \in OutputFields : s[f] # 0) =>
             \A f \in OutputFields : output'[f] = s[f]
      BY <1>0, <1>3, <2>1
    <3> QED
      BY <3>1, <3>2, <3>3 DEF Sent
  <2>4. ASSUME ~ok PROVE source' = "released"
    BY <1>3, <2>2, <2>4
  <2>5. state_'["network_priority"] \in
           {state_["network_priority"], s["network_priority"]}
    BY <1>0, <1>3 DEF Adopt
  <2> QED
    BY <2>3, <2>4, <2>5 DEF Sent
<1> QED
  BY <1>1, <1>2, <1>3 DEF ApplySender

\* The other setters give their object and state_ the same values.
LEMMA BitrateHolds ==
    ASSUME BackendTypeOK, Held, NEW s \in [StateFields -> Nat], NEW ok \in BOOLEAN,
           ApplyBitrate(s, ok),
           UNCHANGED <<hasInitial, last_initial_apply_error_, receiverVars, encoderVars>>
    PROVE  Held' /\ state_'["network_priority"] = state_["network_priority"]
<1> DEFINE now == Adopt(s, BitrateFields)
<1>0. /\ BitrateFields \subseteq StateFields \ {"start_bitrate_bps"}
      /\ {"jitter_minimum_ms", "max_qp", "network_priority"} \subseteq
            StateFields \ (BitrateFields \cup {"start_bitrate_bps"})
  BY DEF StateFields, BitrateFields, SenderFields, ReceiverFields
<1>1. CASE UNCHANGED <<state_, peerVars>>
  BY <1>1 DEF Held, peerVars, receiverVars, encoderVars
<1>2. CASE /\ bwe' = [f \in BitrateFields |-> s[f]]
           /\ state_' = [Adopt(s, BitrateFields) EXCEPT !["start_bitrate_bps"] = 0]
  <2>1. now \in [StateFields -> Nat]
    BY AdoptTyped DEF BackendTypeOK
  <2>2. \A f \in StateFields : now[f] = IF f \in BitrateFields THEN s[f] ELSE state_[f]
    BY DEF Adopt
  <2> HIDE DEF now
  <2>3. \A f \in StateFields \ {"start_bitrate_bps"} : state_'[f] = now[f]
    BY <1>2, <2>1 DEF now
  <2>4. /\ \A f \in BitrateFields : bwe'[f] = state_'[f]
        /\ state_'["jitter_minimum_ms"] = state_["jitter_minimum_ms"]
        /\ state_'["max_qp"] = state_["max_qp"]
        /\ state_'["network_priority"] = state_["network_priority"]
    BY <1>0, <1>2, <2>2, <2>3
  <2> QED
    BY <2>4 DEF Held, receiverVars, encoderVars
<1> QED
  BY <1>1, <1>2 DEF ApplyBitrate

LEMMA EncoderHolds ==
    ASSUME BackendTypeOK, Held, NEW s \in [StateFields -> Nat], NEW ok \in BOOLEAN,
           ApplyEncoder(s, ok),
           UNCHANGED <<hasInitial, last_initial_apply_error_, peerVars, receiverVars>>
    PROVE  Held' /\ state_'["network_priority"] = state_["network_priority"]
<1>1. CASE UNCHANGED <<state_, encoderVars>>
  BY <1>1 DEF Held, peerVars, receiverVars, encoderVars
<1>2. CASE cap' = s["max_qp"] /\ state_' = Adopt(s, {"max_qp"})
  <2>1. BitrateFields \cup {"jitter_minimum_ms", "network_priority"} \subseteq
            StateFields \ {"max_qp"}
    BY DEF StateFields, BitrateFields, SenderFields, ReceiverFields
  <2>2. \A f \in StateFields \ {"max_qp"} : state_'[f] = state_[f]
    BY <1>2 DEF Adopt
  <2>3. state_'["max_qp"] = s["max_qp"]
    BY <1>2, FieldSets DEF Adopt
  <2> QED
    BY <1>2, <2>1, <2>2, <2>3 DEF Held, peerVars, receiverVars
<1> QED
  BY <1>1, <1>2 DEF ApplyEncoder

LEMMA ReceiverHolds ==
    ASSUME BackendTypeOK, Held, NEW s \in [StateFields -> Nat], NEW ok \in BOOLEAN,
           ApplyReceiver(s, ok),
           UNCHANGED <<hasInitial, last_initial_apply_error_, peerVars, encoderVars>>
    PROVE  Held' /\ state_'["network_priority"] = state_["network_priority"]
<1>0. /\ BitrateFields \cup {"max_qp", "network_priority"} \subseteq
            StateFields \ ReceiverFields
      /\ "jitter_minimum_ms" \in StateFields /\ "jitter_minimum_ms" \in ReceiverFields
  BY DEF StateFields, BitrateFields, SenderFields, OutputFields, ReceiverFields
<1>1. \A f \in StateFields \ ReceiverFields : state_'[f] = state_[f]
  BY DEF ApplyReceiver, Adopt, ReceiverFields
<1>2. receiver' /\ receiver => delay' = state_'["jitter_minimum_ms"]
  BY <1>0 DEF ApplyReceiver, Adopt
<1>3. receiver' = receiver
  BY DEF ApplyReceiver, receiverVars
<1> QED
  BY <1>0, <1>1, <1>2, <1>3 DEF Held, peerVars, encoderVars

LEMMA SenderHolds ==
    ASSUME BackendTypeOK, Held, NEW s \in [StateFields -> Nat], NEW ok \in BOOLEAN,
           ApplySender(s, ok),
           UNCHANGED <<hasInitial, last_initial_apply_error_, peerVars, receiverVars,
                       encoderVars>>
    PROVE  Held'
<1>1. AgreeOn(state_', state_, BitrateFields \cup {"max_qp"} \cup ReceiverFields)
  BY ApplySenderEffect
<1> QED
  BY <1>1 DEF AgreeOn, Held, ReceiverFields, peerVars, receiverVars, encoderVars

-----------------------------------------------------------------------------
\* Sent of the value that a variable or a local has after a step.
LEMMA SentNext ==
    ASSUME NEW s
    PROVE  /\ s = state_' => (Sent(s)' <=> Sent(state_)')
           /\ s = txn'.old => (Sent(s)' <=> Sent(txn.old)')
           /\ s = txn'.new => (Sent(s)' <=> Sent(txn.new)')
  BY DEF Sent

LEMMA InitHeld == Init => HeldInv
<1> SUFFICES ASSUME Init PROVE HeldInv
  OBVIOUS
<1>1. PICK c \in InitialConfigurations : BackendInit(c) /\ step = "idle"
  BY DEF Init
<1>2. /\ peer = FALSE /\ sender = FALSE /\ receiver = FALSE
      /\ cap = ValueOr(c, "max_qp", NoCap)
      /\ state_ = [f \in StateFields |-> ValueOr(c, f, 0)]
  BY <1>1, Zenon DEF BackendInit, BackendState
<1>3. state_["max_qp"] # 0 => cap = state_["max_qp"]
  BY <1>2, FieldSets DEF ValueOr
<1>4. Sent(state_)
  BY <1>2 DEF Sent
<1> QED
  BY <1>1, <1>2, <1>3, <1>4 DEF HeldInv, Held, PriorityKept, SenderProgress

\* A step that moves nothing but the controller's result and telemetry.
LEMMA SameHeld ==
    ASSUME HeldInv, UNCHANGED <<backendVars, recreate_required, step, txn>>
    PROVE  HeldInv'
<1> USE DEF backendVars, peerVars, receiverVars, encoderVars
<1>1. Held' /\ PriorityKept'
  BY DEF HeldInv, Held, PriorityKept
<1>2. PICK s, old, new : s = state_ /\ old = txn.old /\ new = txn.new
  OBVIOUS
<1>3. \A t : Sent(t) => Sent(t)'
  BY SentStays
<1>4. SenderProgress'
  BY <1>2, <1>3, SentNext DEF HeldInv, SenderProgress
<1> QED
  BY <1>1, <1>4 DEF HeldInv

LEMMA BeginHolds ==
    ASSUME IInv, HeldInv, NEW p \in LivePatches, BeginLivePatch(p)
    PROVE  HeldInv'
<1>1. /\ UNCHANGED <<backendVars, recreate_required>> /\ step = "idle" /\ step' = "bitrate"
      /\ txn'.old = state_ /\ txn'.new = MergeState(state_, p)
  BY DEF BeginLivePatch
<1>2. Held'
  BY <1>1 DEF HeldInv, Held, backendVars, peerVars, receiverVars, encoderVars
<1>3. PriorityKept'
  <2>1. "network_priority" \in StateFields \ LiveFields
    BY DEF StateFields, SenderFields, LiveFields
  <2> QED
    BY <1>1, <2>1 DEF PriorityKept, MergeState, backendVars
<1>4. SenderProgress'
  <2>1. PICK s : s = state_
    OBVIOUS
  <2>2. ~recreate_required /\ ~last_initial_apply_error_ => Sent(s)'
    BY <1>1, <2>1, SentStays DEF HeldInv, SenderProgress, backendVars
  <2> QED
    BY <1>1, <2>1, <2>2, SentNext DEF SenderProgress, backendVars
<1> QED
  BY <1>2, <1>3, <1>4 DEF HeldInv

\* The locals while a patch runs, and what the step goes on to has of them.
LEMMA SetBitrateHolds ==
    ASSUME IInv, HeldInv, NEW ok \in BOOLEAN, SetBitrate(ok)
    PROVE  HeldInv'
<1>1. /\ step = "bitrate" /\ ApplyBitrate(txn.new, ok)
      /\ UNCHANGED <<recreate_required, hasInitial, last_initial_apply_error_,
                     senderVars, receiverVars, encoderVars>>
      /\ IF ok THEN step' = "sender" /\ txn' = txn ELSE step' = "idle"
  BY DEF SetBitrate, ControllerUnchanged, Goto, Return
<1>2. /\ BackendTypeOK
      /\ txn.new \in [StateFields -> Nat] /\ txn.old \in [StateFields -> Nat]
  BY <1>1, LocalsTyped DEF IInv, TypeOK
<1>3. Held' /\ state_'["network_priority"] = state_["network_priority"]
  BY <1>1, <1>2, BitrateHolds DEF HeldInv
<1>4. PriorityKept'
  BY <1>1, <1>3 DEF HeldInv, PriorityKept
<1>5. PICK s, old : s = state_' /\ old = txn.old
  OBVIOUS
<1>6. ~recreate_required /\ ~last_initial_apply_error_ => Sent(old)'
  BY <1>1, <1>5, SentStays DEF HeldInv, SenderProgress
<1>7. ASSUME ~ok, ~recreate_required, ~last_initial_apply_error_ PROVE Sent(s)'
  <2>1. state_' = state_
    BY <1>1, <1>2, <1>7, ApplyBitrateEffect
  <2>2. AgreeOn(old, s, SentFields)
    BY <1>1, <1>5, <2>1, SentFieldsLive, FieldPartition
    DEF AgreeOn, IInv, Progress, HeldInv, PriorityKept
  <2> QED
    BY <1>6, <1>7, <2>2, SameSent
<1>8. SenderProgress'
  BY <1>1, <1>5, <1>6, <1>7, SentNext DEF SenderProgress
<1> QED
  BY <1>3, <1>4, <1>8 DEF HeldInv

LEMMA SetSenderHolds ==
    ASSUME IInv, HeldInv, NEW ok \in BOOLEAN, SetSender(ok)
    PROVE  HeldInv'
<1>1. /\ step = "sender" /\ ApplySender(txn.new, ok)
      /\ UNCHANGED <<recreate_required, hasInitial, last_initial_apply_error_,
                     peerVars, receiverVars, encoderVars, txn>>
      /\ step' = IF ok THEN "encoder" ELSE "undo_bitrate"
  BY DEF SetSender, ControllerUnchanged, Goto, AfterSender
<1>2. BackendTypeOK /\ txn.new \in [StateFields -> Nat]
  BY <1>1, LocalsTyped DEF IInv, TypeOK
<1>3. Held'
  BY <1>1, <1>2, SenderHolds DEF HeldInv
<1>4. PICK old, new : old = txn.old /\ new = txn.new
  OBVIOUS
<1>5. /\ ok => Sent(new)'
      /\ \A t : ~ok /\ Sent(t) => Sent(t)'
      /\ state_'["network_priority"] \in
            {state_["network_priority"], new["network_priority"]}
  BY <1>1, <1>2, <1>4, SenderSets
<1>6. PriorityKept'
  BY <1>1, <1>4, <1>5 DEF HeldInv, PriorityKept
<1>7. ~recreate_required /\ ~last_initial_apply_error_ /\ ~ok => Sent(old)'
  BY <1>1, <1>4, <1>5 DEF HeldInv, SenderProgress
<1>8. SenderProgress'
  BY <1>1, <1>4, <1>5, <1>7, SentNext DEF SenderProgress
<1> QED
  BY <1>3, <1>6, <1>8 DEF HeldInv

LEMMA SetEncoderHolds ==
    ASSUME IInv, HeldInv, NEW ok \in BOOLEAN, SetEncoder(ok)
    PROVE  HeldInv'
<1>1. /\ step = "encoder" /\ ApplyEncoder(txn.new, ok)
      /\ UNCHANGED <<recreate_required, hasInitial, last_initial_apply_error_,
                     peerVars, senderVars, receiverVars, txn>>
      /\ step' = IF ok THEN "receiver" ELSE "undo_sender"
  BY DEF SetEncoder, ControllerUnchanged, Goto, AfterEncoder
<1>2. BackendTypeOK /\ txn.new \in [StateFields -> Nat]
  BY <1>1, LocalsTyped DEF IInv, TypeOK
<1>3. Held' /\ state_'["network_priority"] = state_["network_priority"]
  BY <1>1, <1>2, EncoderHolds DEF HeldInv
<1>4. PICK new : new = txn.new
  OBVIOUS
<1>5. ~recreate_required /\ ~last_initial_apply_error_ => Sent(new)'
  BY <1>1, <1>4, SentStays DEF HeldInv, SenderProgress
<1>6. SenderProgress'
  BY <1>1, <1>4, <1>5, SentNext DEF SenderProgress
<1> QED
  BY <1>1, <1>3, <1>6 DEF HeldInv, PriorityKept

LEMMA SetReceiverHolds ==
    ASSUME IInv, HeldInv, NEW ok \in BOOLEAN, SetReceiver(ok)
    PROVE  HeldInv'
<1>1. /\ step = "receiver" /\ ApplyReceiver(txn.new, ok)
      /\ UNCHANGED <<recreate_required, hasInitial, last_initial_apply_error_,
                     peerVars, senderVars, encoderVars>>
      /\ IF ok THEN step' = "idle" ELSE step' = "undo_encoder" /\ txn' = txn
  BY DEF SetReceiver, Goto, Return
<1>2. BackendTypeOK /\ txn.new \in [StateFields -> Nat]
  BY <1>1, LocalsTyped DEF IInv, TypeOK
<1>3. Held' /\ state_'["network_priority"] = state_["network_priority"]
  BY <1>1, <1>2, ReceiverHolds DEF HeldInv
<1>4. PICK s, new : s = state_' /\ new = txn.new
  OBVIOUS
<1>5. ~recreate_required /\ ~last_initial_apply_error_ => Sent(new)'
  BY <1>1, <1>4, SentStays DEF HeldInv, SenderProgress
<1>6. ASSUME ok, ~recreate_required, ~last_initial_apply_error_ PROVE Sent(s)'
  <2>1. AgreeOn(state_', state_, BitrateFields \cup LiveSenderFields \cup {"max_qp"})
    BY <1>1, <1>2, ApplyReceiverEffect
  <2>2. AgreeOn(state_, txn.new, BitrateFields \cup LiveSenderFields \cup {"max_qp"})
    BY <1>1 DEF IInv, Progress
  <2>3. AgreeOn(new, s, SentFields)
    BY <1>1, <1>3, <1>4, <2>1, <2>2, SentFieldsLive DEF AgreeOn, HeldInv, PriorityKept
  <2> QED
    BY <1>5, <1>6, <2>3, SameSent
<1>7. SenderProgress'
  BY <1>1, <1>4, <1>5, <1>6, SentNext DEF SenderProgress
<1> QED
  BY <1>1, <1>3, <1>7 DEF HeldInv, PriorityKept

LEMMA UndoEncoderHolds ==
    ASSUME IInv, HeldInv, NEW ok \in BOOLEAN, UndoEncoder(ok)
    PROVE  HeldInv'
<1>1. /\ step = "undo_encoder" /\ ApplyEncoder(txn.old, ok)
      /\ UNCHANGED <<config_, recreate_required, hasInitial, last_initial_apply_error_,
                     peerVars, senderVars, receiverVars>>
      /\ step' = "undo_sender" /\ UndoThen("undo_sender", ok)
  BY DEF UndoEncoder, ControllerUnchanged, UndoThen
<1>2. BackendTypeOK /\ txn.old \in [StateFields -> Nat]
  BY <1>1, LocalsTyped DEF IInv, TypeOK
<1>3. Held' /\ state_'["network_priority"] = state_["network_priority"]
  BY <1>1, <1>2, EncoderHolds DEF HeldInv
<1>4. txn'.old = txn.old /\ txn'.new = txn.new
  BY <1>1, UndoKeepsLocals DEF Steps, Undo
<1>5. PICK new : new = txn.new
  OBVIOUS
<1>6. ~recreate_required /\ ~last_initial_apply_error_ => Sent(new)'
  BY <1>1, <1>5, SentStays DEF HeldInv, SenderProgress
<1>7. SenderProgress'
  BY <1>1, <1>4, <1>5, <1>6, SentNext DEF SenderProgress
<1> QED
  BY <1>1, <1>3, <1>4, <1>7 DEF HeldInv, PriorityKept

LEMMA UndoSenderHolds ==
    ASSUME IInv, HeldInv, NEW ok \in BOOLEAN, UndoSender(ok)
    PROVE  HeldInv'
<1>1. /\ step = "undo_sender" /\ ApplySender(txn.old, ok)
      /\ UNCHANGED <<config_, recreate_required, hasInitial, last_initial_apply_error_,
                     peerVars, receiverVars, encoderVars>>
      /\ step' = "undo_bitrate" /\ UndoThen("undo_bitrate", ok)
  BY DEF UndoSender, ControllerUnchanged, UndoThen
<1>2. BackendTypeOK /\ txn.old \in [StateFields -> Nat]
  BY <1>1, LocalsTyped DEF IInv, TypeOK
<1>3. Held'
  BY <1>1, <1>2, SenderHolds DEF HeldInv
<1>4. /\ txn'.old = txn.old /\ txn'.new = txn.new
      /\ txn'.failed = (txn.failed \/ ~ok)
  BY <1>1, UndoKeepsLocals DEF Steps, Undo
<1>5. PICK old : old = txn.old
  OBVIOUS
<1>6. /\ ok => Sent(old)'
      /\ state_'["network_priority"] \in
            {state_["network_priority"], old["network_priority"]}
  BY <1>1, <1>2, <1>5, SenderSets
<1>7. PriorityKept'
  BY <1>1, <1>4, <1>5, <1>6 DEF HeldInv, PriorityKept
<1>8. SenderProgress'
  BY <1>1, <1>4, <1>5, <1>6, SentNext DEF SenderProgress
<1> QED
  BY <1>3, <1>7, <1>8 DEF HeldInv

LEMMA UndoBitrateHolds ==
    ASSUME IInv, HeldInv, NEW ok \in BOOLEAN, UndoBitrate(ok)
    PROVE  HeldInv'
<1>1. /\ step = "undo_bitrate" /\ ApplyBitrate(txn.old, ok) /\ step' = "idle"
      /\ UNCHANGED <<hasInitial, last_initial_apply_error_, senderVars, receiverVars,
                     encoderVars>>
      /\ ~recreate_required' => ~recreate_required /\ ~txn.failed /\ ok
  BY DEF UndoBitrate, Return
<1>2. BackendTypeOK /\ txn.old \in [StateFields -> Nat]
  BY <1>1, LocalsTyped DEF IInv, TypeOK
<1>3. Held' /\ state_'["network_priority"] = state_["network_priority"]
  BY <1>1, <1>2, BitrateHolds DEF HeldInv
<1>4. PICK s, old : s = state_' /\ old = txn.old
  OBVIOUS
<1>5. ASSUME ~recreate_required', ~last_initial_apply_error_' PROVE Sent(s)'
  <2>1. Sent(old)'
    BY <1>1, <1>4, <1>5, SentStays DEF HeldInv, SenderProgress
  <2>2. /\ AgreeOn(state_', txn.old, BitrateFields)
        /\ AgreeOn(state_', state_, LiveSenderFields \cup {"max_qp"} \cup ReceiverFields)
    BY <1>1, <1>2, <1>5, ApplyBitrateEffect
  <2>3. AgreeOn(state_, txn.old, LiveSenderFields \cup {"max_qp"} \cup ReceiverFields)
    BY <1>1, <1>5 DEF IInv, Progress
  <2>4. AgreeOn(old, s, SentFields)
    BY <1>1, <1>3, <1>4, <2>2, <2>3, SentFieldsLive DEF AgreeOn, HeldInv, PriorityKept
  <2> QED
    BY <2>1, <2>4, SameSent
<1>6. SenderProgress'
  BY <1>1, <1>4, <1>5, SentNext DEF SenderProgress
<1> QED
  BY <1>1, <1>3, <1>6 DEF HeldInv, PriorityKept

-----------------------------------------------------------------------------
\* An attached object that has an initial configuration gets the values of state_,
\* or the failure is remembered.
LEMMA AttachHolds ==
    ASSUME IInv, HeldInv, Attach
    PROVE  HeldInv'
<1>1. step = "idle" /\ UNCHANGED <<step, txn, recreate_required>>
  BY DEF Attach
<1>2. PriorityKept'
  BY <1>1 DEF PriorityKept
<1>3. PICK s : s = state_'
  OBVIOUS
<1>4. state_ \in [StateFields -> Nat] /\ last_initial_apply_error_ \in BOOLEAN
  BY DEF IInv, TypeOK, BackendTypeOK
<1>5. ~recreate_required /\ ~last_initial_apply_error_ => Sent(state_)
  BY <1>1 DEF HeldInv, SenderProgress
<1>6. ASSUME NEW same \in BOOLEAN, NEW ok \in BOOLEAN, AttachPeerConnection(same, ok)
      PROVE  HeldInv'
  <2>1. /\ UNCHANGED <<hasInitial, senderVars, receiverVars, encoderVars>>
        /\ last_initial_apply_error_' =
              (last_initial_apply_error_ \/ ~("bitrate" \in hasInitial => ok))
    BY <1>6 DEF AttachPeerConnection, RecordInitialApplyResult
  <2>2. \A f \in StateFields \ {"start_bitrate_bps"} : state_'[f] = state_[f]
    BY <1>4, <1>6 DEF AttachPeerConnection
  <2>3. "bitrate" \in hasInitial /\ ok => \A f \in BitrateFields : bwe'[f] = state_[f]
    BY <1>6 DEF AttachPeerConnection
  <2>4. BitrateFields \cup SentFields \cup {"jitter_minimum_ms", "max_qp"}
           \subseteq StateFields \ {"start_bitrate_bps"}
    BY DEF StateFields, BitrateFields, SentFields, EncodingFields, SenderFields,
           OutputFields, ReceiverFields
  <2>5. Held'
    BY <2>1, <2>2, <2>3, <2>4 DEF HeldInv, Held, receiverVars, encoderVars
  <2>6. PICK t : t = state_
    OBVIOUS
  <2>7. AgreeOn(t, s, SentFields)
    BY <1>3, <2>2, <2>4, <2>6 DEF AgreeOn
  <2>8. ~recreate_required' /\ ~last_initial_apply_error_' => Sent(s)'
    BY <1>1, <1>5, <2>1, <2>6, <2>7, SentStays, SameSent
  <2>9. SenderProgress'
    BY <1>1, <1>3, <2>8, SentNext DEF SenderProgress
  <2> QED
    BY <1>2, <2>5, <2>9 DEF HeldInv
<1>7. ASSUME NEW same \in BOOLEAN, NEW withTrack \in BOOLEAN,
             NEW withSource \in BOOLEAN, NEW ok \in BOOLEAN,
             AttachSender(same, withTrack, withSource, ok)
      PROVE  HeldInv'
  <2> DEFINE applied == "sender" \in hasInitial /\ ok
  <2>1. /\ UNCHANGED <<state_, hasInitial, peerVars, receiverVars, encoderVars>>
        /\ last_initial_apply_error_' =
              (last_initial_apply_error_ \/ ~("sender" \in hasInitial => ok))
    BY <1>7 DEF AttachSender, RecordInitialApplyResult
  <2>2. Held'
    BY <2>1 DEF HeldInv, Held, peerVars, receiverVars, encoderVars
  <2>3. ASSUME applied PROVE Sent(state_)'
    <3>1. \A f \in EncodingFields : state_[f] # 0 => encoding'[f] = state_[f]
      <4>1. \A f \in EncodingFields : state_[f] \in Nat
        BY <1>4, FieldSets
      <4> QED
        BY <1>7, <2>3, <4>1 DEF AttachSender
    <3>2. track' /\ state_["content_mode"] # kUnspecified => hint' = state_["content_mode"]
      BY <1>7, <2>3 DEF AttachSender
    <3>3. source' = "live" /\ (\E f \in OutputFields : state_[f] # 0) =>
             \A f \in OutputFields : output'[f] = state_[f]
      <4>1. \A f \in OutputFields : state_[f] \in Nat
        BY <1>4, FieldSets
      <4>2. source' = "live" => withSource
        BY <1>7 DEF AttachSender
      <4> QED
        BY <1>7, <2>3, <4>1, <4>2 DEF AttachSender
    <3> QED
      BY <2>1, <3>1, <3>2, <3>3 DEF Sent
  <2>4. ASSUME "sender" \notin hasInitial PROVE Sent(state_)'
    BY <2>1, <2>4 DEF Sent
  <2>5. SenderProgress'
    BY <1>1, <2>1, <2>3, <2>4 DEF SenderProgress
  <2> QED
    BY <1>2, <2>2, <2>5 DEF HeldInv
<1>8. ASSUME NEW same \in BOOLEAN, AttachReceiver(same) PROVE HeldInv'
  <2>1. /\ UNCHANGED <<state_, hasInitial, last_initial_apply_error_, peerVars,
                       senderVars, encoderVars>>
        /\ "receiver" \in hasInitial => delay' = state_["jitter_minimum_ms"]
    BY <1>8 DEF AttachReceiver
  <2>2. Held'
    BY <2>1 DEF HeldInv, Held, peerVars, encoderVars
  <2>3. ~recreate_required /\ ~last_initial_apply_error_ => Sent(s)'
    BY <1>3, <1>5, <2>1, SentStays
  <2>4. SenderProgress'
    BY <1>1, <1>3, <2>1, <2>3, SentNext DEF SenderProgress
  <2> QED
    BY <1>2, <2>2, <2>4 DEF HeldInv
<1> QED
  BY <1>6, <1>7, <1>8 DEF Attach

\* Of a sender whose source was released nothing is claimed until the next attach.
LEMMA DropSourceHolds ==
    ASSUME HeldInv, DropSource
    PROVE  HeldInv'
<1>1. /\ source' = "released"
      /\ UNCHANGED <<state_, hasInitial, last_initial_apply_error_, peerVars,
                     receiverVars, encoderVars, recreate_required, step, txn>>
  BY DEF DropSource, ReleaseSource
<1>2. Held' /\ PriorityKept'
  BY <1>1 DEF HeldInv, Held, PriorityKept, peerVars, receiverVars, encoderVars
<1>3. SenderProgress'
  BY <1>1 DEF SenderProgress, Sent
<1> QED
  BY <1>2, <1>3 DEF HeldInv

LEMMA NextHeld == IInv /\ HeldInv /\ [Next]_vars => HeldInv'
<1> SUFFICES ASSUME IInv, HeldInv, [Next]_vars PROVE HeldInv'
  OBVIOUS
<1>1. ASSUME NEW p \in LivePatches, Reject(p) \/ BeginLivePatch(p) PROVE HeldInv'
  BY <1>1, SameHeld, BeginHolds DEF Reject
<1>2. ASSUME NEW ok \in BOOLEAN,
             SetBitrate(ok) \/ SetSender(ok) \/ SetEncoder(ok) \/ SetReceiver(ok)
      PROVE  HeldInv'
  BY <1>2, SetBitrateHolds, SetSenderHolds, SetEncoderHolds, SetReceiverHolds
<1>3. ASSUME NEW ok \in BOOLEAN, UndoEncoder(ok) \/ UndoSender(ok) \/ UndoBitrate(ok)
      PROVE  HeldInv'
  BY <1>3, UndoEncoderHolds, UndoSenderHolds, UndoBitrateHolds
<1>4. CASE Attach
  BY <1>4, AttachHolds
<1>5. CASE DropSource
  BY <1>5, DropSourceHolds
<1>6. CASE UNCHANGED vars
  BY <1>6, SameHeld DEF vars
<1> QED
  BY <1>1, <1>2, <1>3, <1>4, <1>5, <1>6 DEF Next

\* Between two patches every attached object holds what the backend reports,
\* whichever setters and undos of earlier patches failed and however often the
\* objects were attached again: CastTuningController::ApplyLivePatch over the four
\* Apply* and three Set* of WebRtcCastTuningBackend.
THEOREM ObjectsHoldSettings == Spec => []SettingsInForce
<1>1. HeldInv => SettingsInForce
  BY DEF HeldInv, Held, SenderProgress, Sent, SettingsInForce
<1> QED
  BY InitIInv, NextIInv, InitHeld, NextHeld, <1>1, PTL DEF Spec
===============================================================================
