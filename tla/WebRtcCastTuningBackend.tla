----------------------- MODULE WebRtcCastTuningBackend -----------------------
(***************************************************************************)
(* webrtc_cast_tuning_backend.{h,cc}: the backend that carries the live    *)
(* settings into a PeerConnection, an RtpSender with its track and source, *)
(* an RtpReceiver and the encoder runtime.                                 *)
(*                                                                         *)
(* state_ is what the backend believes to be in force.  The other          *)
(* variables are the attached objects, and what each one really holds.     *)
(* An Apply operator is one call of the backend; its second argument is    *)
(* the bool that call returns.                                             *)
(***************************************************************************)
EXTENDS CastTuningConfig

BitrateFields  == {"min_bitrate_bps", "max_bitrate_bps"}
OutputFields   == {"max_width", "max_height", "max_fps"}
SenderFields   == OutputFields \cup {"content_mode", "degradation_preference",
                                     "network_priority"}
ReceiverFields == {"jitter_minimum_ms", "stale_decoded_frame_ms"}
StateFields    == BitrateFields \cup SenderFields \cup ReceiverFields
                  \cup {"start_bitrate_bps", "max_qp"}
\* The members of RtpParameters that ApplySender writes.
EncodingFields == BitrateFields \cup {"max_fps", "network_priority",
                                      "degradation_preference"}

VARIABLES
    state_,                     \* BackendState, 0 is "unset"
    hasInitial,                 \* the has_initial_*_config_ that are true
    last_initial_apply_error_,  \* some initial apply failed
    peer, bwe, seeds,           \* PeerConnection: attached, SetBitrate bounds,
                                \*   number of estimates seeded (up to 2)
    sender, encoding,           \* RtpSender: attached, its RtpParameters
    track, hint,                \* VideoTrack: attached, its content hint
    source, output,             \* video source adapter and its output format
    receiver, delay,            \* RtpReceiver: attached, its minimum delay
    adapter, cap                \* encoder runtime adapter, the QP cap requested

peerVars     == <<peer, bwe, seeds>>
senderVars   == <<sender, encoding, track, hint, source, output>>
receiverVars == <<receiver, delay>>
encoderVars  == <<adapter, cap>>
backendVars  == <<state_, hasInitial, last_initial_apply_error_,
                  peerVars, senderVars, receiverVars, encoderVars>>

\* What the attached objects hold.
InForce == [bwe |-> bwe, encoding |-> encoding, hint |-> hint,
            output |-> output, delay |-> delay, cap |-> cap]

NoCap == -1
Zero(fields) == [f \in fields |-> 0]

BackendState(c) == [f \in StateFields |-> ValueOr(c, f, 0)]

InitialConfigs(c) ==
    LET bitrate == DOMAIN c.set \cap (BitrateFields \cup {"start_bitrate_bps"})
    IN  {part \in {"bitrate", "sender", "receiver"} :
           CASE part = "bitrate" -> bitrate # {}
             [] part = "sender"  -> bitrate # {} \/ DOMAIN c.set \cap SenderFields # {}
             [] OTHER            -> Has(c, "jitter_minimum_ms")}

\* The constructor.  The runtime state behind the adapter starts with the
\* configured cap.
BackendInit(c) ==
    /\ state_ = BackendState(c)
    /\ hasInitial = InitialConfigs(c)
    /\ last_initial_apply_error_ = FALSE
    /\ peer = FALSE /\ bwe = Zero(BitrateFields) /\ seeds = 0
    /\ sender = FALSE /\ encoding = Zero(EncodingFields)
    /\ track = FALSE /\ hint = kUnspecified
    /\ source = "none" /\ output = Zero(OutputFields)
    /\ receiver = FALSE /\ delay = 0
    /\ adapter \in BOOLEAN
    /\ cap = ValueOr(c, "max_qp", NoCap)

\* state_ with the fields of one setter taken from s.
Adopt(s, fields) ==
    [f \in StateFields |-> IF f \in fields THEN s[f] ELSE state_[f]]

-----------------------------------------------------------------------------
(* The four setters.                                                       *)

ApplyBitrate(s, ok) ==
    \/ /\ ~peer
       /\ ok = \A f \in BitrateFields : s[f] = state_[f]
       /\ UNCHANGED <<state_, peerVars>>
    \/ /\ peer /\ ~ok                              \* SetBitrate failed
       /\ UNCHANGED <<state_, peerVars>>
    \/ /\ peer /\ ok
       /\ bwe' = [f \in BitrateFields |-> s[f]]
       /\ seeds' = IF s["start_bitrate_bps"] > 0 /\ seeds < 2
                   THEN seeds + 1 ELSE seeds
       /\ state_' = [Adopt(s, BitrateFields) EXCEPT !["start_bitrate_bps"] = 0]
       /\ UNCHANGED peer

\* SetParameters and the content hint come before AdaptOutput, which fails
\* when the source behind the adapter has been released.
ApplySender(s, ok) ==
    \/ /\ ~sender
       /\ ok = \A f \in SenderFields \ {"network_priority"} : s[f] = state_[f]
       /\ UNCHANGED <<state_, senderVars>>
    \/ /\ sender /\ ~ok                \* no encodings, or SetParameters failed
       /\ UNCHANGED <<state_, senderVars>>
    \/ /\ sender
       /\ encoding' = [f \in EncodingFields |->
                          IF s[f] > 0 THEN s[f] ELSE encoding[f]]
       /\ hint' = IF track /\ s["content_mode"] # kUnspecified
                  THEN s["content_mode"] ELSE hint
       /\ LET adapts == source # "none" /\ \E f \in OutputFields : s[f] > 0
          IN  /\ ok = (adapts => source = "live")
              /\ output' = IF adapts /\ ok THEN [f \in OutputFields |-> s[f]]
                                           ELSE output
       /\ state_' = IF ok THEN Adopt(s, SenderFields) ELSE state_
       /\ UNCHANGED <<sender, track, source>>

ApplyEncoder(s, ok) ==
    \/ /\ s["max_qp"] = state_["max_qp"] /\ ok
       /\ UNCHANGED <<state_, encoderVars>>
    \/ /\ s["max_qp"] # state_["max_qp"] /\ ~ok    \* no adapter, or it refused
       /\ UNCHANGED <<state_, encoderVars>>
    \/ /\ s["max_qp"] # state_["max_qp"] /\ adapter /\ ok
       /\ cap' = s["max_qp"]
       /\ state_' = Adopt(s, {"max_qp"})
       /\ UNCHANGED adapter

\* A setter that takes a delay of 0 for "not configured", as the bitrate and
\* sender setters do.
ApplyReceiverSkipsZero(s, ok) ==
    /\ receiver /\ ok
    /\ delay' = IF s["jitter_minimum_ms"] > 0 THEN s["jitter_minimum_ms"]
                                              ELSE delay
    /\ state_' = Adopt(s, ReceiverFields)
    /\ UNCHANGED receiver

ApplyReceiver(s, ok) ==
    \/ /\ ~receiver
       /\ ok = (s["jitter_minimum_ms"] = state_["jitter_minimum_ms"])
       /\ state_' = IF ok THEN Adopt(s, {"stale_decoded_frame_ms"}) ELSE state_
       /\ UNCHANGED receiverVars
    \/ /\ receiver /\ ok
       /\ delay' = s["jitter_minimum_ms"]
       /\ state_' = Adopt(s, ReceiverFields)
       /\ UNCHANGED receiver

-----------------------------------------------------------------------------
(* Attaching an object, and the initial apply that follows it.  `same' is   *)
(* a second attach of the object attached before; otherwise it is new.      *)

RecordInitialApplyResult(ok) ==
    last_initial_apply_error_' = (last_initial_apply_error_ \/ ~ok)

AttachPeerConnection(same, ok) ==
    /\ same => peer
    /\ peer' = TRUE
    /\ LET oldBwe   == IF same THEN bwe ELSE Zero(BitrateFields)
           oldSeeds == IF same THEN seeds ELSE 0
       IN  IF "bitrate" \in hasInitial /\ ok
           THEN /\ bwe' = [f \in BitrateFields |-> state_[f]]
                /\ seeds' = IF state_["start_bitrate_bps"] > 0 /\ oldSeeds < 2
                            THEN oldSeeds + 1 ELSE oldSeeds
                /\ state_' = [state_ EXCEPT !["start_bitrate_bps"] = 0]
           ELSE bwe' = oldBwe /\ seeds' = oldSeeds /\ UNCHANGED state_
    /\ RecordInitialApplyResult("bitrate" \in hasInitial => ok)
    /\ UNCHANGED <<hasInitial, senderVars, receiverVars, encoderVars>>

\* The initial apply writes state_ into the objects attached, so it leaves
\* state_ itself as it was.
AttachSender(same, withTrack, withSource, ok) ==
    /\ same => sender
    /\ sender' = TRUE
    /\ track' = withTrack
    /\ source' = IF withSource THEN "live" ELSE "none"
    /\ LET applied     == "sender" \in hasInitial /\ ok
           oldEncoding == IF same THEN encoding ELSE Zero(EncodingFields)
           oldHint     == IF same /\ withTrack THEN hint ELSE kUnspecified
           oldOutput   == IF same /\ withSource THEN output ELSE Zero(OutputFields)
       IN  /\ encoding' = [f \in EncodingFields |->
                             IF applied /\ state_[f] > 0 THEN state_[f]
                                                         ELSE oldEncoding[f]]
           /\ hint' = IF applied /\ withTrack
                         /\ state_["content_mode"] # kUnspecified
                      THEN state_["content_mode"] ELSE oldHint
           /\ output' = IF applied /\ withSource
                           /\ \E f \in OutputFields : state_[f] > 0
                        THEN [f \in OutputFields |-> state_[f]]
                        ELSE oldOutput
    /\ RecordInitialApplyResult("sender" \in hasInitial => ok)
    /\ UNCHANGED <<state_, hasInitial, peerVars, receiverVars, encoderVars>>

\* SetJitterBufferMinimumDelay returns nothing: this apply cannot fail.
AttachReceiver(same) ==
    /\ same => receiver
    /\ receiver' = TRUE
    /\ delay' = IF "receiver" \in hasInitial THEN state_["jitter_minimum_ms"]
                ELSE IF same THEN delay ELSE 0
    /\ UNCHANGED <<state_, hasInitial, last_initial_apply_error_,
                   peerVars, senderVars, encoderVars>>

\* The application drops its RTCVideoSource; the adapter holds it weakly.
ReleaseSource ==
    /\ source = "live"
    /\ source' = "released"
    /\ UNCHANGED <<state_, hasInitial, last_initial_apply_error_, peerVars,
                   sender, encoding, track, hint, output, receiverVars,
                   encoderVars>>

-----------------------------------------------------------------------------
BackendTypeOK ==
    /\ state_ \in [StateFields -> Nat]
    /\ hasInitial \subseteq {"bitrate", "sender", "receiver"}
    /\ last_initial_apply_error_ \in BOOLEAN
    /\ peer \in BOOLEAN /\ bwe \in [BitrateFields -> Nat] /\ seeds \in 0..2
    /\ sender \in BOOLEAN /\ encoding \in [EncodingFields -> Nat]
    /\ track \in BOOLEAN /\ hint \in Nat
    /\ source \in {"none", "live", "released"}
    /\ output \in [OutputFields -> Nat]
    /\ receiver \in BOOLEAN /\ delay \in Nat
    /\ adapter \in BOOLEAN /\ cap \in Nat \cup {NoCap}
=============================================================================
