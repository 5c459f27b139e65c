----------------------------- MODULE RuntimeMaxQp -----------------------------
(***************************************************************************)
(* The runtime QP cap: RTCCastTuningEncoderRuntimeState of RTCCastTuning.mm *)
(* between the thread that requests caps, the encoders of one factory with *)
(* the hooks of cast_tuning_hooks.patch, and VideoToolbox's output thread. *)
(*                                                                         *)
(* A step is one critical section of the runtime state's lock, or one call *)
(* of VideoToolbox.  A VideoToolbox session is external: it holds the      *)
(* property MaxAllowedFrameQP, which after it was told a cap may be that   *)
(* cap or another number, and which is what it answers when it is asked;   *)
(* its bitstream obeys the property as it was before its first frame       *)
(* (2026-07-16-runtime-max-qp-design.md:89-91).                            *)
(***************************************************************************)
EXTENDS Integers

CONSTANTS
    Encoders,       \* encoders created by the factory
    Caps,           \* the caps requested
    Held,           \* what a session may hold once it was told a cap
    InitialCap,     \* encoder.max_qp of the configuration, or NoCap
    Slots,          \* frames VideoToolbox can hold
    MaxGeneration,  \* bound on the requests
    MaxSequence,    \* bound on sessions opened for another reason than a cap
    MaxCount        \* the frame counters saturate here

NoCap == -1
NoSession == <<>>

ASSUME CapsTyped ==
    /\ Caps \subseteq 0..51 /\ InitialCap \in Caps \cup {NoCap}
    /\ Held \subseteq Int
    /\ MaxGeneration \in Nat /\ MaxSequence \in Nat /\ MaxCount \in Nat

VARIABLES
    runtime,   \* RTCCastTuningEncoderRuntimeState
    encoder,   \* the members of each RTCVideoEncoderH264, and its locals
    vt,        \* the compression session of each encoder
    frame      \* what VideoToolbox holds in each slot

vars == <<runtime, encoder, vt, frame>>

NoFrame == [session |-> NoSession]
NoEvent == [type |-> "none", session |-> NoSession, generation |-> 0]
NoCounts == [submitted |-> 0, encoded |-> 0, dropped |-> 0]
\* A session was told a cap, holds one, and encodes under one once it has started.
Closed == [open |-> FALSE, told |-> NoCap, cap |-> NoCap,
           started |-> FALSE, in_force |-> NoCap]

\* encoder_session_id
SessionId(e) == <<e, encoder[e].sequence>>

Init ==
    /\ runtime = [ requested |-> InitialCap, effective |-> NoCap,
                   state |-> IF InitialCap = NoCap THEN "not_requested"
                                                   ELSE "pending",
                   generation |-> IF InitialCap = NoCap THEN 0 ELSE 1,
                   applied_session |-> NoSession,
                   last_encoded_qp |-> NoCap, sample_generation |-> 0,
                   sample_session |-> NoSession,
                   telemetry_session |-> NoSession, counts |-> NoCounts ]
    /\ encoder = [e \in Encoders |->
                    [ pc |-> "released", sequence |-> 0, last_applied |-> 0,
                      request |-> [generation |-> 0, cap |-> NoCap],
                      event |-> NoEvent ]]
    /\ vt = [e \in Encoders |-> Closed]
    /\ frame = [s \in Slots |-> NoFrame]

-----------------------------------------------------------------------------
(* The runtime state.                                                       *)

\* A request that keeps the generation.
RequestedSilently(r, cap) ==
    [r EXCEPT !.requested = cap, !.effective = NoCap, !.state = "pending",
              !.applied_session = NoSession, !.last_encoded_qp = NoCap,
              !.sample_generation = 0, !.sample_session = NoSession,
              !.telemetry_session = NoSession, !.counts = NoCounts]
Requested(r, cap) ==
    [r EXCEPT !.requested = cap, !.effective = NoCap, !.state = "pending",
              !.applied_session = NoSession, !.last_encoded_qp = NoCap,
              !.sample_generation = 0, !.sample_session = NoSession,
              !.telemetry_session = NoSession, !.counts = NoCounts,
              !.generation = @ + 1]

RequestMaxQp(cap) ==
    /\ runtime.generation < MaxGeneration
    /\ runtime' = Requested(runtime, cap)
    /\ UNCHANGED <<encoder, vt, frame>>

Increment(n) == IF n < MaxCount THEN n + 1 ELSE n

\* The counters belong to one session.
ForSession(r, session) ==
    IF r.telemetry_session = session THEN r
    ELSE [r EXCEPT !.telemetry_session = session, !.counts = NoCounts]

\* A check against the session alone.
NotStale(r, event) == event.session # NoSession
Current(r, event) ==
    event.generation = r.generation /\ event.session # NoSession

\* The reports that answer a request.
Answered(r, event) ==
    IF event.type = "applied"
    THEN [r EXCEPT !.effective = event.effective, !.state = "applied",
                   !.applied_session = event.session]
    ELSE [r EXCEPT !.state = event.type, !.applied_session = NoSession]

Sampled(r, event) ==
    IF r.state = "applied" /\ event.session # r.applied_session THEN r
    ELSE [r EXCEPT !.counts.encoded = Increment(@),
                   !.last_encoded_qp = event.qp,
                   !.sample_generation = r.generation,
                   !.sample_session = event.session]

Counted(r, event) ==
    CASE event.type = "submitted" -> [r EXCEPT !.counts.submitted = Increment(@)]
      [] event.type = "dropped"   -> [r EXCEPT !.counts.dropped = Increment(@)]
      [] event.type = "encoded"   -> Sampled(r, event)
      [] OTHER                    -> Answered(r, event)

\* recordEncoderEvent
Recorded(r, event) ==
    IF Current(r, event) THEN Counted(ForSession(r, event.session), event) ELSE r

-----------------------------------------------------------------------------
(* Sessions.  `created' is what VTCompressionSessionCreate answers.         *)

\* A reset that forgets that the new session has no cap yet.
ResetSessionKeepingCap(e, pc, created) ==
    /\ encoder' = [encoder EXCEPT ![e].sequence = @ + 1, ![e].pc = pc]
    /\ vt' = [vt EXCEPT ![e] = [Closed EXCEPT !.open = created]]
\* resetCompressionSessionWithPixelFormat
ResetSession(e, pc, created) ==
    /\ encoder' = [encoder EXCEPT ![e].sequence = @ + 1, ![e].pc = pc,
                                  ![e].last_applied = 0]
    /\ vt' = [vt EXCEPT ![e] = [Closed EXCEPT !.open = created]]

MayReset(e) == encoder[e].sequence < MaxSequence

Goto(e, pc) == encoder' = [encoder EXCEPT ![e].pc = pc]

\* startEncodeWithSettings, on an encoder that was released or not.
StartEncode(e) ==
    /\ encoder[e].pc \in {"released", "idle"} /\ MayReset(e)
    /\ \E created \in BOOLEAN : ResetSession(e, "idle", created)
    /\ UNCHANGED <<runtime, frame>>

ReleaseEncoder(e) ==
    /\ encoder[e].pc = "idle"
    /\ Goto(e, "released")
    /\ vt' = [vt EXCEPT ![e] = Closed]
    /\ UNCHANGED <<runtime, frame>>

-----------------------------------------------------------------------------
(* encode:, one frame.                                                      *)

\* An encoder without a session answers UNINITIALIZED and does nothing.  A
\* frame in another pixel format resets the session, whose status is ignored.
Encode(e) ==
    /\ encoder[e].pc = "idle" /\ vt[e].open
    /\ \/ Goto(e, "check") /\ UNCHANGED vt
       \/ MayReset(e) /\ \E created \in BOOLEAN : ResetSession(e, "check", created)
    /\ UNCHANGED <<runtime, frame>>

\* resetCompressionSessionForRuntimeMaxQpIfNeeded
CheckReset(e) ==
    /\ encoder[e].pc = "check"
    /\ IF encoder[e].last_applied \in {0, runtime.generation}
       THEN Goto(e, "apply") /\ UNCHANGED vt
       ELSE \/ ResetSession(e, "apply", TRUE)
            \/ ResetSession(e, "idle", FALSE)
    /\ UNCHANGED <<runtime, frame>>

\* What setting and reading back the property can come to: the report, and what
\* the session was told and holds afterwards.  A session that was told the cap holds
\* it or another number, and whichever number is read back is reported as applied.
Untold(e, type) == [type |-> type, told |-> vt[e].told, property |-> vt[e].cap]
Told(type, cap, property) == [type |-> type, told |-> cap, property |-> property]
Outcomes(e, cap) ==
    {Untold(e, type) : type \in {"unsupported", "failed"}}
    \cup {Told(type, cap, property) : type \in {"failed", "applied"}, property \in Held}

\* applyPendingCastTuningMaxQp, up to the report.
ApplyPending(e) ==
    /\ encoder[e].pc = "apply"
    /\ LET generation == runtime.generation
           cap == runtime.requested
           request == IF vt[e].open THEN [generation |-> generation, cap |-> cap]
                      ELSE [generation |-> 0, cap |-> NoCap]
       IN  IF ~vt[e].open \/ cap = NoCap \/ generation = encoder[e].last_applied
           THEN /\ encoder' = [encoder EXCEPT ![e].pc = "submit",
                                              ![e].request = request]
                /\ UNCHANGED vt
           ELSE \E outcome \in Outcomes(e, cap) :
                /\ vt' = [vt EXCEPT ![e].told = outcome.told,
                                    ![e].cap = outcome.property]
                /\ encoder' = [encoder EXCEPT
                     ![e].pc = "report", ![e].request = request,
                     ![e].last_applied = generation,
                     ![e].event = [type |-> outcome.type, requested |-> cap,
                                   effective |-> outcome.property,
                                   generation |-> generation,
                                   session |-> SessionId(e)]]
    /\ UNCHANGED <<runtime, frame>>

ReportOutcome(e) ==
    /\ encoder[e].pc = "report"
    /\ runtime' = Recorded(runtime, encoder[e].event)
    /\ Goto(e, "submit")
    /\ UNCHANGED <<vt, frame>>

\* VTCompressionSessionEncodeFrame.  An invalid session is reset and the frame
\* is lost; its status is ignored.
Submit(e) ==
    /\ encoder[e].pc = "submit"
    /\ \/ /\ vt[e].open
          /\ LET in_force == IF vt[e].started THEN vt[e].in_force ELSE vt[e].cap
             IN  /\ vt' = [vt EXCEPT ![e].started = TRUE, ![e].in_force = in_force]
                 /\ \E s \in Slots :
                      /\ frame[s] = NoFrame
                      /\ frame' = [frame EXCEPT ![s] =
                           [ session |-> SessionId(e), cap |-> in_force,
                             generation |-> encoder[e].request.generation ]]
          /\ Goto(e, "submitted")
       \/ Goto(e, "idle") /\ UNCHANGED <<vt, frame>>
       \/ /\ MayReset(e)
          /\ \E created \in BOOLEAN : ResetSession(e, "idle", created)
          /\ UNCHANGED frame
    /\ UNCHANGED runtime

ReportSubmitted(e) ==
    /\ encoder[e].pc = "submitted"
    /\ runtime' = Recorded(runtime,
                    [type |-> "submitted", session |-> SessionId(e),
                     generation |-> encoder[e].request.generation])
    /\ Goto(e, "idle")
    /\ UNCHANGED <<vt, frame>>

EncodeStep(e) ==
    \/ Encode(e) \/ CheckReset(e) \/ ApplyPending(e) \/ ReportOutcome(e)
    \/ Submit(e) \/ ReportSubmitted(e)

\* compressionOutputCallback on VideoToolbox's thread: the frame was encoded,
\* with the QP its session's cap allows, was dropped, or failed without a
\* report.  The callback of a frame may come after its session was replaced.
Output(s) ==
    /\ frame[s] # NoFrame
    /\ \/ \E type \in {"encoded", "dropped"} :
            runtime' = Recorded(runtime,
                         [type |-> type, qp |-> frame[s].cap,
                          session |-> frame[s].session,
                          generation |-> frame[s].generation])
       \/ UNCHANGED runtime
    /\ frame' = [frame EXCEPT ![s] = NoFrame]
    /\ UNCHANGED <<encoder, vt>>

Next ==
    \/ \E cap \in Caps : RequestMaxQp(cap)
    \/ \E e \in Encoders : StartEncode(e) \/ ReleaseEncoder(e) \/ EncodeStep(e)
    \/ \E s \in Slots : Output(s)

Spec == Init /\ [][Next]_vars

\* Frames keep coming to an encoder that has a session, its thread runs, and
\* VideoToolbox gives back every frame.
FairSpec ==
    /\ Spec
    /\ \A e \in Encoders : WF_vars(EncodeStep(e))
    /\ \A s \in Slots : WF_vars(Output(s))
-----------------------------------------------------------------------------
(* Properties.                                                              *)

\* "Hardware effect is reported separately", "effective max QP read back from
\* VideoToolbox" (2026-07-16-runtime-max-qp-design.md:77,83): while the session that
\* is named as the applied one lives, it was told the cap of the newest request, in
\* answer to that request, and holds what is shown as effective.  Reports are late,
\* requests overtake them, sessions are replaced under way.  That the number held is
\* the one requested is not said: nothing compares them (cast_tuning_hooks.patch:
\* 978-986).
AppliedMeansSet ==
    runtime.state = "applied" =>
       \A e \in Encoders :
          vt[e].open /\ SessionId(e) = runtime.applied_session =>
             /\ vt[e].told = runtime.requested /\ vt[e].cap = runtime.effective
             /\ encoder[e].last_applied = runtime.generation

\* "This keeps the change ordered before the first frame carrying its
\* generation" (cast_tuning_hooks.patch:696-697): no frame is submitted before
\* its session has been asked for the cap of the frame's generation, also when the
\* session was replaced, for whatever reason, after an older one was asked; and if
\* the answer is "applied", this session was told that cap and holds the answer's.
NoFrameBeforeItsCap ==
    \A e \in Encoders :
       LET answer == encoder[e].event
       IN  /\ encoder[e].pc \in {"submit", "submitted"}
           /\ vt[e].open /\ encoder[e].request.cap # NoCap
           => /\ answer.session = SessionId(e)
              /\ answer.generation = encoder[e].request.generation
              /\ answer.type = "applied" => /\ vt[e].told = encoder[e].request.cap
                                            /\ vt[e].cap = answer.effective

\* 2026-07-16-runtime-max-qp-design.md:137-141: a request does not stay
\* pending: it is answered or overtaken, or an encoder has no session to
\* answer with.
RequestsAnswered ==
    \A e \in Encoders :
       runtime.state = "pending" ~> runtime.state # "pending" \/ ~vt[e].open

-----------------------------------------------------------------------------
(* A statement of the documents which TLC refutes, see the README.          *)

\* 2026-07-16-runtime-max-qp-design.md:116-117: the cap is set "before the
\* replacement session's first frame", so a sample of the applied session and
\* the current generation was encoded under the effective cap.
SampleUnderEffectiveCap ==
    /\ runtime.state = "applied"
    /\ runtime.sample_generation = runtime.generation
    /\ runtime.sample_session = runtime.applied_session
    => runtime.last_encoded_qp = runtime.effective
================================================================================
