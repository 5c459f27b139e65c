-------------------------- MODULE RuntimeMaxQpProofs --------------------------
(***************************************************************************)
(* Theorems about RuntimeMaxQp for every number of encoders, requests,     *)
(* sessions and frames, any caps, and whatever a session holds once it was *)
(* told one: that "applied" is said only of a session that was told the    *)
(* newest cap and holds what is shown as effective, and that no frame is   *)
(* submitted before its session was asked for the cap of its generation.   *)
(*                                                                         *)
(* Both rest on what an encoder remembers of its last answer (Answers):    *)
(* it is about this session or an older one, about this generation or an   *)
(* older one, and if about this generation, then about the requested cap.  *)
(***************************************************************************)
EXTENDS RuntimeMaxQp, TLAPS

Counters == [submitted : Int, encoded : Int, dropped : Int]
RuntimeStates ==
    [ requested : Int, effective : Int,
      state : {"not_requested", "pending", "unsupported", "failed", "applied"},
      generation : Nat, applied_session : (Encoders \X Nat) \cup {NoSession},
      last_encoded_qp : Int, sample_generation : Int,
      sample_session : (Encoders \X Nat) \cup {NoSession},
      telemetry_session : (Encoders \X Nat) \cup {NoSession},
      counts : Counters ]

AnswerTypes == {"unsupported", "failed", "applied"}
\* The reports of applyPendingCastTuningMaxQp.
AnswerEvents == [type : AnswerTypes, requested : Int, effective : Int,
                 generation : Nat, session : Encoders \X Nat]
Steps == {"released", "idle", "check", "apply", "report", "submit", "submitted"}
Requests == [generation : Nat, cap : Int]
EncoderStates ==
    [ pc : Steps, sequence : Nat, last_applied : Nat,
      request : Requests,
      event : AnswerEvents \cup {NoEvent} ]
SessionStates == [open : BOOLEAN, told : Int, cap : Int,
                  started : BOOLEAN, in_force : Int]
Frames == [session : Encoders \X Nat, cap : Int, generation : Nat]

Typed ==
    /\ runtime \in RuntimeStates
    /\ encoder \in [Encoders -> EncoderStates]
    /\ vt \in [Encoders -> SessionStates]
    /\ frame \in [Slots -> Frames \cup {NoFrame}]

\* Generation 0 is that of no request.
Unrequested == runtime.generation = 0 => runtime.requested = NoCap

\* What the last answer of an encoder is about.
Answers(e) ==
    LET answer == encoder[e].event
    IN  answer # NoEvent =>
          /\ answer.session[1] = e /\ answer.session[2] <= encoder[e].sequence
          /\ answer.generation <= runtime.generation
          /\ answer.generation = runtime.generation =>
                answer.requested = runtime.requested
          /\ answer.session = SessionId(e) /\ vt[e].open /\ answer.type = "applied"
                => vt[e].told = answer.requested /\ vt[e].cap = answer.effective

\* Which answer there has to be, in this session.
ToldItsCap(e) ==
    LET answer == encoder[e].event
        told(generation) == /\ answer # NoEvent
                            /\ answer.session = SessionId(e)
                            /\ answer.generation = generation
    IN  /\ encoder[e].last_applied # 0 => told(encoder[e].last_applied)
        /\ encoder[e].pc = "report" => told(encoder[e].last_applied)
        /\ encoder[e].pc \in {"report", "submit", "submitted"}
           /\ vt[e].open /\ encoder[e].request.cap # NoCap
           => /\ told(encoder[e].request.generation)
              /\ answer.requested = encoder[e].request.cap

\* A session that was said to have the cap is not one that is still to come.
AppliedBefore ==
    runtime.applied_session # NoSession =>
        runtime.applied_session[2] <=
            encoder[runtime.applied_session[1]].sequence

IInv ==
    /\ Typed /\ Unrequested /\ AppliedBefore /\ AppliedMeansSet
    /\ \A e \in Encoders : Answers(e) /\ ToldItsCap(e)

-----------------------------------------------------------------------------
(* Lemmas about the operators.                                              *)

\* A session is named by its encoder and its number.
LEMMA SessionNamed ==
    ASSUME NEW e \in Encoders, NEW n \in Nat
    PROVE  /\ <<e, n>> \in Encoders \X Nat /\ <<e, n>> # NoSession
           /\ <<e, n>>[1] = e /\ <<e, n>>[2] = n
BY DEF NoSession

\* An answer tells its type from the absence of one.
LEMMA AnswersDiffer ==
    ASSUME NEW event \in AnswerEvents PROVE event # NoEvent
<1>1. event.type \in AnswerTypes
    BY DEF AnswerEvents
<1>2. NoEvent.type \notin AnswerTypes
    BY DEF NoEvent, AnswerTypes
<1> QED BY <1>1, <1>2

\* The counters start again with another session, and nothing else changes.
LEMMA ForSessionKeeps ==
    ASSUME NEW r \in RuntimeStates, NEW session \in Encoders \X Nat
    PROVE  /\ ForSession(r, session) \in RuntimeStates
           /\ ForSession(r, session).requested = r.requested
           /\ ForSession(r, session).generation = r.generation
           /\ ForSession(r, session).state = r.state
           /\ ForSession(r, session).effective = r.effective
           /\ ForSession(r, session).applied_session = r.applied_session
<1>1. NoCounts \in Counters
    BY DEF NoCounts, Counters
<1> QED BY <1>1 DEF ForSession, RuntimeStates

\* What is reported of a frame says nothing of the cap.
LEMMA FrameReportKeeps ==
    ASSUME NEW r \in RuntimeStates, NEW event,
           event.type \in {"submitted", "dropped", "encoded"},
           event.session \in Encoders \X Nat,
           event.type = "encoded" => event.qp \in Int
    PROVE  /\ Recorded(r, event) \in RuntimeStates
           /\ Recorded(r, event).requested = r.requested
           /\ Recorded(r, event).generation = r.generation
           /\ Recorded(r, event).state = r.state
           /\ Recorded(r, event).effective = r.effective
           /\ Recorded(r, event).applied_session = r.applied_session
<1> DEFINE s == ForSession(r, event.session)
<1>1. /\ s \in RuntimeStates /\ s.requested = r.requested
      /\ s.generation = r.generation /\ s.state = r.state
      /\ s.effective = r.effective /\ s.applied_session = r.applied_session
    BY ForSessionKeeps
<1> HIDE DEF s
<1>2. \A n \in Int : Increment(n) \in Int
    BY CapsTyped DEF Increment
<1>3. s.counts \in Counters
    BY <1>1 DEF RuntimeStates
<1>4. CASE event.type \in {"submitted", "dropped"}
  <2>1. PICK k \in Counters : Counted(s, event) = [s EXCEPT !.counts = k]
    <3>1. CASE event.type = "submitted"
      <4>1. Counted(s, event) = [s EXCEPT !.counts = [s.counts EXCEPT !.submitted = Increment(s.counts.submitted)]]
          BY <1>1, <1>3, <3>1 DEF Counted, RuntimeStates, Counters
      <4>2. [s.counts EXCEPT !.submitted = Increment(s.counts.submitted)] \in Counters
          BY <1>2, <1>3 DEF Counters
      <4> QED BY <4>1, <4>2
    <3>2. CASE event.type = "dropped"
      <4>1. Counted(s, event) = [s EXCEPT !.counts = [s.counts EXCEPT !.dropped = Increment(s.counts.dropped)]]
          BY <1>1, <1>3, <3>2 DEF Counted, RuntimeStates, Counters
      <4>2. [s.counts EXCEPT !.dropped = Increment(s.counts.dropped)] \in Counters
          BY <1>2, <1>3 DEF Counters
      <4> QED BY <4>1, <4>2
    <3> QED BY <1>4, <3>1, <3>2
  <2>2. /\ Counted(s, event) \in RuntimeStates
        /\ Counted(s, event).requested = s.requested
        /\ Counted(s, event).generation = s.generation
        /\ Counted(s, event).state = s.state
        /\ Counted(s, event).effective = s.effective
        /\ Counted(s, event).applied_session = s.applied_session
      BY <1>1, <2>1 DEF RuntimeStates
  <2> QED BY <1>1, <2>2 DEF Recorded, s
<1>5. CASE event.type = "encoded"
  <2>1. Counted(s, event) = Sampled(s, event)
      BY <1>5 DEF Counted
  <2>2. CASE s.state = "applied" /\ event.session # s.applied_session
    <3>1. Counted(s, event) = s
        BY <2>1, <2>2 DEF Sampled
    <3> QED BY <1>1, <3>1 DEF Recorded, s
  <2>3. CASE ~(s.state = "applied" /\ event.session # s.applied_session)
    <3> DEFINE k == [s.counts EXCEPT !.encoded = Increment(s.counts.encoded)]
    <3>1. k \in Counters
        BY <1>2, <1>3 DEF Counters
    <3>2. Counted(s, event) = [s EXCEPT !.counts = k, !.last_encoded_qp = event.qp,
                                        !.sample_generation = s.generation,
                                        !.sample_session = event.session]
        BY <1>1, <1>3, <2>1, <2>3 DEF Sampled, RuntimeStates, Counters
    <3> HIDE DEF k
    <3>3. event.qp \in Int /\ s.generation \in Int
        BY <1>1, <1>5 DEF RuntimeStates
    <3>4. /\ Counted(s, event) \in RuntimeStates
          /\ Counted(s, event).requested = s.requested
          /\ Counted(s, event).generation = s.generation
          /\ Counted(s, event).state = s.state
          /\ Counted(s, event).effective = s.effective
          /\ Counted(s, event).applied_session = s.applied_session
        BY <1>1, <3>1, <3>2, <3>3 DEF RuntimeStates
    <3> QED BY <1>1, <3>4 DEF Recorded, s
  <2> QED BY <2>2, <2>3
<1> QED BY <1>4, <1>5

\* An answer to an older request is not recorded; one to the current request is, and
\* says "applied" of what it read back and its session.
LEMMA AnswerRecorded ==
    ASSUME NEW r \in RuntimeStates, NEW event \in AnswerEvents
    PROVE  /\ Recorded(r, event) \in RuntimeStates
           /\ Recorded(r, event).requested = r.requested
           /\ Recorded(r, event).generation = r.generation
           /\ \/ Recorded(r, event) = r
              \/ /\ event.generation = r.generation
                 /\ event.type # "applied" /\ Recorded(r, event).state # "applied"
                 /\ Recorded(r, event).applied_session = NoSession
              \/ /\ event.generation = r.generation
                 /\ event.type = "applied" /\ Recorded(r, event).state = "applied"
                 /\ Recorded(r, event).effective = event.effective
                 /\ Recorded(r, event).applied_session = event.session
<1> DEFINE s == ForSession(r, event.session)
<1>0. /\ event.session \in Encoders \X Nat /\ event.effective \in Int
      /\ event.type \in AnswerTypes
    BY DEF AnswerEvents
<1>1. /\ s \in RuntimeStates /\ s.requested = r.requested
      /\ s.generation = r.generation
    BY <1>0, ForSessionKeeps
<1> HIDE DEF s
<1>2. CASE ~Current(r, event)
    BY <1>2 DEF Recorded
<1>3. CASE Current(r, event)
  <2>1. Recorded(r, event) = Answered(s, event) /\ event.generation = r.generation
      BY <1>0, <1>3 DEF Recorded, Counted, Current, AnswerTypes, s
  <2>2. CASE event.type = "applied"
    <3>1. Answered(s, event) = [s EXCEPT !.effective = event.effective, !.state = "applied",
                                         !.applied_session = event.session]
        BY <2>2 DEF Answered
    <3>2. /\ Answered(s, event) \in RuntimeStates
          /\ Answered(s, event).requested = s.requested
          /\ Answered(s, event).generation = s.generation
        BY <1>0, <1>1, <3>1 DEF RuntimeStates
    <3>3. /\ Answered(s, event).effective = event.effective
          /\ Answered(s, event).state = "applied"
          /\ Answered(s, event).applied_session = event.session
        BY <1>1, <3>1 DEF RuntimeStates
    <3> QED BY <1>1, <2>1, <2>2, <3>2, <3>3
  <2>3. CASE event.type # "applied"
    <3>1. Answered(s, event) = [s EXCEPT !.state = event.type,
                                         !.applied_session = NoSession]
        BY <2>3 DEF Answered
    <3>2. /\ event.type \in {"unsupported", "failed"}
          /\ NoSession \in (Encoders \X Nat) \cup {NoSession}
        BY <1>0, <2>3 DEF AnswerTypes
    <3>3. /\ Answered(s, event) \in RuntimeStates
          /\ Answered(s, event).requested = s.requested
          /\ Answered(s, event).generation = s.generation
        BY <1>1, <3>1, <3>2 DEF RuntimeStates
    <3>4. /\ Answered(s, event).state # "applied"
          /\ Answered(s, event).applied_session = NoSession
        BY <1>1, <3>1, <3>2 DEF RuntimeStates
    <3> QED BY <1>1, <2>1, <2>3, <3>3, <3>4
  <2> QED BY <2>2, <2>3
<1> QED BY <1>2, <1>3

-----------------------------------------------------------------------------
(* What a step leaves of the invariant.                                     *)

\* The fields of an encoder and its session have their types.
LEMMA EncoderTyped ==
    ASSUME Typed, NEW e \in Encoders
    PROVE  /\ encoder[e] \in EncoderStates /\ vt[e] \in SessionStates
           /\ encoder[e].sequence \in Nat /\ encoder[e].last_applied \in Nat
           /\ encoder[e].request.generation \in Nat /\ encoder[e].request.cap \in Int
           /\ encoder[e].event # NoEvent => encoder[e].event \in AnswerEvents
           /\ runtime \in RuntimeStates /\ runtime.generation \in Nat
           /\ runtime.requested \in Int
           /\ vt[e].told \in Int /\ vt[e].cap \in Int /\ vt[e].in_force \in Int
           /\ SessionId(e) \in Encoders \X Nat /\ SessionId(e) # NoSession
           /\ SessionId(e)[1] = e /\ SessionId(e)[2] = encoder[e].sequence
<1>1. encoder[e] \in EncoderStates /\ vt[e] \in SessionStates /\ runtime \in RuntimeStates
    BY DEF Typed
<1>2. /\ encoder[e].sequence \in Nat /\ encoder[e].last_applied \in Nat
      /\ encoder[e].request \in Requests
      /\ encoder[e].event \in AnswerEvents \cup {NoEvent}
    BY <1>1 DEF EncoderStates
<1>3. /\ vt[e].told \in Int /\ vt[e].cap \in Int /\ vt[e].in_force \in Int
      /\ runtime.generation \in Nat /\ runtime.requested \in Int
    BY <1>1 DEF SessionStates, RuntimeStates
<1>4. encoder[e].request.generation \in Nat /\ encoder[e].request.cap \in Int
    BY <1>2 DEF Requests
<1>5. /\ SessionId(e) \in Encoders \X Nat /\ SessionId(e) # NoSession
      /\ SessionId(e)[1] = e /\ SessionId(e)[2] = encoder[e].sequence
    BY <1>2, SessionNamed DEF SessionId
<1> QED BY <1>1, <1>2, <1>3, <1>4, <1>5

\* What an answer is about does not change for an encoder that does not.
LEMMA SameEncoderKeeps ==
    ASSUME NEW e \in Encoders, Answers(e), ToldItsCap(e),
           encoder'[e] = encoder[e], vt'[e] = vt[e],
           runtime'.generation = runtime.generation,
           runtime'.requested = runtime.requested
    PROVE  Answers(e)' /\ ToldItsCap(e)'
<1>1. SessionId(e)' = SessionId(e)
    BY DEF SessionId
<1>2. Answers(e)'
    BY <1>1 DEF Answers
<1>3. ToldItsCap(e)'
    BY <1>1 DEF ToldItsCap
<1> QED BY <1>2, <1>3

\* Nor for an encoder that goes on without another session, request or answer.
LEMMA GotoKeeps ==
    ASSUME Typed, NEW e \in Encoders, NEW pc, Goto(e, pc),
           \A d \in Encoders : Answers(d) /\ ToldItsCap(d),
           \/ pc \in {"released", "idle", "check", "apply"}
           \/ pc \in {"submit", "submitted"}
              /\ encoder[e].pc \in {"report", "submit", "submitted"},
           vt'[e].open => vt[e].open /\ vt'[e].told = vt[e].told /\ vt'[e].cap = vt[e].cap,
           \A d \in Encoders \ {e} : vt'[d] = vt[d],
           runtime'.generation = runtime.generation,
           runtime'.requested = runtime.requested
    PROVE  /\ \A d \in Encoders :
                /\ Answers(d)' /\ ToldItsCap(d)' /\ SessionId(d)' = SessionId(d)
                /\ encoder'[d].sequence = encoder[d].sequence
                /\ encoder'[d].last_applied = encoder[d].last_applied
           /\ encoder' \in [Encoders -> EncoderStates]
<1>1. \A d \in Encoders \ {e} : encoder'[d] = encoder[d]
    BY DEF Typed, Goto
<1>2. \A d \in Encoders \ {e} : Answers(d)' /\ ToldItsCap(d)'
    BY <1>1, SameEncoderKeeps
<1>3. /\ encoder'[e].pc = pc /\ encoder'[e].sequence = encoder[e].sequence
      /\ encoder'[e].last_applied = encoder[e].last_applied
      /\ encoder'[e].request = encoder[e].request
      /\ encoder'[e].event = encoder[e].event
    BY EncoderTyped DEF Typed, Goto, EncoderStates
<1>4. SessionId(e)' = SessionId(e)
    BY <1>3 DEF SessionId
<1>5. Answers(e)'
    BY <1>3, <1>4 DEF Answers
<1>6. ToldItsCap(e)'
    BY <1>3, <1>4 DEF ToldItsCap
<1>7. encoder' \in [Encoders -> EncoderStates]
  <2>1. pc \in Steps
      BY DEF Steps
  <2>2. [encoder[e] EXCEPT !.pc = pc] \in EncoderStates
      BY <2>1, EncoderTyped DEF EncoderStates
  <2> QED BY <2>2 DEF Typed, Goto
<1>8. \A d \in Encoders : /\ SessionId(d)' = SessionId(d)
                          /\ encoder'[d].sequence = encoder[d].sequence
                          /\ encoder'[d].last_applied = encoder[d].last_applied
    BY <1>1, <1>3, <1>4 DEF SessionId
<1> QED BY <1>2, <1>5, <1>6, <1>7, <1>8

\* A step that only moves an encoder on, and may close its session.
LEMMA GotoStepKeeps ==
    ASSUME IInv, NEW e \in Encoders, NEW pc, Goto(e, pc), UNCHANGED runtime,
           \/ pc \in {"released", "idle", "check", "apply"}
           \/ pc \in {"submit", "submitted"}
              /\ encoder[e].pc \in {"report", "submit", "submitted"},
           vt'[e].open => vt[e].open /\ vt'[e].told = vt[e].told /\ vt'[e].cap = vt[e].cap,
           \A d \in Encoders \ {e} : vt'[d] = vt[d],
           vt' \in [Encoders -> SessionStates],
           frame' \in [Slots -> Frames \cup {NoFrame}]
    PROVE  IInv'
<1>1. /\ \A d \in Encoders :
            /\ Answers(d)' /\ ToldItsCap(d)' /\ SessionId(d)' = SessionId(d)
            /\ encoder'[d].sequence = encoder[d].sequence
            /\ encoder'[d].last_applied = encoder[d].last_applied
      /\ encoder' \in [Encoders -> EncoderStates]
    BY GotoKeeps DEF IInv
<1>2. Typed'
    BY <1>1 DEF IInv, Typed
<1>3. AppliedBefore'
  <2>1. runtime.applied_session # NoSession =>
            runtime.applied_session \in Encoders \X Nat
      BY DEF IInv, Typed, RuntimeStates
  <2> QED BY <1>1, <2>1 DEF IInv, AppliedBefore
<1>4. AppliedMeansSet'
  <2>1. \A d \in Encoders : vt'[d].open => /\ vt[d].open /\ vt'[d].cap = vt[d].cap
                                           /\ vt'[d].told = vt[d].told
      OBVIOUS
  <2> QED BY <1>1, <2>1 DEF IInv, AppliedMeansSet
<1> QED BY <1>1, <1>2, <1>3, <1>4 DEF IInv, Unrequested

\* A new session has another number, so no answer is about it.
LEMMA ResetKeeps ==
    ASSUME IInv, NEW e \in Encoders, NEW pc \in {"idle", "check", "apply"},
           NEW created \in BOOLEAN, ResetSession(e, pc, created),
           UNCHANGED <<runtime, frame>>
    PROVE  IInv'
<1>0. /\ Typed /\ Unrequested /\ AppliedBefore /\ AppliedMeansSet
      /\ \A d \in Encoders : Answers(d) /\ ToldItsCap(d)
    BY DEF IInv
<1> DEFINE reset == [encoder[e] EXCEPT !.sequence = encoder[e].sequence + 1,
                                       !.pc = pc, !.last_applied = 0]
           opened == [Closed EXCEPT !.open = created]
<1>1. /\ encoder' = [encoder EXCEPT ![e] = reset]
      /\ vt' = [vt EXCEPT ![e] = opened]
    BY <1>0, EncoderTyped DEF ResetSession, Typed, EncoderStates
<1>2. /\ reset \in EncoderStates /\ reset.pc = pc /\ reset.last_applied = 0
      /\ reset.sequence = encoder[e].sequence + 1
      /\ reset.event = encoder[e].event /\ reset.request = encoder[e].request
  <2>1. encoder[e] \in EncoderStates /\ encoder[e].sequence + 1 \in Nat
      BY <1>0, EncoderTyped
  <2>2. pc \in Steps
      BY DEF Steps
  <2> QED BY <2>1, <2>2 DEF EncoderStates
<1>3. opened \in SessionStates
  <2>1. /\ Closed \in SessionStates
        /\ \A session \in SessionStates, b \in BOOLEAN :
              [session EXCEPT !.open = b] \in SessionStates
      BY DEF Closed, NoCap, SessionStates
  <2> QED BY <2>1
<1> HIDE DEF reset, opened
<1>4. /\ encoder'[e] = reset /\ \A d \in Encoders \ {e} : encoder'[d] = encoder[d]
      /\ vt'[e] = opened /\ \A d \in Encoders \ {e} : vt'[d] = vt[d]
    BY <1>0, <1>1 DEF Typed
<1>5. Typed'
    BY <1>0, <1>1, <1>2, <1>3 DEF Typed
<1>6. \A d \in Encoders \ {e} : Answers(d)' /\ ToldItsCap(d)' /\ SessionId(d)' = SessionId(d)
    BY <1>0, <1>4, SameEncoderKeeps DEF SessionId
<1>7. Answers(e)' /\ ToldItsCap(e)'
  <2>1. Answers(e)'
    <3>1. CASE encoder[e].event = NoEvent
        BY <1>2, <1>4, <3>1 DEF Answers
    <3>2. CASE encoder[e].event # NoEvent
      <4> DEFINE n == encoder[e].event.session[2]
      <4>1. n \in Nat /\ n <= encoder[e].sequence /\ encoder[e].sequence \in Nat
          BY <1>0, <3>2, EncoderTyped DEF Answers, AnswerEvents
      <4>2. n # encoder[e].sequence + 1 /\ n <= encoder[e].sequence + 1
          BY <4>1
      <4>3. encoder[e].event.session # SessionId(e)'
          BY <1>2, <1>4, <4>2 DEF SessionId
      <4> QED BY <1>0, <1>2, <1>4, <3>2, <4>2, <4>3 DEF Answers
    <3> QED BY <3>1, <3>2
  <2>2. ToldItsCap(e)'
      BY <1>2, <1>4 DEF ToldItsCap
  <2> QED BY <2>1, <2>2
<1>8. AppliedBefore' /\ AppliedMeansSet'
  <2>1. runtime.applied_session # NoSession =>
            runtime.applied_session \in Encoders \X Nat
      BY <1>0 DEF Typed, RuntimeStates
  <2>2. AppliedBefore'
      BY <1>0, <1>2, <1>4, <2>1, EncoderTyped DEF AppliedBefore
  <2>3. SessionId(e)' # runtime.applied_session
    <3>1. SUFFICES ASSUME runtime.applied_session = SessionId(e)' PROVE FALSE
        OBVIOUS
    <3>2. /\ SessionId(e)'[1] = e /\ SessionId(e)'[2] = encoder[e].sequence + 1
          /\ SessionId(e)' # NoSession
        BY <1>0, <1>2, <1>4, EncoderTyped DEF SessionId, NoSession
    <3>3. encoder[e].sequence + 1 <= encoder[e].sequence
        BY <1>0, <3>1, <3>2 DEF AppliedBefore
    <3> QED BY <1>0, <3>3, EncoderTyped
  <2> QED BY <1>0, <1>4, <1>6, <2>2, <2>3 DEF AppliedMeansSet
<1> QED BY <1>0, <1>5, <1>6, <1>7, <1>8 DEF IInv, Unrequested

-----------------------------------------------------------------------------
(* The inductive invariant.                                                 *)

LEMMA InitInv == ASSUME Init PROVE IInv
<1>0. InitialCap \in Int
    BY CapsTyped DEF NoCap
<1>1. runtime \in RuntimeStates
  <2>1. NoCounts \in Counters
      BY DEF NoCounts, Counters
  <2>2. NoCap \in Int
      BY DEF NoCap
  <2> QED BY <1>0, <2>1, <2>2 DEF Init, RuntimeStates
<1>2. encoder \in [Encoders -> EncoderStates]
    BY DEF Init, EncoderStates, Steps, Requests, NoCap
<1>3. vt \in [Encoders -> SessionStates]
    BY DEF Init, SessionStates, Closed, NoCap
<1>4. frame \in [Slots -> Frames \cup {NoFrame}]
    BY DEF Init
<1>5. Unrequested /\ AppliedBefore /\ AppliedMeansSet
  <2>1. /\ runtime.generation = 0 => InitialCap = NoCap
        /\ runtime.requested = InitialCap /\ runtime.state # "applied"
        /\ runtime.applied_session = NoSession
      BY DEF Init
  <2> QED BY <2>1 DEF Unrequested, AppliedBefore, AppliedMeansSet
<1>6. ASSUME NEW e \in Encoders PROVE Answers(e) /\ ToldItsCap(e)
  <2>1. encoder[e].event = NoEvent /\ encoder[e].last_applied = 0 /\ encoder[e].pc = "released"
      BY DEF Init
  <2> QED BY <2>1 DEF Answers, ToldItsCap
<1> QED BY <1>1, <1>2, <1>3, <1>4, <1>5, <1>6 DEF IInv, Typed

\* A request has a generation of its own, so no answer is about it.
LEMMA RequestKeeps ==
    ASSUME IInv, NEW cap \in Caps, RequestMaxQp(cap) PROVE IInv'
<1>0. /\ Typed /\ Unrequested /\ AppliedBefore
      /\ \A d \in Encoders : Answers(d) /\ ToldItsCap(d)
      /\ runtime \in RuntimeStates /\ runtime.generation \in Nat
    BY DEF IInv, Typed, RuntimeStates
<1>1. cap \in Int /\ NoCap \in Int /\ NoCounts \in Counters
    BY CapsTyped DEF NoCap, NoCounts, Counters
<1>2. /\ runtime' \in RuntimeStates
      /\ runtime'.generation = runtime.generation + 1
      /\ runtime'.state = "pending" /\ runtime'.applied_session = NoSession
  <2>1. runtime' = [runtime EXCEPT !.requested = cap, !.effective = NoCap, !.state = "pending",
              !.applied_session = NoSession, !.last_encoded_qp = NoCap,
              !.sample_generation = 0, !.sample_session = NoSession,
              !.telemetry_session = NoSession, !.counts = NoCounts,
              !.generation = runtime.generation + 1]
      BY <1>0 DEF RequestMaxQp, Requested, RuntimeStates
  <2>2. runtime.generation + 1 \in Nat
      BY <1>0
  <2>3. /\ runtime'.generation = runtime.generation + 1
        /\ runtime'.state = "pending" /\ runtime'.applied_session = NoSession
      BY <1>0, <2>1 DEF RuntimeStates
  <2>4. /\ "pending" \in {"not_requested", "pending", "unsupported", "failed", "applied"}
        /\ NoSession \in (Encoders \X Nat) \cup {NoSession}
        /\ 0 \in Int
      OBVIOUS
  <2>5. runtime' \in RuntimeStates
      BY <1>0, <1>1, <2>1, <2>2, <2>4 DEF RuntimeStates
  <2> QED BY <2>3, <2>5
<1>3. UNCHANGED <<encoder, vt, frame>>
    BY DEF RequestMaxQp
<1>4. Typed' /\ Unrequested' /\ AppliedBefore' /\ AppliedMeansSet'
    BY <1>0, <1>2, <1>3 DEF Typed, Unrequested, AppliedBefore, AppliedMeansSet
<1>5. ASSUME NEW e \in Encoders PROVE Answers(e)' /\ ToldItsCap(e)'
  <2>1. SessionId(e)' = SessionId(e)
      BY <1>3 DEF SessionId
  <2>2. Answers(e)'
    <3>1. encoder[e].event # NoEvent => encoder[e].event.generation \in Nat
        BY <1>0, EncoderTyped DEF AnswerEvents
    <3> QED BY <1>0, <1>2, <1>3, <2>1, <3>1 DEF Answers
  <2>3. ToldItsCap(e)'
      BY <1>0, <1>3, <2>1 DEF ToldItsCap
  <2> QED BY <2>2, <2>3
<1> QED BY <1>4, <1>5 DEF IInv

LEMMA SessionStepsKeep ==
    ASSUME IInv, NEW e \in Encoders,
           StartEncode(e) \/ ReleaseEncoder(e) \/ Encode(e) \/ CheckReset(e)
    PROVE  IInv'
<1>0. vt \in [Encoders -> SessionStates] /\ frame \in [Slots -> Frames \cup {NoFrame}]
    BY DEF IInv, Typed
<1>1. CASE StartEncode(e)
    BY <1>1, ResetKeeps DEF StartEncode
<1>2. CASE ReleaseEncoder(e)
  <2>1. Closed \in SessionStates /\ Closed.open = FALSE
      BY DEF Closed, NoCap, SessionStates
  <2>2. /\ vt' = [vt EXCEPT ![e] = Closed] /\ Goto(e, "released")
        /\ UNCHANGED <<runtime, frame>>
      BY <1>2 DEF ReleaseEncoder
  <2>3. /\ vt' \in [Encoders -> SessionStates] /\ ~vt'[e].open
        /\ \A d \in Encoders \ {e} : vt'[d] = vt[d]
      BY <1>0, <2>1, <2>2
  <2> QED BY <1>0, <2>2, <2>3, GotoStepKeeps
<1>3. CASE Encode(e)
    BY <1>0, <1>3, GotoStepKeeps, ResetKeeps DEF Encode
<1>4. CASE CheckReset(e)
    BY <1>0, <1>4, GotoStepKeeps, ResetKeeps DEF CheckReset
<1> QED BY <1>1, <1>2, <1>3, <1>4

\* A session that is told the requested cap, or was told it before.
LEMMA ApplyPendingKeeps ==
    ASSUME IInv, NEW e \in Encoders, ApplyPending(e) PROVE IInv'
<1>0. /\ Typed /\ Unrequested /\ AppliedBefore /\ AppliedMeansSet
      /\ \A d \in Encoders : Answers(d) /\ ToldItsCap(d)
      /\ encoder \in [Encoders -> EncoderStates] /\ vt \in [Encoders -> SessionStates]
    BY DEF IInv, Typed
<1> DEFINE generation == runtime.generation
           cap == runtime.requested
           request == IF vt[e].open THEN [generation |-> generation, cap |-> cap]
                      ELSE [generation |-> 0, cap |-> NoCap]
           skip == ~vt[e].open \/ cap = NoCap \/ generation = encoder[e].last_applied
<1>1. request \in Requests
    BY <1>0, EncoderTyped DEF NoCap, Requests
<1>2. UNCHANGED <<runtime, frame>>
    BY DEF ApplyPending
<1>3. CASE skip
  <2> HIDE DEF request
  <2> DEFINE now == [encoder[e] EXCEPT !.pc = "submit", !.request = request]
  <2>1. encoder' = [encoder EXCEPT ![e] = now] /\ UNCHANGED vt
      BY <1>0, <1>3, EncoderTyped DEF ApplyPending, EncoderStates, request
  <2>2. /\ now \in EncoderStates /\ now.pc = "submit" /\ now.request = request
        /\ now.sequence = encoder[e].sequence /\ now.event = encoder[e].event
        /\ now.last_applied = encoder[e].last_applied
    <3>1. "submit" \in Steps /\ encoder[e] \in EncoderStates
        BY <1>0 DEF Steps
    <3> HIDE DEF generation, cap, skip
    <3> QED BY <1>1, <3>1 DEF EncoderStates
  <2> HIDE DEF now
  <2>3. encoder'[e] = now /\ \A d \in Encoders \ {e} : encoder'[d] = encoder[d]
      BY <1>0, <2>1
  <2>4. Typed'
      BY <1>0, <1>2, <2>1, <2>2 DEF Typed
  <2>5. \A d \in Encoders : SessionId(d)' = SessionId(d)
      BY <2>2, <2>3 DEF SessionId
  <2>6. \A d \in Encoders \ {e} : Answers(d)' /\ ToldItsCap(d)'
      BY <1>0, <1>2, <2>1, <2>3, SameEncoderKeeps
  <2>7. Answers(e)'
      BY <1>0, <1>2, <2>1, <2>2, <2>3, <2>5 DEF Answers
  <2>8. ToldItsCap(e)'
    <3>1. ASSUME vt[e].open, request.cap # NoCap
          PROVE  /\ request.generation = encoder[e].last_applied
                 /\ request.generation = runtime.generation
                 /\ request.cap = runtime.requested
                 /\ encoder[e].last_applied # 0
        BY <1>0, <1>3, <3>1 DEF request, Unrequested
    <3>2. ASSUME vt[e].open, request.cap # NoCap
          PROVE  /\ encoder[e].event # NoEvent
                 /\ encoder[e].event.session = SessionId(e)
                 /\ encoder[e].event.generation = request.generation
                 /\ encoder[e].event.requested = request.cap
        BY <1>0, <3>1, <3>2 DEF ToldItsCap, Answers
    <3> QED BY <1>0, <2>1, <2>2, <2>3, <2>5, <3>2 DEF ToldItsCap
  <2>9. AppliedBefore' /\ AppliedMeansSet'
    <3>1. runtime.applied_session # NoSession =>
              runtime.applied_session \in Encoders \X Nat
        BY <1>0 DEF Typed, RuntimeStates
    <3>2. \A d \in Encoders : /\ encoder'[d].sequence = encoder[d].sequence
                              /\ encoder'[d].last_applied = encoder[d].last_applied
        BY <2>2, <2>3
    <3> QED BY <1>0, <1>2, <2>1, <2>5, <3>1, <3>2 DEF AppliedBefore, AppliedMeansSet
  <2> QED BY <1>0, <1>2, <2>4, <2>6, <2>7, <2>8, <2>9 DEF IInv, Unrequested
<1>4. CASE ~skip
  <2>0. request.generation = generation /\ request.cap = cap
      BY <1>4
  <2> HIDE DEF request
  <2> DEFINE event(type, property) ==
                [type |-> type, requested |-> cap, effective |-> property,
                 generation |-> generation, session |-> SessionId(e)]
  <2>1. PICK outcome \in Outcomes(e, cap) :
          /\ vt' = [vt EXCEPT ![e].told = outcome.told, ![e].cap = outcome.property]
          /\ encoder' = [encoder EXCEPT
               ![e].pc = "report", ![e].request = request,
               ![e].last_applied = generation,
               ![e].event = event(outcome.type, outcome.property)]
      BY <1>4 DEF ApplyPending, request
  <2>2. /\ outcome.type \in AnswerTypes
        /\ outcome.property = vt[e].cap \/ outcome.property \in Held
        /\ outcome.told = vt[e].told \/ outcome.told = cap
        /\ outcome.type = "applied" => outcome.told = cap
      BY DEF Outcomes, Told, Untold, AnswerTypes
  <2>3. outcome.property \in Int /\ outcome.told \in Int
      BY <1>0, <2>2, EncoderTyped, CapsTyped
  <2> DEFINE answer == event(outcome.type, outcome.property)
  <2>4. /\ answer \in AnswerEvents /\ answer # NoEvent /\ answer.type = outcome.type
        /\ answer.requested = cap /\ answer.effective = outcome.property
        /\ answer.generation = generation
        /\ answer.session = SessionId(e)
    <3>1. answer \in AnswerEvents
        BY <1>0, <2>2, <2>3, EncoderTyped DEF AnswerEvents
    <3> QED BY <3>1, AnswersDiffer
  <2> HIDE DEF answer
  <2> DEFINE now == [encoder[e] EXCEPT !.pc = "report", !.request = request,
                        !.last_applied = generation, !.event = answer]
             session == [vt[e] EXCEPT !.told = outcome.told, !.cap = outcome.property]
  <2>5. encoder' = [encoder EXCEPT ![e] = now] /\ vt' = [vt EXCEPT ![e] = session]
      BY <1>0, <2>1 DEF EncoderStates, SessionStates, answer
  <2>6. /\ now \in EncoderStates /\ now.pc = "report" /\ now.request = request
        /\ now.sequence = encoder[e].sequence /\ now.event = answer
        /\ now.last_applied = generation
    <3>1. "report" \in Steps /\ generation \in Nat /\ answer \in AnswerEvents
        BY <1>0, <2>4, EncoderTyped DEF Steps
    <3> HIDE DEF generation, cap
    <3> QED BY <1>0, <1>1, <3>1, EncoderTyped DEF EncoderStates
  <2>7. /\ session \in SessionStates /\ session.open = vt[e].open
        /\ session.told = outcome.told /\ session.cap = outcome.property
    <3>1. vt[e] \in SessionStates
        BY <1>0
    <3> QED BY <2>3, <3>1 DEF SessionStates
  <2> HIDE DEF now, session
  <2>8. /\ encoder'[e] = now /\ \A d \in Encoders \ {e} : encoder'[d] = encoder[d]
        /\ vt'[e] = session /\ \A d \in Encoders \ {e} : vt'[d] = vt[d]
      BY <1>0, <2>5
  <2>9. Typed'
      BY <1>0, <1>2, <2>5, <2>6, <2>7 DEF Typed
  <2>10. \A d \in Encoders : SessionId(d)' = SessionId(d)
      BY <2>6, <2>8 DEF SessionId
  <2>11. \A d \in Encoders \ {e} : Answers(d)' /\ ToldItsCap(d)'
      BY <1>0, <1>2, <2>8, SameEncoderKeeps
  <2>12. Answers(e)'
    <3>1. answer.session[1] = e /\ answer.session[2] = encoder[e].sequence
        BY <1>0, <2>4, EncoderTyped
    <3> QED BY <1>0, <1>2, <2>2, <2>4, <2>6, <2>7, <2>8, <3>1, EncoderTyped DEF Answers
  <2>13. ToldItsCap(e)'
      BY <2>0, <2>4, <2>6, <2>8, <2>10 DEF ToldItsCap
  <2>14. AppliedBefore' /\ AppliedMeansSet'
    <3>1. runtime.applied_session # NoSession =>
              runtime.applied_session \in Encoders \X Nat
        BY <1>0 DEF Typed, RuntimeStates
    <3>2. \A d \in Encoders : encoder'[d].sequence = encoder[d].sequence
        BY <2>6, <2>8
    <3>3. runtime.state = "applied" => SessionId(e) # runtime.applied_session
        BY <1>0, <1>4 DEF AppliedMeansSet
    <3>4. AppliedMeansSet'
        BY <1>0, <1>2, <2>8, <2>10, <3>3 DEF AppliedMeansSet
    <3> QED BY <1>0, <1>2, <3>1, <3>2, <3>4 DEF AppliedBefore
  <2> QED BY <1>0, <1>2, <2>9, <2>11, <2>12, <2>13, <2>14 DEF IInv, Unrequested
<1> QED BY <1>3, <1>4

\* A step that changes no more of the runtime state than a frame report does.
LEMMA FrameStepKeeps ==
    ASSUME IInv, Typed', UNCHANGED vt,
           runtime'.requested = runtime.requested,
           runtime'.generation = runtime.generation,
           runtime'.state = runtime.state, runtime'.effective = runtime.effective,
           runtime'.applied_session = runtime.applied_session,
           \A d \in Encoders :
             /\ Answers(d)' /\ ToldItsCap(d)' /\ SessionId(d)' = SessionId(d)
             /\ encoder'[d].sequence = encoder[d].sequence
             /\ encoder'[d].last_applied = encoder[d].last_applied
    PROVE  IInv'
<1>1. runtime.applied_session # NoSession =>
          runtime.applied_session \in Encoders \X Nat
    BY DEF IInv, Typed, RuntimeStates
<1>2. AppliedBefore' /\ AppliedMeansSet' /\ Unrequested'
    BY <1>1 DEF IInv, AppliedBefore, AppliedMeansSet, Unrequested
<1> QED BY <1>2 DEF IInv

LEMMA ReportSubmittedKeeps ==
    ASSUME IInv, NEW e \in Encoders, ReportSubmitted(e) PROVE IInv'
<1> DEFINE event == [type |-> "submitted", session |-> SessionId(e),
                     generation |-> encoder[e].request.generation]
<1>1. /\ runtime' = Recorded(runtime, event) /\ Goto(e, "idle")
      /\ UNCHANGED <<vt, frame>>
    BY DEF ReportSubmitted
<1>2. event.type = "submitted" /\ event.session = SessionId(e)
    OBVIOUS
<1> HIDE DEF event
<1>3. Typed /\ runtime \in RuntimeStates /\ SessionId(e) \in Encoders \X Nat
    BY EncoderTyped DEF IInv
<1>4. /\ runtime' \in RuntimeStates
      /\ runtime'.requested = runtime.requested
      /\ runtime'.generation = runtime.generation
      /\ runtime'.state = runtime.state /\ runtime'.effective = runtime.effective
      /\ runtime'.applied_session = runtime.applied_session
    BY <1>1, <1>2, <1>3, FrameReportKeeps
<1>5. /\ \A d \in Encoders :
            /\ Answers(d)' /\ ToldItsCap(d)' /\ SessionId(d)' = SessionId(d)
            /\ encoder'[d].sequence = encoder[d].sequence
            /\ encoder'[d].last_applied = encoder[d].last_applied
      /\ encoder' \in [Encoders -> EncoderStates]
    BY <1>1, <1>4, GotoKeeps DEF IInv
<1>6. Typed'
    BY <1>1, <1>3, <1>4, <1>5 DEF Typed
<1> QED BY <1>1, <1>4, <1>5, <1>6, FrameStepKeeps

LEMMA OutputKeeps == ASSUME IInv, NEW s \in Slots, Output(s) PROVE IInv'
<1>1. /\ frame[s] # NoFrame /\ frame' = [frame EXCEPT ![s] = NoFrame]
      /\ UNCHANGED <<encoder, vt>>
    BY DEF Output
<1>2. Typed /\ runtime \in RuntimeStates /\ frame[s] \in Frames
    BY <1>1 DEF IInv, Typed
<1> DEFINE Kept ==
       /\ runtime' \in RuntimeStates
       /\ runtime'.requested = runtime.requested
       /\ runtime'.generation = runtime.generation
       /\ runtime'.state = runtime.state /\ runtime'.effective = runtime.effective
       /\ runtime'.applied_session = runtime.applied_session
<1>3. Kept
  <2>1. CASE UNCHANGED runtime
      BY <1>2, <2>1
  <2>2. ASSUME NEW type \in {"encoded", "dropped"},
               runtime' = Recorded(runtime,
                            [type |-> type, qp |-> frame[s].cap,
                             session |-> frame[s].session,
                             generation |-> frame[s].generation])
        PROVE Kept
    <3> DEFINE event == [type |-> type, qp |-> frame[s].cap,
                         session |-> frame[s].session,
                         generation |-> frame[s].generation]
    <3>1. /\ event.type \in {"encoded", "dropped"} /\ event.qp \in Int
          /\ event.session \in Encoders \X Nat
        BY <1>2 DEF Frames
    <3>2. runtime' = Recorded(runtime, event)
        BY <2>2
    <3> HIDE DEF event
    <3> QED BY <1>2, <3>1, <3>2, FrameReportKeeps
  <2> QED BY <2>1, <2>2 DEF Output
<1>4. ASSUME NEW d \in Encoders
      PROVE  /\ Answers(d)' /\ ToldItsCap(d)' /\ SessionId(d)' = SessionId(d)
             /\ encoder'[d].sequence = encoder[d].sequence
             /\ encoder'[d].last_applied = encoder[d].last_applied
    BY <1>1, <1>3, SameEncoderKeeps DEF IInv, SessionId
<1>5. Typed'
    BY <1>1, <1>2, <1>3 DEF Typed
<1> QED BY <1>1, <1>3, <1>4, <1>5, FrameStepKeeps

\* The answer is recorded only if its generation is still the requested one, and an
\* answer of that generation is about the requested cap.
LEMMA ReportOutcomeKeeps ==
    ASSUME IInv, NEW e \in Encoders, ReportOutcome(e) PROVE IInv'
<1>0. /\ Typed /\ Unrequested /\ AppliedBefore /\ AppliedMeansSet
      /\ \A d \in Encoders : Answers(d) /\ ToldItsCap(d)
    BY DEF IInv
<1> DEFINE answer == encoder[e].event
<1>1. /\ runtime' = Recorded(runtime, answer) /\ Goto(e, "submit")
      /\ UNCHANGED <<vt, frame>> /\ encoder[e].pc = "report"
    BY DEF ReportOutcome
<1>2. /\ answer \in AnswerEvents /\ answer.session = SessionId(e)
      /\ runtime \in RuntimeStates
      /\ answer.generation = encoder[e].last_applied
      /\ answer.generation = runtime.generation => answer.requested = runtime.requested
      /\ vt[e].open /\ answer.type = "applied" =>
            vt[e].told = answer.requested /\ vt[e].cap = answer.effective
    BY <1>0, <1>1, EncoderTyped DEF ToldItsCap, Answers
<1>3. /\ runtime' \in RuntimeStates
      /\ runtime'.requested = runtime.requested
      /\ runtime'.generation = runtime.generation
    BY <1>1, <1>2, AnswerRecorded
<1>4. /\ \A d \in Encoders :
            /\ Answers(d)' /\ ToldItsCap(d)' /\ SessionId(d)' = SessionId(d)
            /\ encoder'[d].sequence = encoder[d].sequence
            /\ encoder'[d].last_applied = encoder[d].last_applied
      /\ encoder' \in [Encoders -> EncoderStates]
    BY <1>0, <1>1, <1>3, GotoKeeps
<1>5. Typed' /\ Unrequested'
    BY <1>0, <1>1, <1>3, <1>4 DEF Typed, Unrequested
<1>6. \/ runtime' = runtime
      \/ runtime'.state # "applied" /\ runtime'.applied_session = NoSession
      \/ /\ answer.generation = runtime.generation /\ answer.type = "applied"
         /\ runtime'.effective = answer.effective
         /\ runtime'.applied_session = SessionId(e)
    BY <1>1, <1>2, AnswerRecorded
<1>7. CASE runtime' = runtime
    BY <1>1, <1>4, <1>5, <1>7, FrameStepKeeps
<1>8. CASE runtime'.state # "applied" /\ runtime'.applied_session = NoSession
    BY <1>4, <1>5, <1>8 DEF IInv, AppliedBefore, AppliedMeansSet
<1>9. CASE /\ answer.generation = runtime.generation /\ answer.type = "applied"
           /\ runtime'.effective = answer.effective
           /\ runtime'.applied_session = SessionId(e)
  <2>1. AppliedBefore'
      BY <1>0, <1>4, <1>9, EncoderTyped DEF AppliedBefore
  <2>2. \A d \in Encoders : SessionId(d) = SessionId(e) => d = e
      BY DEF SessionId
  <2>3. AppliedMeansSet'
      BY <1>1, <1>2, <1>3, <1>4, <1>9, <2>2 DEF AppliedMeansSet
  <2> QED BY <1>4, <1>5, <2>1, <2>3 DEF IInv
<1> QED BY <1>6, <1>7, <1>8, <1>9

LEMMA SubmitKeeps == ASSUME IInv, NEW e \in Encoders, Submit(e) PROVE IInv'
<1>0. /\ Typed /\ vt \in [Encoders -> SessionStates]
      /\ frame \in [Slots -> Frames \cup {NoFrame}]
    BY DEF IInv, Typed
<1>1. UNCHANGED runtime /\ encoder[e].pc = "submit"
    BY DEF Submit
<1> DEFINE in_force == IF vt[e].started THEN vt[e].in_force ELSE vt[e].cap
<1>2. CASE /\ vt[e].open
           /\ vt' = [vt EXCEPT ![e].started = TRUE, ![e].in_force = in_force]
           /\ \E s \in Slots :
                frame' = [frame EXCEPT ![s] =
                   [ session |-> SessionId(e), cap |-> in_force,
                     generation |-> encoder[e].request.generation ]]
           /\ Goto(e, "submitted")
  <2>1. in_force \in Int
      BY <1>0, EncoderTyped
  <2> HIDE DEF in_force
  <2> DEFINE session == [vt[e] EXCEPT !.started = TRUE, !.in_force = in_force]
  <2>2. vt' = [vt EXCEPT ![e] = session]
      BY <1>0, <1>2 DEF SessionStates
  <2>3. /\ session \in SessionStates /\ session.open = vt[e].open
        /\ session.told = vt[e].told /\ session.cap = vt[e].cap
      BY <1>0, <2>1 DEF SessionStates
  <2> HIDE DEF session
  <2>4. /\ vt' \in [Encoders -> SessionStates]
        /\ vt'[e].open = vt[e].open
        /\ vt'[e].told = vt[e].told /\ vt'[e].cap = vt[e].cap
        /\ \A d \in Encoders \ {e} : vt'[d] = vt[d]
      BY <1>0, <2>2, <2>3
  <2>5. [ session |-> SessionId(e), cap |-> in_force,
          generation |-> encoder[e].request.generation ] \in Frames
      BY <1>0, <2>1, EncoderTyped DEF Frames
  <2>6. frame' \in [Slots -> Frames \cup {NoFrame}]
      BY <1>0, <1>2, <2>5
  <2>7. Goto(e, "submitted")
      BY <1>2
  <2> QED BY <1>1, <2>4, <2>6, <2>7, GotoStepKeeps
<1>3. CASE Goto(e, "idle") /\ UNCHANGED <<vt, frame>>
    BY <1>0, <1>1, <1>3, GotoStepKeeps
<1>4. CASE UNCHANGED frame /\ \E created \in BOOLEAN : ResetSession(e, "idle", created)
    BY <1>1, <1>4, ResetKeeps
<1> QED BY <1>2, <1>3, <1>4 DEF Submit

LEMMA NextKeeps == ASSUME IInv, [Next]_vars PROVE IInv'
<1>1. ASSUME NEW cap \in Caps, RequestMaxQp(cap) PROVE IInv'
    BY <1>1, RequestKeeps
<1>2. ASSUME NEW e \in Encoders, StartEncode(e) \/ ReleaseEncoder(e) PROVE IInv'
    BY <1>2, SessionStepsKeep
<1>3. ASSUME NEW e \in Encoders, EncodeStep(e) PROVE IInv'
    BY <1>3, SessionStepsKeep, ApplyPendingKeeps, ReportOutcomeKeeps, SubmitKeeps,
       ReportSubmittedKeeps DEF EncodeStep
<1>4. ASSUME NEW s \in Slots, Output(s) PROVE IInv'
    BY <1>4, OutputKeeps
<1>5. CASE UNCHANGED vars
  <2>1. UNCHANGED <<runtime, encoder, vt, frame>>
      BY <1>5 DEF vars
  <2> QED BY <2>1 DEF IInv, Typed, Unrequested, AppliedBefore, AppliedMeansSet, Answers,
             ToldItsCap, SessionId
<1> QED BY <1>1, <1>2, <1>3, <1>4, <1>5 DEF Next

LEMMA SpecInv == Spec => []IInv
<1>1. Init => IInv
    BY InitInv
<1>2. IInv /\ [Next]_vars => IInv'
    BY NextKeeps
<1> QED BY <1>1, <1>2, PTL DEF Spec

\* While the session that is named as the applied one lives, it was told the cap of the
\* newest request and holds the number shown as effective, whatever number that is:
\* applyPendingCastTuningMaxQp and recordEncoderEvent, with requests, resets and other
\* encoders' reports in any order between them.
THEOREM SpecAppliedMeansSet == Spec => []AppliedMeansSet
<1>1. IInv => AppliedMeansSet
    BY DEF IInv
<1> QED BY <1>1, SpecInv, PTL

\* No frame is submitted before its session was asked for the cap of the frame's
\* generation, and told it if the answer is "applied": encode: after
\* resetCompressionSessionForRuntimeMaxQpIfNeeded and applyPendingCastTuningMaxQp,
\* whatever replaced the session since the last answer.
THEOREM SpecNoFrameBeforeItsCap == Spec => []NoFrameBeforeItsCap
<1>1. IInv => NoFrameBeforeItsCap
    BY DEF IInv, NoFrameBeforeItsCap, ToldItsCap, Answers
<1> QED BY <1>1, SpecInv, PTL
=============================================================================
