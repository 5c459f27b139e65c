----------------------- MODULE FrameCadenceAdapterProofs -----------------------
(***************************************************************************)
(* That every queued frame has its task, that a zero-hertz stream never    *)
(* falls silent, that the overload ends and that a key frame comes in time *)
(* for all rates, delays and bounds.                                       *)
(*                                                                         *)
(* The first three belong together: the queue is matched by its tasks in   *)
(* the mode the configuration asks for (TasksMatchQueue); an overload      *)
(* cancels the repeat, which leaves the stream to a frame that is posted   *)
(* already, so NeverSilent needs the count of those; and the overload is   *)
(* covered by posted frames, queued frames and the call that goes on.      *)
(* That no two chains repeat a frame depends on the ids of repeats, none   *)
(* of which is newer than the current one (RepeatsCurrent).                *)
(*                                                                         *)
(* That a key frame comes in time is the second invariant (WaitInv), by    *)
(* the first: the wait and what is left to the repeat or the queued frame  *)
(* that answers it stay within a limit (KeyDue).  It needs how long those  *)
(* may take when the request comes (CadenceShort, RepeatsShort), and that  *)
(* the frame that is repeated keeps its repeat (Chained).                  *)
(***************************************************************************)
EXTENDS FrameCadenceAdapter, FiniteSetTheorems, FunctionTheorems, TLAPS

Constraints == {NoConstraints} \cup [min : {0}, max : MaxFps]
Frames == [id : Int, age : Int]
Repeats == [id : Int, in : Int]
Tasks == [kind : {"frame"}, id : Int, age : Int]
         \cup [kind : {"discarded"}, age : Int]
         \cup [kind : {"constraints"}, age : Int, to : Constraints]
         \cup [kind : {"vsync"}, age : Int, frame : Frames]

ConfigTyped ==
    /\ source_constraints_ \in Constraints
    /\ max_fps_ \in MaxFps \cup {Unset}
    /\ zero_hertz_params_ \in {Unset, 0, 1}
    /\ restricted_max_frame_rate_ \in Restricted \cup {Unset}
    /\ restricted_frame_delay_ \in Int
QueuesTyped ==
    /\ tasks \in Seq(Tasks)
    /\ queued_frames_ \in Seq(Frames)
    /\ worker_tasks \in Seq(Frames)
    /\ input_queue_ \in Seq(Frames)
    /\ cadence_tasks \in Seq(Int)
    /\ repeat_tasks \in Seq(Repeats)
MembersTyped ==
    /\ current_frame_id_ \in Int
    /\ DOMAIN scheduled_repeat_ = {"on", "since", "idle", "lag"}
    /\ scheduled_repeat_.on \in BOOLEAN
    /\ scheduled_repeat_.lag \in Int
    /\ sending \in [on : BOOLEAN, zero_hertz : BOOLEAN, elapsed : Int,
                    dropped : BOOLEAN]
    /\ queue_overload_count_ \in Nat
    /\ captured \in Int
Typed == ConfigTyped /\ QueuesTyped /\ MembersTyped

\* Which repeats are current, and that no more than one is.
RepeatsCurrent ==
    /\ \A k \in DOMAIN repeat_tasks : repeat_tasks[k].id <= current_frame_id_
    /\ \A j, k \in DOMAIN repeat_tasks :
          /\ repeat_tasks[j].id = current_frame_id_
          /\ repeat_tasks[k].id = current_frame_id_
          => j = k
    /\ \A k \in DOMAIN repeat_tasks :
          repeat_tasks[k].id = current_frame_id_ => scheduled_repeat_.on

\* Only the zero-hertz mode flags frames and asks for them, and only its call ends a
\* flag.
ModeOfCalls ==
    /\ ~ZeroHertz => queue_overload_count_ = 0
    /\ sending.on /\ sending.zero_hertz => ZeroHertz
    /\ ZeroHertz => refresh_frame_requester_ \in Int

IInv == /\ Typed /\ AdapterMatchesConfig /\ QueueAccounted /\ RepeatsCurrent
        /\ ModeOfCalls /\ OverloadCovered /\ NeverSilent

-----------------------------------------------------------------------------
(* The count of posted frames.                                              *)

FramesIn(s) == {k \in DOMAIN s : s[k].kind = "frame"}
IsFrame(t) == IF t.kind = "frame" THEN 1 ELSE 0

\* A queue is finite, and so are the frames posted to it.
LEMMA FramesFinite ==
    ASSUME NEW s \in Seq(Tasks)
    PROVE  IsFiniteSet(FramesIn(s)) /\ Cardinality(FramesIn(s)) \in Nat
<1>1. IsFiniteSet(1..Len(s))
    BY FS_Interval
<1>2. FramesIn(s) \subseteq 1..Len(s)
    BY DEF FramesIn
<1> QED BY <1>1, <1>2, FS_Subset, FS_CardinalityType

\* A posted task counts if it is a frame's (FrameCadenceAdapterImpl::OnFrame).
LEMMA AppendCounts ==
    ASSUME NEW s \in Seq(Tasks), NEW t \in Tasks
    PROVE  Cardinality(FramesIn(Append(s, t))) = Cardinality(FramesIn(s)) + IsFrame(t)
<1>1. /\ Append(s, t) \in Seq(Tasks) /\ Len(Append(s, t)) = Len(s) + 1
      /\ \A k \in 1..Len(s) : Append(s, t)[k] = s[k]
      /\ Append(s, t)[Len(s) + 1] = t
    OBVIOUS
<1>2. CASE t.kind = "frame"
  <2>1. FramesIn(Append(s, t)) = FramesIn(s) \cup {Len(s) + 1}
      BY <1>1, <1>2 DEF FramesIn
  <2>2. Len(s) + 1 \notin FramesIn(s)
      BY DEF FramesIn
  <2>3. IsFiniteSet(FramesIn(s))
      BY FramesFinite
  <2>4. Cardinality(FramesIn(s) \cup {Len(s) + 1}) = Cardinality(FramesIn(s)) + 1
      BY <2>2, <2>3, FS_AddElement
  <2> QED BY <1>2, <2>1, <2>4 DEF IsFrame
<1>3. CASE t.kind # "frame"
  <2>1. FramesIn(Append(s, t)) = FramesIn(s)
      BY <1>1, <1>3 DEF FramesIn
  <2> QED BY <1>3, <2>1, FramesFinite DEF IsFrame
<1> QED BY <1>2, <1>3

\* A task that is taken off no longer counts: the others move up by one place.
LEMMA TailCounts ==
    ASSUME NEW s \in Seq(Tasks), s # <<>>
    PROVE  Cardinality(FramesIn(Tail(s))) = Cardinality(FramesIn(s)) - IsFrame(Head(s))
<1> DEFINE rest == FramesIn(s) \ {1}
           move == [k \in rest |-> k - 1]
<1>1. /\ Tail(s) \in Seq(Tasks) /\ Len(s) \in Nat \ {0} /\ Len(Tail(s)) = Len(s) - 1
      /\ \A k \in 1..(Len(s) - 1) : Tail(s)[k] = s[k + 1]
      /\ Head(s) = s[1]
    OBVIOUS
<1>2. move \in Bijection(rest, FramesIn(Tail(s)))
  <2>1. \A k \in rest : k \in 2..Len(s) /\ s[k].kind = "frame"
      BY <1>1 DEF FramesIn
  <2>2. \A k \in rest : k - 1 \in FramesIn(Tail(s))
      BY <1>1, <2>1 DEF FramesIn
  <2>3. \A j \in FramesIn(Tail(s)) : j + 1 \in rest /\ (j + 1) - 1 = j
      BY <1>1 DEF FramesIn
  <2>4. move \in [rest -> FramesIn(Tail(s))]
      BY <2>2
  <2>5. \A j, k \in rest : move[j] = move[k] => j = k
      BY <2>1
  <2>6. \A j \in FramesIn(Tail(s)) : \E k \in rest : move[k] = j
      BY <2>3
  <2> QED BY <2>4, <2>5, <2>6, Fun_IsBij
<1>3. IsFiniteSet(FramesIn(s)) /\ IsFiniteSet(rest)
    BY FramesFinite, FS_Subset
<1>4. Cardinality(FramesIn(Tail(s))) = Cardinality(rest)
  <2>1. ExistsBijection(rest, FramesIn(Tail(s)))
      BY <1>2 DEF ExistsBijection
  <2> QED BY <1>3, <2>1, FS_Bijection
<1>5. Cardinality(rest) = Cardinality(FramesIn(s)) - IsFrame(Head(s))
  <2>1. CASE 1 \in FramesIn(s)
    <3>1. Cardinality(rest) = Cardinality(FramesIn(s)) - 1
        BY <1>3, <2>1, FS_RemoveElement
    <3> QED BY <1>1, <2>1, <3>1 DEF FramesIn, IsFrame
  <2>2. CASE 1 \notin FramesIn(s)
    <3>1. rest = FramesIn(s)
        BY <2>2
    <3>2. Head(s).kind # "frame"
        BY <1>1, <2>2 DEF FramesIn
    <3>3. Cardinality(FramesIn(s)) \in Nat /\ IsFrame(Head(s)) = 0
        BY <3>2, FramesFinite DEF IsFrame
    <3> HIDE DEF rest
    <3> QED BY <3>1, <3>3
  <2> QED BY <2>1, <2>2
<1> QED BY <1>4, <1>5

-----------------------------------------------------------------------------
(* What a change of the configuration does.                                 *)

\* Rates and delays are positive, what is unset is not.
LEMMA Delays ==
    /\ Unset \in Int /\ Unset < 0
    /\ \A f \in MaxFps \cup Restricted : f \in Nat \ {0} /\ DelayOf(f) \in Nat \ {0}
BY RatesDivide DEF Unset

\* The mode becomes the one that is asked for, and what it holds is kept or gone
\* altogether (MaybeReconfigureAdapters), whichever of the two callers says what was
\* enabled.
LEMMA Reconfigured ==
    ASSUME ConfigTyped, NEW was \in BOOLEAN, NEW c \in Constraints,
           NEW p \in {Unset, 0, 1},
           IsZeroHertzScreenshareEnabled(c, p) /\ was => ZeroHertz,
           ~IsZeroHertzScreenshareEnabled(c, p) /\ ~was => ~ZeroHertz,
           MaybeReconfigureAdapters(was, c, p)
    PROVE  /\ max_fps_' \in MaxFps \cup {Unset} /\ restricted_frame_delay_' \in Int
           /\ ZeroHertz' <=> IsZeroHertzScreenshareEnabled(c, p)
           /\ ZeroHertz' <=> current_adapter_mode_' = "zero_hertz"
           /\ ZeroHertz' => c.max \in {max_fps_', ToUint32(max_fps_')}
           /\ \/ UNCHANGED <<repeating, max_fps_, cadence_tasks, queue_overload_count_,
                             refresh_frame_requester_>>
              \/ /\ NoZeroHertzState
                 /\ ZeroHertz' => refresh_frame_requester_' \in Int \ {Unset}
<1>1. RestrictedDelay(restricted_max_frame_rate_) \in Int
    BY Delays DEF ConfigTyped, RestrictedDelay
<1>2. CASE IsZeroHertzScreenshareEnabled(c, p)
  <2>1. c.max \in MaxFps /\ c.max # Unset
      BY <1>2, Delays DEF Constraints, NoConstraints, IsZeroHertzScreenshareEnabled
  <2>2. current_adapter_mode_' = "zero_hertz"
      BY <1>2 DEF MaybeReconfigureAdapters
  <2>3. CASE ~was \/ RateChanged(c.max)
    <3>1. StartZeroHertz(c.max)
        BY <1>2, <2>3 DEF MaybeReconfigureAdapters
    <3>2. 3 * DelayOf(c.max) \in Int \ {Unset}
        BY <2>1, Delays
    <3> QED BY <1>1, <1>2, <2>1, <2>2, <3>1, <3>2 DEF StartZeroHertz, ZeroHertz
  <2>4. CASE ~(~was \/ RateChanged(c.max))
    <3>1. UNCHANGED <<repeating, max_fps_, restricted_frame_delay_,
                      refresh_frame_requester_, cadence_tasks, queue_overload_count_>>
        BY <1>2, <2>4 DEF MaybeReconfigureAdapters
    <3>2. ZeroHertz /\ c.max = ToUint32(max_fps_)
        BY <1>2, <2>4 DEF RateChanged
    <3> QED BY <1>2, <2>2, <3>1, <3>2 DEF ConfigTyped, ZeroHertz
  <2> QED BY <2>3, <2>4
<1>3. CASE ~IsZeroHertzScreenshareEnabled(c, p)
  <2>1. current_adapter_mode_' = "base"
      BY <1>3 DEF MaybeReconfigureAdapters
  <2>2. CASE was
    <3>1. StopZeroHertz
        BY <1>3, <2>2 DEF MaybeReconfigureAdapters
    <3> QED BY <1>3, <2>1, <3>1, Delays DEF StopZeroHertz, ZeroHertz
  <2>3. CASE ~was
    <3>1. UNCHANGED <<repeating, max_fps_, restricted_frame_delay_,
                      refresh_frame_requester_, cadence_tasks, queue_overload_count_>>
        BY <1>3, <2>3 DEF MaybeReconfigureAdapters
    <3> QED BY <1>3, <2>1, <2>3, <3>1 DEF ConfigTyped, ZeroHertz
  <2> QED BY <2>2, <2>3
<1> QED BY <1>2, <1>3

\* The part of the invariant that speaks of the mode and its queue.
OfTheQueue == QueueAccounted /\ RepeatsCurrent

\* A mode that starts or ends holds nothing (~ZeroHertzAdapterMode).
LEMMA NothingHeld ==
    ASSUME NoZeroHertzState
    PROVE  /\ OfTheQueue' /\ queue_overload_count_' = 0 /\ CurrentRepeats' = {}
           /\ queued_frames_' \in Seq(Frames) /\ cadence_tasks' \in Seq(Int)
           /\ repeat_tasks' \in Seq(Repeats)
           /\ current_frame_id_' \in Int
           /\ DOMAIN scheduled_repeat_' = {"on", "since", "idle", "lag"}
           /\ scheduled_repeat_'.on \in BOOLEAN /\ scheduled_repeat_'.lag \in Int
<1>1. /\ queued_frames_' = <<>> /\ cadence_tasks' = <<>> /\ repeat_tasks' = <<>>
      /\ scheduled_repeat_' = NoRepeat /\ current_frame_id_' = 0
      /\ queue_overload_count_' = 0
    BY DEF NoZeroHertzState
<1>2. DOMAIN repeat_tasks' = {} /\ Len(queued_frames_') = 0 /\ Len(cadence_tasks') = 0
    BY <1>1
<1>3. QueueAccounted' /\ RepeatsCurrent' /\ CurrentRepeats' = {}
    BY <1>1, <1>2 DEF QueueAccounted, RepeatsCurrent, CurrentRepeats, NoRepeat
<1> QED BY <1>1, <1>3 DEF OfTheQueue, NoRepeat

\* ... and one that goes on holds what it held.
LEMMA SameHeld ==
    ASSUME OfTheQueue, ZeroHertz' <=> ZeroHertz,
           UNCHANGED <<queued_frames_, cadence_tasks, repeat_tasks, scheduled_repeat_,
                       current_frame_id_>>
    PROVE  OfTheQueue' /\ CurrentRepeats' = CurrentRepeats
BY DEF OfTheQueue, QueueAccounted, RepeatsCurrent, CurrentRepeats

-----------------------------------------------------------------------------
(* Tasks that are posted and taken.                                         *)

LEMMA FrameTasksCounted ==
    ASSUME tasks \in Seq(Tasks)
    PROVE  /\ Cardinality(FrameTasks) \in Nat
           /\ FrameTasks = {} <=> Cardinality(FrameTasks) = 0
<1>1. FrameTasks = FramesIn(tasks)
    BY DEF FrameTasks, FramesIn
<1> QED BY <1>1, FramesFinite, FS_EmptySet

\* A task that is posted leaves the others where they are.
LEMMA Posted ==
    ASSUME tasks \in Seq(Tasks), NEW t \in Tasks, tasks' = Append(tasks, t)
    PROVE  /\ tasks' \in Seq(Tasks)
           /\ Cardinality(FrameTasks') = Cardinality(FrameTasks) + IsFrame(t)
           /\ FrameTasks' = {} <=> Cardinality(FrameTasks') = 0
<1>1. tasks' \in Seq(Tasks)
    OBVIOUS
<1>2. FrameTasks = FramesIn(tasks) /\ FrameTasks' = FramesIn(tasks')
    BY DEF FrameTasks, FramesIn
<1>3. Cardinality(FramesIn(tasks')) = Cardinality(FramesIn(tasks)) + IsFrame(t)
    BY AppendCounts
<1>4. FramesIn(tasks') = {} <=> Cardinality(FramesIn(tasks')) = 0
    BY <1>1, FramesFinite, FS_EmptySet
<1> QED BY <1>1, <1>2, <1>3, <1>4

\* A task runs when no call of the encoder goes on, and is gone then.
LEMMA Taken ==
    ASSUME tasks \in Seq(Tasks), NEW kind, Take(kind)
    PROVE  /\ tasks' \in Seq(Tasks) /\ ~sending.on
           /\ Head(tasks) \in Tasks /\ Head(tasks).kind = kind
           /\ Cardinality(FrameTasks') = Cardinality(FrameTasks) - IsFrame(Head(tasks))
           /\ FrameTasks' = {} <=> Cardinality(FrameTasks') = 0
<1>1. tasks # <<>> /\ tasks' = Tail(tasks) /\ Head(tasks).kind = kind /\ ~sending.on
    BY DEF Take, Longest, Idle
<1>2. tasks' \in Seq(Tasks) /\ Head(tasks) \in Tasks
    BY <1>1
<1>3. FrameTasks = FramesIn(tasks) /\ FrameTasks' = FramesIn(tasks')
    BY DEF FrameTasks, FramesIn
<1>4. Cardinality(FramesIn(tasks')) = Cardinality(FramesIn(tasks)) - IsFrame(Head(tasks))
    BY <1>1, TailCounts
<1>5. FramesIn(tasks') = {} <=> Cardinality(FramesIn(tasks')) = 0
    BY <1>2, FramesFinite, FS_EmptySet
<1> QED BY <1>1, <1>2, <1>3, <1>4, <1>5

-----------------------------------------------------------------------------
(* Steps that leave the queue of the mode alone.                            *)

\* What these steps have in common: the queue, the mode and the calls are as before,
\* and the count of frames follows the posted tasks, which the mode does not lose.
Elsewhere ==
    /\ UNCHANGED <<queued_frames_, cadence_tasks, repeat_tasks, scheduled_repeat_,
                   current_frame_id_, max_fps_, queue_overload_count_,
                   source_constraints_, zero_hertz_params_, current_adapter_mode_>>
    /\ ZeroHertz => /\ refresh_frame_requester_' \in Int
                    /\ \/ refresh_frame_requester_ = Unset
                       \/ refresh_frame_requester_' # Unset
    /\ Cardinality(FrameTasks') - Cardinality(FrameTasks)
          = frames_scheduled_for_processing_' - frames_scheduled_for_processing_
    /\ Cardinality(FrameTasks') \in Nat
    /\ ZeroHertz => Cardinality(FrameTasks') >= Cardinality(FrameTasks)
    /\ FrameTasks' = {} <=> Cardinality(FrameTasks') = 0
    /\ sending'.on /\ sending'.zero_hertz <=> sending.on /\ sending.zero_hertz

LEMMA ElsewhereKeeps ==
    ASSUME IInv, Elsewhere, Typed', frames_scheduled_for_processing_' \in Int
    PROVE  IInv'
<1>1. ZeroHertz' <=> ZeroHertz
    BY DEF Elsewhere, ZeroHertz
<1>2. OfTheQueue' /\ CurrentRepeats' = CurrentRepeats
    BY <1>1, SameHeld DEF Elsewhere, IInv, OfTheQueue
<1>3. AdapterMatchesConfig'
    BY <1>1 DEF Elsewhere, IInv, AdapterMatchesConfig
<1>4. ModeOfCalls'
    BY <1>1 DEF Elsewhere, IInv, ModeOfCalls
<1>5. /\ Cardinality(FrameTasks) \in Nat
      /\ FrameTasks = {} <=> Cardinality(FrameTasks) = 0
    BY FrameTasksCounted DEF IInv, Typed, QueuesTyped
<1>6. OverloadCovered'
  <2> DEFINE call == IF sending.on /\ sending.zero_hertz THEN 1 ELSE 0
  <2>1. /\ frames_scheduled_for_processing_ = Cardinality(FrameTasks)
        /\ queue_overload_count_ <= Cardinality(FrameTasks) + Len(cadence_tasks) + call
      BY DEF IInv, OverloadCovered
  <2>2. /\ Len(cadence_tasks) \in Nat /\ call \in Nat /\ queue_overload_count_ \in Nat
      BY DEF IInv, Typed, QueuesTyped, MembersTyped
  <2>3. call' = call /\ Len(cadence_tasks') = Len(cadence_tasks)
        /\ queue_overload_count_' = queue_overload_count_
      BY DEF Elsewhere
  <2>4. frames_scheduled_for_processing_' = Cardinality(FrameTasks')
      BY <1>5, <2>1 DEF Elsewhere
  <2>5. /\ Cardinality(FrameTasks') \in Nat
        /\ \/ Cardinality(FrameTasks') >= Cardinality(FrameTasks)
           \/ queue_overload_count_ = 0
      BY DEF Elsewhere, IInv, ModeOfCalls
  <2> HIDE DEF call
  <2>6. queue_overload_count_' <= Cardinality(FrameTasks') + Len(cadence_tasks') + call'
      BY <1>5, <2>1, <2>2, <2>3, <2>5
  <2> QED BY <2>4, <2>6 DEF OverloadCovered, call
<1>7. NeverSilent'
    BY <1>1, <1>2, <1>5 DEF Elsewhere, IInv, NeverSilent
<1> QED BY <1>2, <1>3, <1>4, <1>6, <1>7 DEF IInv, OfTheQueue

\* No task is posted or taken.
LEMMA TasksStay ==
    ASSUME IInv, UNCHANGED <<tasks, frames_scheduled_for_processing_>>
    PROVE  /\ FrameTasks' = FrameTasks /\ Cardinality(FrameTasks) \in Nat
           /\ FrameTasks = {} <=> Cardinality(FrameTasks) = 0
           /\ frames_scheduled_for_processing_ \in Nat
           /\ frames_scheduled_for_processing_ = Cardinality(FrameTasks)
BY FrameTasksCounted DEF IInv, Typed, QueuesTyped, OverloadCovered, FrameTasks

LEMMA OnFrameKeeps == ASSUME IInv, OnFrame PROVE IInv'
<1> DEFINE t == [kind |-> "frame", id |-> captured + 1, age |-> 0]
<1>1. t \in Tasks /\ IsFrame(t) = 1 /\ tasks' = Append(tasks, t)
    BY DEF OnFrame, Tasks, IsFrame, IInv, Typed, MembersTyped
<1> HIDE DEF t
<1>2. /\ tasks' \in Seq(Tasks)
      /\ Cardinality(FrameTasks') = Cardinality(FrameTasks) + 1
      /\ FrameTasks' = {} <=> Cardinality(FrameTasks') = 0
    BY <1>1, Posted DEF IInv, Typed, QueuesTyped
<1>3. Cardinality(FrameTasks) \in Nat
    BY FrameTasksCounted DEF IInv, Typed, QueuesTyped
<1>4. frames_scheduled_for_processing_ = Cardinality(FrameTasks)
    BY DEF IInv, OverloadCovered
<1>5. Typed'
    BY <1>2 DEF OnFrame, IInv, Typed, ConfigTyped, QueuesTyped, MembersTyped,
                config, repeating, cadence, vsync
<1>6. Elsewhere
    BY <1>2, <1>3, <1>4 DEF OnFrame, Elsewhere, config, repeating, cadence,
                            IInv, ModeOfCalls
<1> QED BY <1>3, <1>4, <1>5, <1>6, ElsewhereKeeps DEF OnFrame

LEMMA OnDiscardedFrameKeeps == ASSUME IInv, OnDiscardedFrame PROVE IInv'
<1> DEFINE t == [kind |-> "discarded", age |-> 0]
<1>1. t \in Tasks /\ IsFrame(t) = 0 /\ tasks' = Append(tasks, t)
    BY DEF OnDiscardedFrame, Tasks, IsFrame
<1> HIDE DEF t
<1>2. /\ tasks' \in Seq(Tasks)
      /\ Cardinality(FrameTasks') = Cardinality(FrameTasks) + 0
      /\ FrameTasks' = {} <=> Cardinality(FrameTasks') = 0
    BY <1>1, Posted DEF IInv, Typed, QueuesTyped
<1>3. Cardinality(FrameTasks) \in Nat
    BY FrameTasksCounted DEF IInv, Typed, QueuesTyped
<1>4. frames_scheduled_for_processing_ = Cardinality(FrameTasks)
    BY DEF IInv, OverloadCovered
<1>5. Typed'
    BY <1>2 DEF OnDiscardedFrame, IInv, Typed, ConfigTyped, QueuesTyped, MembersTyped,
                config, repeating, cadence, vsync
<1>6. Elsewhere
    BY <1>2, <1>3, <1>4 DEF OnDiscardedFrame, Elsewhere, config, repeating, cadence,
                            IInv, ModeOfCalls
<1> QED BY <1>3, <1>4, <1>5, <1>6, ElsewhereKeeps DEF OnDiscardedFrame

LEMMA OnConstraintsChangedKeeps == ASSUME IInv, OnConstraintsChanged PROVE IInv'
<1>1. PICK c \in Constraints :
         tasks' = Append(tasks, [kind |-> "constraints", age |-> 0, to |-> c])
    BY DEF OnConstraintsChanged, Constraints
<1> DEFINE t == [kind |-> "constraints", age |-> 0, to |-> c]
<1>2. t \in Tasks /\ IsFrame(t) = 0 /\ tasks' = Append(tasks, t)
    BY <1>1 DEF Tasks, IsFrame
<1> HIDE DEF t
<1>3. /\ tasks' \in Seq(Tasks)
      /\ Cardinality(FrameTasks') = Cardinality(FrameTasks) + 0
      /\ FrameTasks' = {} <=> Cardinality(FrameTasks') = 0
    BY <1>2, Posted DEF IInv, Typed, QueuesTyped
<1>4. Cardinality(FrameTasks) \in Nat
    BY FrameTasksCounted DEF IInv, Typed, QueuesTyped
<1>5. frames_scheduled_for_processing_ = Cardinality(FrameTasks)
    BY DEF IInv, OverloadCovered
<1>6. Typed'
    BY <1>3 DEF OnConstraintsChanged, IInv, Typed, ConfigTyped, QueuesTyped, MembersTyped,
                config, repeating, cadence, vsync
<1>7. Elsewhere
    BY <1>3, <1>4, <1>5 DEF OnConstraintsChanged, Elsewhere, config, repeating, cadence,
                            IInv, ModeOfCalls
<1> QED BY <1>4, <1>5, <1>6, <1>7, ElsewhereKeeps DEF OnConstraintsChanged

LEMMA DiscardedTaskKeeps == ASSUME IInv, DiscardedTask PROVE IInv'
<1>1. Take("discarded")
    BY DEF DiscardedTask
<1>2. /\ tasks' \in Seq(Tasks) /\ ~sending.on /\ Head(tasks).kind = "discarded"
      /\ Cardinality(FrameTasks') = Cardinality(FrameTasks) - IsFrame(Head(tasks))
      /\ FrameTasks' = {} <=> Cardinality(FrameTasks') = 0
    BY <1>1, Taken DEF IInv, Typed, QueuesTyped
<1>3. IsFrame(Head(tasks)) = 0 /\ Cardinality(FrameTasks) \in Nat
    BY <1>2, FrameTasksCounted DEF IInv, Typed, QueuesTyped, IsFrame
<1>4. frames_scheduled_for_processing_ = Cardinality(FrameTasks)
    BY DEF IInv, OverloadCovered
<1>5. Typed'
    BY <1>2 DEF DiscardedTask, environment, IInv, Typed, ConfigTyped, QueuesTyped,
                MembersTyped, config, repeating, vsync
<1>6. Elsewhere
  <2>1. max_fps_ # Unset => 3 * frame_delay_ \in Int \ {Unset}
      BY Delays DEF frame_delay_, IInv, Typed, ConfigTyped
  <2>2. ZeroHertz => refresh_frame_requester_ \in Int
      BY DEF IInv, ModeOfCalls
  <2>3. ZeroHertz => refresh_frame_requester_' \in Int \ {Unset}
      BY <2>1, <2>2 DEF DiscardedTask, ZeroHertz
  <2> QED BY <1>2, <1>3, <1>4, <2>3 DEF DiscardedTask, Elsewhere, config, repeating
<1> QED BY <1>3, <1>4, <1>5, <1>6, ElsewhereKeeps DEF DiscardedTask

LEMMA VSyncTaskKeeps == ASSUME IInv, VSyncTask PROVE IInv'
<1>1. Take("vsync")
    BY DEF VSyncTask
<1>2. /\ tasks' \in Seq(Tasks) /\ ~sending.on /\ Head(tasks).kind = "vsync"
      /\ Cardinality(FrameTasks') = Cardinality(FrameTasks) - IsFrame(Head(tasks))
      /\ FrameTasks' = {} <=> Cardinality(FrameTasks') = 0
    BY <1>1, Taken DEF IInv, Typed, QueuesTyped
<1>3. IsFrame(Head(tasks)) = 0 /\ Cardinality(FrameTasks) \in Nat
    BY <1>2, FrameTasksCounted DEF IInv, Typed, QueuesTyped, IsFrame
<1>4. frames_scheduled_for_processing_ = Cardinality(FrameTasks)
    BY DEF IInv, OverloadCovered
<1>5. Typed'
    BY <1>2 DEF VSyncTask, environment, IInv, Typed, ConfigTyped, QueuesTyped,
                MembersTyped, config, repeating, vsync, cadence
<1>6. Elsewhere
    BY <1>2, <1>3, <1>4 DEF VSyncTask, Elsewhere, config, repeating, cadence,
                            IInv, ModeOfCalls
<1> QED BY <1>3, <1>4, <1>5, <1>6, ElsewhereKeeps DEF VSyncTask

LEMMA RestrictionsKeep == ASSUME IInv, UpdateVideoSourceRestrictions PROVE IInv'
<1>1. UNCHANGED <<tasks, frames_scheduled_for_processing_>>
    BY DEF UpdateVideoSourceRestrictions
<1>2. /\ FrameTasks' = FrameTasks /\ Cardinality(FrameTasks) \in Nat
      /\ FrameTasks = {} <=> Cardinality(FrameTasks) = 0
      /\ frames_scheduled_for_processing_ \in Nat
    BY <1>1, TasksStay
<1>3. Typed'
  <2>1. PICK rate \in Restricted \cup {Unset} :
           /\ restricted_max_frame_rate_' = rate
           /\ restricted_frame_delay_' =
                 IF max_fps_ # Unset THEN RestrictedDelay(rate) ELSE Unset
      BY DEF UpdateVideoSourceRestrictions
  <2>2. restricted_frame_delay_' \in Int
      BY <2>1, Delays DEF RestrictedDelay
  <2> QED BY <2>1, <2>2 DEF UpdateVideoSourceRestrictions, IInv, Typed, ConfigTyped,
             QueuesTyped, MembersTyped, repeating, vsync
<1>4. Elsewhere
    BY <1>2 DEF UpdateVideoSourceRestrictions, Elsewhere, repeating,
                            IInv, ModeOfCalls
<1> QED BY <1>1, <1>2, <1>3, <1>4, ElsewhereKeeps

LEMMA TrackLayersKeeps ==
    ASSUME IInv, NEW trackers, TrackLayers(trackers) PROVE IInv'
<1>1. UNCHANGED <<tasks, frames_scheduled_for_processing_>>
    BY DEF TrackLayers
<1>2. /\ FrameTasks' = FrameTasks /\ Cardinality(FrameTasks) \in Nat
      /\ FrameTasks = {} <=> Cardinality(FrameTasks) = 0
      /\ frames_scheduled_for_processing_ \in Nat
    BY <1>1, TasksStay
<1>3. Typed'
    BY DEF TrackLayers, IInv, Typed, ConfigTyped, QueuesTyped, MembersTyped, config,
           repeating, vsync
<1>4. Elsewhere
    BY <1>2 DEF TrackLayers, Elsewhere, config, repeating,
                            IInv, ModeOfCalls
<1> QED BY <1>1, <1>2, <1>3, <1>4, ElsewhereKeeps

LEMMA RequestRefreshFrameKeeps == ASSUME IInv, RequestRefreshFrame PROVE IInv'
<1>1. UNCHANGED <<tasks, frames_scheduled_for_processing_>>
    BY DEF RequestRefreshFrame
<1>2. /\ FrameTasks' = FrameTasks /\ Cardinality(FrameTasks) \in Nat
      /\ FrameTasks = {} <=> Cardinality(FrameTasks) = 0
      /\ frames_scheduled_for_processing_ \in Nat
    BY <1>1, TasksStay
<1>3. Typed'
    BY DEF RequestRefreshFrame, environment, IInv, Typed, ConfigTyped, QueuesTyped,
           MembersTyped, config, repeating, vsync
<1>4. ZeroHertz => refresh_frame_requester_' \in Int \ {Unset}
    BY Delays DEF RequestRefreshFrame, frame_delay_, ZeroHertz, IInv, Typed, ConfigTyped
<1>5. Elsewhere
    BY <1>2, <1>4 DEF RequestRefreshFrame, Elsewhere, config, repeating
<1> QED BY <1>1, <1>2, <1>3, <1>5, ElsewhereKeeps

\* The frames that come back from the metronome are no frames of OnFrame's.
LEMMA EncodeAllPosts ==
    ASSUME tasks \in Seq(Tasks), NEW input \in Seq(Frames), EncodeAll(input)
    PROVE  tasks' \in Seq(Tasks) /\ FrameTasks' = FrameTasks
<1> DEFINE posted == [k \in DOMAIN input |->
                         [kind |-> "vsync", age |-> 0, frame |-> input[k]]]
<1>1. tasks' = tasks \o posted
    BY DEF EncodeAll
<1>2. DOMAIN input = 1..Len(input) /\ Len(input) \in Nat
      /\ \A k \in 1..Len(input) : input[k] \in Frames
    OBVIOUS
<1>3. \A k \in 1..Len(input) : posted[k] \in Tasks /\ posted[k].kind # "frame"
    BY <1>2 DEF Tasks
<1>4. posted \in Seq(Tasks) /\ Len(posted) = Len(input)
    BY <1>2, <1>3
<1> HIDE DEF posted
<1>5. /\ tasks' \in Seq(Tasks) /\ Len(tasks') = Len(tasks) + Len(posted)
      /\ \A k \in 1..Len(tasks) : tasks'[k] = tasks[k]
      /\ \A k \in (Len(tasks) + 1)..(Len(tasks) + Len(posted)) :
            tasks'[k] = posted[k - Len(tasks)]
  <2>1. tasks \o posted \in Seq(Tasks) /\ Len(tasks \o posted) = Len(tasks) + Len(posted)
      BY <1>4
  <2>2. \A k \in 1..Len(tasks) : (tasks \o posted)[k] = tasks[k]
      BY <1>4
  <2>3. \A k \in (Len(tasks) + 1)..(Len(tasks) + Len(posted)) :
           (tasks \o posted)[k] = posted[k - Len(tasks)]
      BY <1>4
  <2> QED BY <1>1, <2>1, <2>2, <2>3
<1>6. \A k \in (Len(tasks) + 1)..(Len(tasks) + Len(posted)) : tasks'[k].kind # "frame"
    BY <1>2, <1>3, <1>4, <1>5
<1>7. DOMAIN tasks' = 1..(Len(tasks) + Len(posted)) /\ DOMAIN tasks = 1..Len(tasks)
      /\ Len(tasks) \in Nat /\ Len(posted) \in Nat
    BY <1>4, <1>5
<1>8. FrameTasks' = FrameTasks
    BY <1>5, <1>6, <1>7 DEF FrameTasks
<1> QED BY <1>5, <1>8

LEMMA VSyncOnFrameKeeps == ASSUME IInv, VSyncOnFrame PROVE IInv'
<1> DEFINE input == Append(input_queue_, Head(worker_tasks))
<1>1. /\ worker_tasks' \in Seq(Frames) /\ Head(worker_tasks) \in Frames
      /\ input \in Seq(Frames)
    BY DEF VSyncOnFrame, IInv, Typed, QueuesTyped
<1>2. \/ input_queue_' = input /\ UNCHANGED tasks
      \/ EncodeAll(input)
    BY DEF VSyncOnFrame
<1>3. UNCHANGED frames_scheduled_for_processing_
    BY DEF VSyncOnFrame
<1>4. /\ Cardinality(FrameTasks) \in Nat
      /\ FrameTasks = {} <=> Cardinality(FrameTasks) = 0
      /\ frames_scheduled_for_processing_ = Cardinality(FrameTasks)
    BY FrameTasksCounted DEF IInv, Typed, QueuesTyped, OverloadCovered
<1>5. FrameTasks' = FrameTasks /\ tasks' \in Seq(Tasks) /\ input_queue_' \in Seq(Frames)
  <2>1. CASE input_queue_' = input /\ UNCHANGED tasks
      BY <1>1, <2>1 DEF FrameTasks, IInv, Typed, QueuesTyped
  <2>2. CASE EncodeAll(input)
    <3>1. tasks \in Seq(Tasks) /\ input_queue_' = <<>>
        BY <2>2 DEF EncodeAll, IInv, Typed, QueuesTyped
    <3>2. FrameTasks' = FrameTasks /\ tasks' \in Seq(Tasks)
        BY <1>1, <2>2, <3>1, EncodeAllPosts
    <3> QED BY <3>1, <3>2
  <2> QED BY <1>2, <2>1, <2>2
<1> HIDE DEF input
<1>6. Typed'
    BY <1>1, <1>5 DEF VSyncOnFrame, environment, IInv, Typed, ConfigTyped, QueuesTyped,
           MembersTyped, config, repeating, cadence
<1>7. Elsewhere
    BY <1>4, <1>5 DEF VSyncOnFrame, Elsewhere, config, repeating, cadence, IInv,
                      ModeOfCalls
<1> QED BY <1>3, <1>4, <1>6, <1>7, ElsewhereKeeps

LEMMA EncodeAllEnqueuedFramesKeeps ==
    ASSUME IInv, EncodeAllEnqueuedFrames PROVE IInv'
<1>1. EncodeAll(input_queue_) /\ UNCHANGED frames_scheduled_for_processing_
    BY DEF EncodeAllEnqueuedFrames
<1>2. /\ Cardinality(FrameTasks) \in Nat
      /\ FrameTasks = {} <=> Cardinality(FrameTasks) = 0
      /\ frames_scheduled_for_processing_ = Cardinality(FrameTasks)
    BY FrameTasksCounted DEF IInv, Typed, QueuesTyped, OverloadCovered
<1>3. FrameTasks' = FrameTasks /\ tasks' \in Seq(Tasks) /\ input_queue_' \in Seq(Frames)
  <2>1. tasks \in Seq(Tasks) /\ input_queue_ \in Seq(Frames) /\ input_queue_' = <<>>
      BY <1>1 DEF EncodeAll, IInv, Typed, QueuesTyped
  <2>2. FrameTasks' = FrameTasks /\ tasks' \in Seq(Tasks)
      BY <1>1, <2>1, EncodeAllPosts
  <2> QED BY <2>1, <2>2
<1>4. Typed'
    BY <1>3 DEF EncodeAllEnqueuedFrames, environment, IInv, Typed, ConfigTyped,
                QueuesTyped, MembersTyped, config, repeating, cadence
<1>5. Elsewhere
    BY <1>2, <1>3 DEF EncodeAllEnqueuedFrames, Elsewhere, config, repeating, cadence,
                      IInv, ModeOfCalls
<1> QED BY <1>1, <1>2, <1>4, <1>5, ElsewhereKeeps

-----------------------------------------------------------------------------
(* Changes of the configuration.                                            *)

\* A step that reconfigures the adapters keeps the invariant, if the configuration
\* is set to what the mode was made for, the queue had no call under way or the mode
\* stays, and posted tasks are counted.
LEMMA ReconfigurationKeeps ==
    ASSUME IInv, NEW was \in BOOLEAN, NEW c \in Constraints, NEW p \in {Unset, 0, 1},
           IsZeroHertzScreenshareEnabled(c, p) /\ was => ZeroHertz,
           ~IsZeroHertzScreenshareEnabled(c, p) /\ ~was => ~ZeroHertz,
           MaybeReconfigureAdapters(was, c, p),
           source_constraints_' = c, zero_hertz_params_' = p,
           sending.on => (ZeroHertz <=> IsZeroHertzScreenshareEnabled(c, p)),
           UNCHANGED <<frames_scheduled_for_processing_, sending, captured, vsync,
                       restricted_max_frame_rate_>>,
           tasks' \in Seq(Tasks), Cardinality(FrameTasks') = Cardinality(FrameTasks),
           FrameTasks' = {} <=> FrameTasks = {}
    PROVE  IInv'
<1>1. ConfigTyped
    BY DEF IInv, Typed
<1>2. /\ max_fps_' \in MaxFps \cup {Unset} /\ restricted_frame_delay_' \in Int
      /\ ZeroHertz' <=> IsZeroHertzScreenshareEnabled(c, p)
      /\ ZeroHertz' <=> current_adapter_mode_' = "zero_hertz"
      /\ ZeroHertz' => c.max \in {max_fps_', ToUint32(max_fps_')}
      /\ \/ UNCHANGED <<repeating, max_fps_, cadence_tasks, queue_overload_count_,
                        refresh_frame_requester_>>
         \/ /\ NoZeroHertzState
            /\ ZeroHertz' => refresh_frame_requester_' \in Int \ {Unset}
    BY <1>1, Reconfigured
<1>3. AdapterMatchesConfig'
    BY <1>2 DEF AdapterMatchesConfig
<1>4. sending.on => (ZeroHertz' <=> ZeroHertz)
    BY <1>2
<1>5. /\ Cardinality(FrameTasks) \in Nat
      /\ frames_scheduled_for_processing_' = Cardinality(FrameTasks')
    BY FrameTasksCounted DEF IInv, Typed, QueuesTyped, OverloadCovered
<1>6. CASE UNCHANGED <<repeating, max_fps_, cadence_tasks, queue_overload_count_,
                       refresh_frame_requester_>>
  <2>1. ZeroHertz' <=> ZeroHertz
      BY <1>6 DEF ZeroHertz
  <2>2. OfTheQueue' /\ CurrentRepeats' = CurrentRepeats
      BY <1>6, <2>1, SameHeld DEF IInv, OfTheQueue, repeating
  <2>3. Typed'
      BY <1>2, <1>6 DEF IInv, Typed, ConfigTyped, QueuesTyped, MembersTyped, repeating,
                        vsync
  <2>4. ModeOfCalls'
      BY <1>6, <2>1 DEF IInv, ModeOfCalls
  <2>5. OverloadCovered'
      BY <1>5, <1>6 DEF IInv, OverloadCovered
  <2>6. NeverSilent'
      BY <1>6, <2>1, <2>2 DEF IInv, NeverSilent
  <2> QED BY <1>3, <2>2, <2>3, <2>4, <2>5, <2>6 DEF IInv, OfTheQueue
<1>7. CASE /\ NoZeroHertzState
           /\ ZeroHertz' => refresh_frame_requester_' \in Int \ {Unset}
  <2>1. /\ OfTheQueue' /\ queue_overload_count_' = 0 /\ CurrentRepeats' = {}
        /\ queued_frames_' \in Seq(Frames) /\ cadence_tasks' \in Seq(Int)
        /\ repeat_tasks' \in Seq(Repeats)
        /\ current_frame_id_' \in Int
        /\ DOMAIN scheduled_repeat_' = {"on", "since", "idle", "lag"}
        /\ scheduled_repeat_'.on \in BOOLEAN /\ scheduled_repeat_'.lag \in Int
      BY <1>7, NothingHeld
  <2>2. Typed'
      BY <1>2, <2>1 DEF IInv, Typed, ConfigTyped, QueuesTyped, MembersTyped, vsync
  <2>3. ModeOfCalls'
      BY <1>4, <1>7, <2>1 DEF IInv, ModeOfCalls
  <2>4. OverloadCovered'
    <3>1. Len(cadence_tasks') \in Nat
        BY <2>1
    <3>2. queue_overload_count_' <=
             Cardinality(FrameTasks') + Len(cadence_tasks')
                + (IF sending'.on /\ sending'.zero_hertz THEN 1 ELSE 0)
        BY <1>5, <2>1, <3>1
    <3> QED BY <1>5, <3>2 DEF OverloadCovered
  <2>5. NeverSilent'
      BY <1>7 DEF NeverSilent
  <2> QED BY <1>3, <2>1, <2>2, <2>3, <2>4, <2>5 DEF IInv, OfTheQueue
<1> QED BY <1>2, <1>6, <1>7

LEMMA ConstraintsTaskKeeps == ASSUME IInv, ConstraintsTask PROVE IInv'
<1> DEFINE c == Head(tasks).to
<1>1. Take("constraints")
    BY DEF ConstraintsTask
<1>2. /\ tasks' \in Seq(Tasks) /\ ~sending.on
      /\ Head(tasks) \in Tasks /\ Head(tasks).kind = "constraints"
      /\ Cardinality(FrameTasks') = Cardinality(FrameTasks) - IsFrame(Head(tasks))
      /\ FrameTasks' = {} <=> Cardinality(FrameTasks') = 0
    BY <1>1, Taken DEF IInv, Typed, QueuesTyped
<1>3. IsFrame(Head(tasks)) = 0 /\ Cardinality(FrameTasks) \in Nat
      /\ (FrameTasks = {} <=> Cardinality(FrameTasks) = 0)
    BY <1>2, FrameTasksCounted DEF IInv, Typed, QueuesTyped, IsFrame
<1>4. c \in Constraints
    BY <1>2 DEF Tasks
<1>5. ZeroHertz <=> IsZeroHertzScreenshareEnabled(source_constraints_, zero_hertz_params_)
    BY DEF IInv, AdapterMatchesConfig
<1>6. PICK was \in BOOLEAN : was <=> ZeroHertz
    OBVIOUS
<1>7. MaybeReconfigureAdapters(was, c, zero_hertz_params_)
    BY <1>5, <1>6 DEF ConstraintsTask, MaybeReconfigureAdapters
<1>8. /\ zero_hertz_params_ \in {Unset, 0, 1}
      /\ source_constraints_' = c /\ zero_hertz_params_' = zero_hertz_params_
      /\ UNCHANGED <<frames_scheduled_for_processing_, sending, captured, vsync,
                     restricted_max_frame_rate_>>
    BY DEF ConstraintsTask, environment, IInv, Typed, ConfigTyped
<1>9. /\ Cardinality(FrameTasks') = Cardinality(FrameTasks)
      /\ FrameTasks' = {} <=> FrameTasks = {}
    BY <1>2, <1>3
<1> HIDE DEF c
<1> QED BY <1>2, <1>4, <1>6, <1>7, <1>8, <1>9, ReconfigurationKeeps

\* The encoder's caller asks only whether there were parameters; with the same
\* constraints that is the same question.
LEMMA SetZeroHertzModeEnabledKeeps ==
    ASSUME IInv, SetZeroHertzModeEnabled PROVE IInv'
<1>1. PICK p \in {Unset, 0, 1} :
         /\ sending.on => zero_hertz_params_ # Unset /\ p # Unset
         /\ zero_hertz_params_' = p
         /\ MaybeReconfigureAdapters(zero_hertz_params_ # Unset, source_constraints_, p)
    BY DEF SetZeroHertzModeEnabled
<1>2. ZeroHertz <=> IsZeroHertzScreenshareEnabled(source_constraints_, zero_hertz_params_)
    BY DEF IInv, AdapterMatchesConfig
<1>3. PICK was \in BOOLEAN : was <=> zero_hertz_params_ # Unset
    OBVIOUS
<1>4. MaybeReconfigureAdapters(was, source_constraints_, p)
    BY <1>1, <1>3 DEF MaybeReconfigureAdapters
<1>5. /\ IsZeroHertzScreenshareEnabled(source_constraints_, p) /\ was => ZeroHertz
      /\ ~IsZeroHertzScreenshareEnabled(source_constraints_, p) /\ ~was => ~ZeroHertz
      /\ sending.on => (ZeroHertz <=> IsZeroHertzScreenshareEnabled(source_constraints_, p))
    BY <1>1, <1>2, <1>3 DEF IsZeroHertzScreenshareEnabled
<1>6. /\ source_constraints_ \in Constraints /\ source_constraints_' = source_constraints_
      /\ UNCHANGED <<frames_scheduled_for_processing_, sending, captured, vsync,
                     restricted_max_frame_rate_>>
      /\ UNCHANGED tasks
    BY DEF SetZeroHertzModeEnabled, IInv, Typed, ConfigTyped
<1>7. /\ FrameTasks' = FrameTasks /\ tasks' \in Seq(Tasks)
      /\ Cardinality(FrameTasks') = Cardinality(FrameTasks)
    BY <1>6 DEF FrameTasks, IInv, Typed, QueuesTyped
<1> QED BY <1>1, <1>4, <1>5, <1>6, <1>7, ReconfigurationKeeps

-----------------------------------------------------------------------------
(* The mode's own steps.                                                    *)

\* What the invariant says of the count of flags and of posted frames.
LEMMA Accounts ==
    ASSUME IInv
    PROVE  /\ Cardinality(FrameTasks) \in Nat
           /\ FrameTasks = {} <=> Cardinality(FrameTasks) = 0
           /\ frames_scheduled_for_processing_ = Cardinality(FrameTasks)
           /\ queue_overload_count_ \in Nat /\ Len(cadence_tasks) \in Nat
           /\ Len(queued_frames_) \in Nat
           /\ queue_overload_count_ <=
                 Cardinality(FrameTasks) + Len(cadence_tasks)
                    + (IF sending.on /\ sending.zero_hertz THEN 1 ELSE 0)
           /\ queued_frames_ # <<>> => ZeroHertz
BY FrameTasksCounted DEF IInv, Typed, QueuesTyped, MembersTyped, OverloadCovered,
                         QueueAccounted

\* The durations of repeats are numbers while the mode runs.
LEMMA Durations ==
    ASSUME IInv, ZeroHertz
    PROVE  FrameDuration \in Int /\ Second \in Int
BY Delays, RatesDivide DEF FrameDuration, LargerOf, frame_delay_, ZeroHertz, IInv,
                           Typed, ConfigTyped

\* No repeat is newer than the current one.
LEMMA RepeatsOlder ==
    ASSUME IInv
    PROVE  /\ repeat_tasks \in Seq(Repeats) /\ current_frame_id_ \in Int
           /\ \A k \in 1..Len(repeat_tasks) :
                 /\ repeat_tasks[k] \in Repeats /\ repeat_tasks[k].id \in Int
                 /\ repeat_tasks[k].id < current_frame_id_ + 1
<1>1. /\ repeat_tasks \in Seq(Repeats) /\ current_frame_id_ \in Int
      /\ \A k \in DOMAIN repeat_tasks : repeat_tasks[k].id <= current_frame_id_
    BY DEF IInv, Typed, QueuesTyped, MembersTyped, RepeatsCurrent
<1>2. DOMAIN repeat_tasks = 1..Len(repeat_tasks)
    BY <1>1
<1>3. \A k \in 1..Len(repeat_tasks) : repeat_tasks[k] \in Repeats
    BY <1>1
<1>4. \A k \in 1..Len(repeat_tasks) : repeat_tasks[k].id \in Int
    BY <1>3 DEF Repeats
<1>5. \A k \in 1..Len(repeat_tasks) : repeat_tasks[k].id < current_frame_id_ + 1
  <2> TAKE k \in 1..Len(repeat_tasks)
  <2>1. repeat_tasks[k].id <= current_frame_id_ /\ repeat_tasks[k].id \in Int
      BY <1>1, <1>2, <1>4
  <2>2. current_frame_id_ \in Int
      BY <1>1
  <2>3. \A i, j \in Int : i <= j => i < j + 1
      OBVIOUS
  <2> QED BY <2>1, <2>2, <2>3
<1> QED BY <1>1, <1>3, <1>4, <1>5

\* No repeat is current any more; a frame that was posted takes over.
LEMMA SendFrameReturnsKeeps == ASSUME IInv, SendFrameReturns PROVE IInv'
<1>1. /\ sending.on /\ sending' = NotSending
      /\ UNCHANGED <<config, frames_scheduled_for_processing_, queued_frames_,
                     scheduled_repeat_, repeat_tasks, cadence, vsync, tasks, captured>>
    BY DEF SendFrameReturns, environment
<1>2. /\ ZeroHertz' <=> ZeroHertz
      /\ FrameTasks' = FrameTasks
    BY <1>1 DEF ZeroHertz, FrameTasks, cadence
<1>3. AdapterMatchesConfig'
    BY <1>1, <1>2 DEF IInv, AdapterMatchesConfig, config, cadence
<1>4. QueueAccounted'
    BY <1>1, <1>2 DEF IInv, QueueAccounted, cadence
<1>5. NotSending \in [on : BOOLEAN, zero_hertz : BOOLEAN, elapsed : Int, dropped : BOOLEAN]
      /\ ~NotSending.on
    BY DEF NotSending
<1>6. CASE sending.zero_hertz /\ Overloaded
  <2>1. /\ queue_overload_count_' = frames_scheduled_for_processing_
        /\ current_frame_id_' = current_frame_id_ + 1
        /\ frames_scheduled_for_processing_ > 0
      BY <1>6 DEF SendFrameReturns, FramesToFlag, Overloaded
  <2>2. ZeroHertz
      BY <1>1, <1>6 DEF IInv, ModeOfCalls
  <2>3. Typed'
      BY <1>1, <1>5, <2>1, Accounts DEF IInv, Typed, ConfigTyped, QueuesTyped,
                                        MembersTyped, config, cadence, vsync
  <2>4. \A k \in DOMAIN repeat_tasks :
           repeat_tasks[k].id < current_frame_id_ + 1 /\ repeat_tasks[k].id \in Int
      BY RepeatsOlder
  <2>5. RepeatsCurrent'
      BY <1>1, <2>1, <2>4, RepeatsOlder DEF RepeatsCurrent
  <2>6. ModeOfCalls'
      BY <1>1, <1>2, <1>5, <2>2 DEF IInv, ModeOfCalls, cadence
  <2>7. OverloadCovered'
    <3>1. Len(cadence_tasks') = Len(cadence_tasks)
        BY <1>1 DEF cadence
    <3>2. queue_overload_count_' <=
             Cardinality(FrameTasks') + Len(cadence_tasks')
                + (IF sending'.on /\ sending'.zero_hertz THEN 1 ELSE 0)
        BY <1>1, <1>2, <1>5, <2>1, <3>1, Accounts
    <3>3. frames_scheduled_for_processing_' = Cardinality(FrameTasks')
        BY <1>1, <1>2, Accounts
    <3> QED BY <3>2, <3>3 DEF OverloadCovered
  <2>8. NeverSilent'
      BY <1>2, <2>1, Accounts DEF NeverSilent
  <2> QED BY <1>3, <1>4, <2>3, <2>5, <2>6, <2>7, <2>8 DEF IInv
<1>7. CASE ~(sending.zero_hertz /\ Overloaded)
  <2>1. /\ queue_overload_count_' =
              IF sending.zero_hertz /\ queue_overload_count_ > 0
              THEN queue_overload_count_ - 1 ELSE queue_overload_count_
        /\ current_frame_id_' = current_frame_id_
      BY <1>7 DEF SendFrameReturns
  <2>2. queue_overload_count_' \in Nat
        /\ (queue_overload_count_ = 0 => queue_overload_count_' = 0)
      BY <2>1, Accounts
  <2>3. Typed'
      BY <1>1, <1>5, <2>1, <2>2 DEF IInv, Typed, ConfigTyped, QueuesTyped,
                                    MembersTyped, config, cadence, vsync
  <2>4. RepeatsCurrent' /\ CurrentRepeats' = CurrentRepeats
      BY <1>1, <2>1 DEF IInv, RepeatsCurrent, CurrentRepeats
  <2>5. ModeOfCalls'
      BY <1>1, <1>2, <1>5, <2>2 DEF IInv, ModeOfCalls, cadence
  <2>6. OverloadCovered'
    <3>1. Len(cadence_tasks') = Len(cadence_tasks)
        BY <1>1 DEF cadence
    <3>2. queue_overload_count_' <=
             Cardinality(FrameTasks') + Len(cadence_tasks')
                + (IF sending'.on /\ sending'.zero_hertz THEN 1 ELSE 0)
        BY <1>1, <1>2, <1>5, <2>1, <3>1, Accounts
    <3>3. frames_scheduled_for_processing_' = Cardinality(FrameTasks')
        BY <1>1, <1>2, Accounts
    <3> QED BY <3>2, <3>3 DEF OverloadCovered
  <2>7. NeverSilent'
      BY <1>1, <1>2, <2>4 DEF IInv, NeverSilent, cadence
  <2> QED BY <1>3, <1>4, <2>3, <2>4, <2>5, <2>6, <2>7 DEF IInv
<1> QED BY <1>6, <1>7

\* A short repeat gets an id that no repeat has.
LEMMA ProcessKeyFrameRequestKeeps ==
    ASSUME IInv, ProcessKeyFrameRequest PROVE IInv'
<1>1. /\ ~sending.on /\ ZeroHertz
      /\ UNCHANGED <<config, frames_scheduled_for_processing_, queued_frames_, max_fps_,
                     restricted_frame_delay_, refresh_frame_requester_, cadence_tasks,
                     queue_overload_count_, vsync, tasks, sending, captured>>
    BY DEF ProcessKeyFrameRequest, Idle, ZeroHertz
<1>2. /\ ZeroHertz' <=> ZeroHertz
      /\ FrameTasks' = FrameTasks
    BY <1>1 DEF ZeroHertz, FrameTasks
<1>3. AdapterMatchesConfig' /\ ModeOfCalls' /\ OverloadCovered'
    BY <1>1, <1>2 DEF IInv, AdapterMatchesConfig, ModeOfCalls, OverloadCovered, config
<1>4. CASE RepeatComesSoon
  <2>1. UNCHANGED <<current_frame_id_, scheduled_repeat_, repeat_tasks>>
      BY <1>4 DEF ProcessKeyFrameRequest
  <2>2. Typed'
      BY <1>1, <2>1 DEF IInv, Typed, ConfigTyped, QueuesTyped, MembersTyped, config, vsync
  <2>3. OfTheQueue' /\ CurrentRepeats' = CurrentRepeats
      BY <1>1, <1>2, <2>1, SameHeld DEF IInv, OfTheQueue
  <2>4. NeverSilent'
      BY <1>1, <1>2, <2>3 DEF IInv, NeverSilent
  <2> QED BY <1>3, <2>2, <2>3, <2>4 DEF IInv, OfTheQueue
<1>5. CASE ~RepeatComesSoon
  <2> DEFINE task == [id |-> current_frame_id_ + 1, in |-> RepeatDuration(FALSE)]
  <2>1. /\ scheduled_repeat_.on
        /\ current_frame_id_' = current_frame_id_ + 1
        /\ scheduled_repeat_' = [on |-> TRUE, since |-> 0, idle |-> FALSE,
                                 lag |-> scheduled_repeat_.lag]
        /\ repeat_tasks' = Append(repeat_tasks, task)
      BY <1>5 DEF ProcessKeyFrameRequest, RepeatComesSoon, ShortRepeatId, ScheduleRepeat
  <2>2. task \in Repeats /\ task.id = current_frame_id_ + 1
      BY <1>1, Durations, RepeatsOlder DEF RepeatDuration, Repeats
  <2> HIDE DEF task
  <2>3. /\ repeat_tasks \in Seq(Repeats) /\ current_frame_id_ \in Int
        /\ scheduled_repeat_.lag \in Int
      BY DEF IInv, Typed, QueuesTyped, MembersTyped
  <2>4. /\ repeat_tasks' \in Seq(Repeats)
        /\ Len(repeat_tasks') = Len(repeat_tasks) + 1 /\ Len(repeat_tasks) \in Nat
        /\ \A k \in 1..Len(repeat_tasks) : repeat_tasks'[k] = repeat_tasks[k]
        /\ repeat_tasks'[Len(repeat_tasks) + 1] = task
      BY <2>1, <2>2, <2>3
  <2>5. \A k \in 1..Len(repeat_tasks) :
           repeat_tasks[k].id < current_frame_id_ + 1 /\ repeat_tasks[k].id \in Int
      BY RepeatsOlder
  <2>6. Typed'
      BY <1>1, <2>1, <2>3, <2>4 DEF IInv, Typed, ConfigTyped, QueuesTyped, MembersTyped,
                                    config, vsync
  <2>7. \A k \in DOMAIN repeat_tasks' : repeat_tasks'[k].id = current_frame_id_'
                                          <=> k = Len(repeat_tasks) + 1
      BY <2>1, <2>2, <2>3, <2>4, <2>5
  <2>8. RepeatsCurrent'
    <3>1. \A k \in DOMAIN repeat_tasks' : repeat_tasks'[k].id <= current_frame_id_'
        BY <2>1, <2>2, <2>3, <2>4, <2>5
    <3> QED BY <2>1, <2>7, <3>1 DEF RepeatsCurrent
  <2>9. QueueAccounted'
      BY <1>1, <1>2, <2>1 DEF IInv, QueueAccounted
  <2>10. NeverSilent'
    <3>1. Len(repeat_tasks) + 1 \in CurrentRepeats'
        BY <2>4, <2>7 DEF CurrentRepeats
    <3> QED BY <3>1 DEF NeverSilent
  <2> QED BY <1>3, <2>6, <2>8, <2>9, <2>10 DEF IInv
<1> QED BY <1>4, <1>5

LEMMA NotEmpty ==
    ASSUME NEW S, NEW s \in Seq(S) PROVE s # <<>> <=> Len(s) > 0
OBVIOUS

\* A task for the next frame finds it; the last frame stays, and the first repeat is
\* scheduled for it.
LEMMA ProcessOnDelayedCadenceKeeps ==
    ASSUME IInv, ProcessOnDelayedCadence PROVE IInv'
<1>1. /\ ~sending.on /\ cadence_tasks # <<>> /\ cadence_tasks' = Tail(cadence_tasks)
      /\ UNCHANGED <<config, frames_scheduled_for_processing_, current_frame_id_,
                     max_fps_, restricted_frame_delay_, refresh_frame_requester_,
                     layer_trackers_, queue_overload_count_, vsync, tasks, captured>>
    BY DEF ProcessOnDelayedCadence, Longest, Idle, environment
<1>2. /\ cadence_tasks \in Seq(Int) /\ queued_frames_ \in Seq(Frames)
      /\ scheduled_repeat_.on \in BOOLEAN
      /\ Len(queued_frames_) =
            Len(cadence_tasks) + (IF scheduled_repeat_.on THEN 1 ELSE 0)
      /\ scheduled_repeat_.on => Len(queued_frames_) = 1
      /\ repeat_tasks # <<>> => queued_frames_ # <<>>
      /\ ~ZeroHertz => queued_frames_ = <<>>
    BY DEF IInv, Typed, QueuesTyped, MembersTyped, QueueAccounted
<1>3. /\ cadence_tasks' \in Seq(Int) /\ Len(cadence_tasks') = Len(cadence_tasks) - 1
      /\ Len(cadence_tasks) \in Nat \ {0} /\ Len(queued_frames_) \in Nat \ {0}
      /\ ~scheduled_repeat_.on /\ Len(queued_frames_) = Len(cadence_tasks)
      /\ Head(queued_frames_) \in Frames
  <2>1. cadence_tasks' \in Seq(Int) /\ Len(cadence_tasks') = Len(cadence_tasks) - 1
        /\ Len(cadence_tasks) \in Nat \ {0} /\ Len(queued_frames_) \in Nat
      BY <1>1, <1>2
  <2>2. ~scheduled_repeat_.on /\ Len(queued_frames_) = Len(cadence_tasks)
      BY <1>2, <2>1
  <2>3. Head(queued_frames_) \in Frames
      BY <1>2, <2>1, <2>2
  <2> QED BY <2>1, <2>2, <2>3
<1>4. ZeroHertz /\ ZeroHertz'
    BY <1>1, <1>2, <1>3 DEF ZeroHertz
<1>5. sending'.on /\ sending'.zero_hertz
      /\ sending' \in [on : BOOLEAN, zero_hertz : BOOLEAN, elapsed : Int, dropped : BOOLEAN]
    BY DEF ProcessOnDelayedCadence, SendFrameNow
<1>6. AdapterMatchesConfig' /\ ModeOfCalls'
    BY <1>1, <1>4 DEF IInv, AdapterMatchesConfig, ModeOfCalls, config, ZeroHertz
<1>7. OverloadCovered'
  <2>1. FrameTasks' = FrameTasks
      BY <1>1 DEF FrameTasks
  <2>2. queue_overload_count_' <=
           Cardinality(FrameTasks') + Len(cadence_tasks')
              + (IF sending'.on /\ sending'.zero_hertz THEN 1 ELSE 0)
      BY <1>1, <1>3, <1>5, <2>1, Accounts
  <2>3. frames_scheduled_for_processing_' = Cardinality(FrameTasks')
      BY <1>1, <2>1, Accounts
  <2> QED BY <2>2, <2>3 DEF OverloadCovered
<1>8. \A k \in DOMAIN repeat_tasks : repeat_tasks[k].id # current_frame_id_
    BY <1>3 DEF IInv, RepeatsCurrent
<1>9. CASE Len(queued_frames_) > 1
  <2>1. queued_frames_' = Tail(queued_frames_) /\ UNCHANGED <<scheduled_repeat_, repeat_tasks>>
      BY <1>9 DEF ProcessOnDelayedCadence
  <2>2. queued_frames_' \in Seq(Frames) /\ Len(queued_frames_') = Len(queued_frames_) - 1
        /\ Len(queued_frames_') > 0 /\ Len(cadence_tasks') > 0
      BY <1>2, <1>3, <1>9, <2>1
  <2> queued_frames_' # <<>> /\ cadence_tasks' # <<>>
      BY <1>3, <2>2, NotEmpty
  <2>3. Typed'
      BY <1>1, <1>3, <1>5, <2>1, <2>2 DEF IInv, Typed, ConfigTyped, QueuesTyped,
                                          MembersTyped, config, vsync
  <2>4. QueueAccounted'
      BY <1>2, <1>3, <1>4, <2>1, <2>2 DEF QueueAccounted
  <2>5. RepeatsCurrent'
      BY <1>1, <2>1 DEF IInv, RepeatsCurrent
  <2>6. NeverSilent'
      BY <2>2 DEF NeverSilent
  <2> QED BY <1>6, <1>7, <2>3, <2>4, <2>5, <2>6 DEF IInv
<1>10. CASE ~(Len(queued_frames_) > 1)
  <2> DEFINE task == [id |-> current_frame_id_,
                      in |-> RepeatDuration(HasQualityConverged(layer_trackers_))]
  <2>1. /\ queued_frames_' = queued_frames_
        /\ scheduled_repeat_' = [on |-> TRUE, since |-> 0,
                                 idle |-> HasQualityConverged(layer_trackers_),
                                 lag |-> Head(queued_frames_).age]
        /\ repeat_tasks' = Append(repeat_tasks, task)
      BY <1>3, <1>10 DEF ProcessOnDelayedCadence, ScheduleRepeat
  <2>2. task \in Repeats /\ task.id = current_frame_id_
      BY <1>4, Durations, RepeatsOlder DEF RepeatDuration, Repeats
  <2> HIDE DEF task
  <2>3. /\ repeat_tasks' \in Seq(Repeats)
        /\ Len(repeat_tasks') = Len(repeat_tasks) + 1 /\ Len(repeat_tasks) \in Nat
        /\ \A k \in 1..Len(repeat_tasks) : repeat_tasks'[k] = repeat_tasks[k]
        /\ repeat_tasks'[Len(repeat_tasks) + 1] = task
      BY <2>1, <2>2, RepeatsOlder
  <2>4. /\ DOMAIN scheduled_repeat_' = {"on", "since", "idle", "lag"}
        /\ scheduled_repeat_'.on /\ scheduled_repeat_'.lag \in Int
      BY <1>3, <2>1 DEF Frames
  <2>5. Typed'
      BY <1>1, <1>2, <1>3, <1>5, <2>1, <2>3, <2>4 DEF IInv, Typed, ConfigTyped,
             QueuesTyped, MembersTyped, config, vsync
  <2>6. Len(queued_frames_') = 1 /\ Len(cadence_tasks') = 0
    <3>1. \A n \in Nat \ {0} : ~(n > 1) => n = 1
        OBVIOUS
    <3>2. Len(queued_frames_) = 1
        BY <1>3, <1>10, <3>1
    <3> QED BY <1>3, <2>1, <3>2
  <2> queued_frames_' # <<>>
      BY <1>2, <2>1, <2>6, NotEmpty
  <2>7. QueueAccounted'
      BY <1>4, <2>4, <2>6 DEF QueueAccounted
  <2>8. \A k \in DOMAIN repeat_tasks' : repeat_tasks'[k].id = current_frame_id_'
                                          <=> k = Len(repeat_tasks) + 1
      BY <1>1, <1>8, <2>2, <2>3, RepeatsOlder
  <2>9. RepeatsCurrent'
    <3>1. \A k \in DOMAIN repeat_tasks : repeat_tasks[k].id <= current_frame_id_
        BY DEF IInv, RepeatsCurrent
    <3>2. current_frame_id_ <= current_frame_id_
        BY RepeatsOlder
    <3>3. \A k \in DOMAIN repeat_tasks' : repeat_tasks'[k].id <= current_frame_id_'
        BY <1>1, <2>2, <2>3, <3>1, <3>2, RepeatsOlder
    <3> QED BY <2>4, <2>8, <3>3 DEF RepeatsCurrent
  <2>10. NeverSilent'
    <3>1. Len(repeat_tasks) + 1 \in CurrentRepeats'
        BY <2>3, <2>8 DEF CurrentRepeats
    <3> QED BY <3>1 DEF NeverSilent
  <2> QED BY <1>6, <1>7, <2>5, <2>7, <2>9, <2>10 DEF IInv
<1> QED BY <1>9, <1>10

\* The tasks without one: the k-th is gone, and each of the others is there once.
Without(s, k) == SubSeq(s, 1, k - 1) \o SubSeq(s, k + 1, Len(s))
LEMMA WithoutOne ==
    ASSUME NEW s \in Seq(Repeats), NEW k \in 1..Len(s)
    PROVE  /\ Without(s, k) \in Seq(Repeats) /\ Len(Without(s, k)) = Len(s) - 1
           /\ \A i \in 1..(Len(s) - 1) :
                 Without(s, k)[i] = s[IF i < k THEN i ELSE i + 1]
<1> DEFINE before == SubSeq(s, 1, k - 1)
           after == SubSeq(s, k + 1, Len(s))
<1>1. Len(s) \in Nat /\ k \in Nat \ {0} /\ k <= Len(s)
    OBVIOUS
<1>2. /\ before \in Seq(Repeats) /\ Len(before) = k - 1
      /\ \A i \in 1..(k - 1) : before[i] = s[i]
    BY <1>1
<1>3. /\ after \in Seq(Repeats) /\ Len(after) = Len(s) - k
      /\ \A i \in 1..(Len(s) - k) : after[i] = s[k + i]
  <2>1. CASE k = Len(s)
      BY <1>1, <2>1
  <2>2. CASE k < Len(s)
      BY <1>1, <2>2
  <2> QED BY <1>1, <2>1, <2>2
<1> HIDE DEF before, after
<1>4. /\ before \o after \in Seq(Repeats)
      /\ Len(before \o after) = Len(s) - 1
    BY <1>1, <1>2, <1>3
<1>5. ASSUME NEW i \in 1..(Len(s) - 1)
      PROVE  (before \o after)[i] = s[IF i < k THEN i ELSE i + 1]
  <2>1. CASE i < k
    <3>1. (before \o after)[i] = before[i]
        BY <1>1, <1>2, <1>3, <2>1
    <3> QED BY <1>1, <1>2, <2>1, <3>1
  <2>2. CASE ~(i < k)
    <3>1. (before \o after)[i] = after[i - (k - 1)]
        BY <1>1, <1>2, <1>3, <2>2
    <3>2. after[i - (k - 1)] = s[k + (i - (k - 1))]
        BY <1>1, <1>3, <2>2
    <3>3. k + (i - (k - 1)) = i + 1
        BY <1>1
    <3> QED BY <2>2, <3>1, <3>2, <3>3
  <2> QED BY <2>1, <2>2
<1> QED BY <1>4, <1>5 DEF Without, before, after

\* A repeat of an older frame ends; the current one goes on, by the same id.
LEMMA ProcessRepeatedKeeps ==
    ASSUME IInv, ProcessRepeatedFrameOnDelayedCadence PROVE IInv'
<1> DEFINE frame == [Head(queued_frames_) EXCEPT !.age = scheduled_repeat_.lag]
           idle == HasQualityConverged(layer_trackers_)
<1>1. PICK k \in DOMAIN repeat_tasks :
         /\ Longest(-repeat_tasks[k].in)
         /\ IF RepeatIsCurrent(repeat_tasks[k].id)
            THEN /\ queued_frames_' = <<frame>> \o Tail(queued_frames_)
                 /\ scheduled_repeat_' = [scheduled_repeat_ EXCEPT
                                             !.since = 0, !.idle = idle]
                 /\ repeat_tasks' = Append(Without(repeat_tasks, k),
                       [id |-> repeat_tasks[k].id, in |-> RepeatDuration(idle)])
                 /\ SendFrameNow(frame)
            ELSE /\ repeat_tasks' = Without(repeat_tasks, k)
                 /\ UNCHANGED <<queued_frames_, scheduled_repeat_, sending, output>>
    BY DEF ProcessRepeatedFrameOnDelayedCadence, Without
<1>2. UNCHANGED <<config, frames_scheduled_for_processing_, current_frame_id_, cadence,
                  queue_overload_count_, vsync, tasks, captured>>
    BY DEF ProcessRepeatedFrameOnDelayedCadence, environment
<1> DEFINE others == Without(repeat_tasks, k)
           n == Len(repeat_tasks)
           old(i) == IF i < k THEN i ELSE i + 1
<1>3. /\ repeat_tasks \in Seq(Repeats) /\ k \in 1..n /\ n \in Nat
      /\ DOMAIN repeat_tasks = 1..n /\ repeat_tasks # <<>>
    BY RepeatsOlder
<1>4. /\ others \in Seq(Repeats) /\ Len(others) = n - 1 /\ DOMAIN others = 1..(n - 1)
      /\ \A i \in 1..(n - 1) : others[i] = repeat_tasks[old(i)]
  <2>1. /\ others \in Seq(Repeats) /\ Len(others) = n - 1
        /\ \A i \in 1..(n - 1) : others[i] = repeat_tasks[old(i)]
      BY <1>3, WithoutOne
  <2> HIDE DEF others
  <2>2. DOMAIN others = 1..Len(others)
      BY <2>1
  <2> QED BY <2>1, <2>2
<1>5. /\ \A i \in 1..(n - 1) : old(i) \in 1..n /\ old(i) # k
      /\ \A i, j \in 1..(n - 1) : old(i) = old(j) => i = j
      /\ \A j \in 1..n : j # k => \E i \in 1..(n - 1) : old(i) = j
  <2>1. \A j \in 1..n : j < k => j \in 1..(n - 1) /\ old(j) = j
      BY <1>3
  <2>2. \A j \in 1..n : j > k => j - 1 \in 1..(n - 1) /\ old(j - 1) = j
      BY <1>3
  <2>3. \A j \in 1..n : j # k => j < k \/ j > k
      BY <1>3
  <2>4. /\ \A i \in 1..(n - 1) : old(i) \in 1..n /\ old(i) # k
        /\ \A i, j \in 1..(n - 1) : old(i) = old(j) => i = j
      BY <1>3
  <2> HIDE DEF old
  <2> QED BY <2>1, <2>2, <2>3, <2>4
<1> HIDE DEF others, old, n
<1>6. /\ queued_frames_ # <<>> /\ queued_frames_ \in Seq(Frames) /\ ZeroHertz
      /\ scheduled_repeat_.lag \in Int
      /\ DOMAIN scheduled_repeat_ = {"on", "since", "idle", "lag"}
    BY <1>3 DEF IInv, QueueAccounted, Typed, QueuesTyped, MembersTyped
<1>7. /\ \A i \in 1..n : repeat_tasks[i].id <= current_frame_id_
      /\ \A i, j \in 1..n :
            /\ repeat_tasks[i].id = current_frame_id_
            /\ repeat_tasks[j].id = current_frame_id_
            => i = j
      /\ \A i \in 1..n : repeat_tasks[i].id = current_frame_id_ => scheduled_repeat_.on
    BY <1>3 DEF IInv, RepeatsCurrent
<1>8. ~sending.on
    BY <1>1 DEF Longest, Idle
<1>9. /\ ZeroHertz' /\ FrameTasks' = FrameTasks
      /\ AdapterMatchesConfig'
    BY <1>2, <1>6 DEF ZeroHertz, FrameTasks, IInv, AdapterMatchesConfig, config, cadence
<1>10. CASE RepeatIsCurrent(repeat_tasks[k].id)
  <2> DEFINE task == [id |-> repeat_tasks[k].id, in |-> RepeatDuration(idle)]
  <2>1. /\ queued_frames_' = <<frame>> \o Tail(queued_frames_)
        /\ scheduled_repeat_' = [scheduled_repeat_ EXCEPT !.since = 0, !.idle = idle]
        /\ repeat_tasks' = Append(others, task)
        /\ repeat_tasks[k].id = current_frame_id_
        /\ SendFrameNow(frame)
      BY <1>1, <1>10 DEF RepeatIsCurrent, others
  <2>2. frame \in Frames
    <3>1. Head(queued_frames_) \in Frames
        BY <1>6
    <3> QED BY <1>6, <3>1 DEF Frames
  <2> HIDE DEF frame, idle
  <2>3. /\ queued_frames_' \in Seq(Frames) /\ Len(queued_frames_') = Len(queued_frames_)
        /\ Len(queued_frames_') > 0
    <3>1. Tail(queued_frames_) \in Seq(Frames)
          /\ Len(Tail(queued_frames_)) = Len(queued_frames_) - 1
          /\ Len(queued_frames_) \in Nat \ {0}
        BY <1>6
    <3>2. <<frame>> \in Seq(Frames) /\ Len(<<frame>>) = 1
        BY <2>2
    <3> QED BY <2>1, <3>1, <3>2
  <2>4. queued_frames_' # <<>>
      BY <2>3, NotEmpty
  <2>5. /\ DOMAIN scheduled_repeat_' = {"on", "since", "idle", "lag"}
        /\ scheduled_repeat_'.on = scheduled_repeat_.on
        /\ scheduled_repeat_'.lag = scheduled_repeat_.lag
      BY <1>6, <2>1
  <2>6. task \in Repeats /\ task.id = current_frame_id_
      BY <1>6, <2>1, Durations, RepeatsOlder DEF RepeatDuration, Repeats
  <2> HIDE DEF task
  <2>7. /\ repeat_tasks' \in Seq(Repeats) /\ DOMAIN repeat_tasks' = 1..n
        /\ \A i \in 1..(n - 1) : repeat_tasks'[i] = others[i]
        /\ repeat_tasks'[n] = task
      BY <1>3, <1>4, <2>1, <2>6
  <2>8. sending'.on /\ sending'.zero_hertz
        /\ sending' \in [on : BOOLEAN, zero_hertz : BOOLEAN, elapsed : Int, dropped : BOOLEAN]
      BY <2>1 DEF SendFrameNow
  <2>9. Typed'
      BY <1>2, <2>3, <2>5, <2>7, <2>8 DEF IInv, Typed, ConfigTyped, QueuesTyped,
             MembersTyped, config, cadence, vsync
  <2>10. QueueAccounted'
      BY <1>2, <1>9, <2>3, <2>4, <2>5 DEF IInv, QueueAccounted, cadence
  <2>11. \A i \in 1..(n - 1) : others[i].id # current_frame_id_
      BY <1>3, <1>4, <1>5, <1>7, <2>1
  <2>12. \A i \in 1..n : repeat_tasks'[i].id = current_frame_id_ <=> i = n
      BY <1>3, <2>6, <2>7, <2>11
  <2>13. \A i \in 1..n : repeat_tasks'[i].id <= current_frame_id_
    <3>1. \A i \in 1..(n - 1) : others[i].id <= current_frame_id_
        BY <1>4, <1>5, <1>7
    <3>2. current_frame_id_ <= current_frame_id_
        BY RepeatsOlder
    <3> QED BY <1>3, <2>6, <2>7, <3>1, <3>2
  <2>14. scheduled_repeat_'.on
      BY <1>3, <1>7, <2>1, <2>5
  <2>15. current_frame_id_' = current_frame_id_
      BY <1>2
  <2>16. RepeatsCurrent'
      BY <2>7, <2>12, <2>13, <2>14, <2>15 DEF RepeatsCurrent
  <2>17. ModeOfCalls'
      BY <1>2, <1>9 DEF IInv, ModeOfCalls, cadence, ZeroHertz
  <2>18. OverloadCovered'
    <3>1. Len(cadence_tasks') = Len(cadence_tasks)
        BY <1>2 DEF cadence
    <3>2. queue_overload_count_' <=
             Cardinality(FrameTasks') + Len(cadence_tasks')
                + (IF sending'.on /\ sending'.zero_hertz THEN 1 ELSE 0)
        BY <1>2, <1>8, <1>9, <2>8, <3>1, Accounts
    <3>3. frames_scheduled_for_processing_' = Cardinality(FrameTasks')
        BY <1>2, <1>9, Accounts
    <3> QED BY <3>2, <3>3 DEF OverloadCovered
  <2>19. NeverSilent'
    <3>1. n \in CurrentRepeats'
        BY <1>3, <2>7, <2>12, <2>15 DEF CurrentRepeats
    <3> QED BY <3>1 DEF NeverSilent
  <2> QED BY <1>9, <2>9, <2>10, <2>16, <2>17, <2>18, <2>19 DEF IInv
<1>11. CASE ~RepeatIsCurrent(repeat_tasks[k].id)
  <2>1. /\ repeat_tasks' = others /\ repeat_tasks[k].id # current_frame_id_
        /\ UNCHANGED <<queued_frames_, scheduled_repeat_, sending>>
      BY <1>1, <1>11 DEF RepeatIsCurrent, others
  <2>2. Typed'
      BY <1>2, <1>4, <2>1 DEF IInv, Typed, ConfigTyped, QueuesTyped, MembersTyped,
                              config, cadence, vsync
  <2>3. QueueAccounted'
      BY <1>2, <1>6, <1>9, <2>1 DEF IInv, QueueAccounted, cadence
  <2>4. RepeatsCurrent'
      BY <1>2, <1>4, <1>5, <1>7, <2>1 DEF RepeatsCurrent
  <2>5. ModeOfCalls'
      BY <1>2, <1>6, <1>9, <2>1 DEF IInv, ModeOfCalls, cadence
  <2>6. OverloadCovered'
      BY <1>2, <1>9, <2>1 DEF IInv, OverloadCovered, cadence
  <2>7. CurrentRepeats # {} => CurrentRepeats' # {}
    <3>1. ASSUME NEW j \in 1..n, repeat_tasks[j].id = current_frame_id_
          PROVE  \E i \in 1..(n - 1) : others[i].id = current_frame_id_
        BY <1>4, <1>5, <2>1, <3>1
    <3> QED BY <1>2, <1>3, <1>4, <2>1, <3>1 DEF CurrentRepeats
  <2>8. NeverSilent'
      BY <1>2, <1>6, <1>9, <2>7 DEF IInv, NeverSilent, cadence
  <2> QED BY <1>9, <2>2, <2>3, <2>4, <2>5, <2>6, <2>8 DEF IInv
<1> QED BY <1>10, <1>11

\* In zero-hertz mode the frame takes the place of the one that is repeated.
LEMMA ZeroHertzOnFrameKeeps ==
    ASSUME IInv, NEW frame \in Frames, ZeroHertzOnFrame(frame), ~sending.on,
           current_adapter_mode_ = "zero_hertz", tasks' \in Seq(Tasks),
           Cardinality(FrameTasks') = Cardinality(FrameTasks) - 1,
           frames_scheduled_for_processing_' = frames_scheduled_for_processing_ - 1,
           UNCHANGED <<config, queue_overload_count_, captured>>
    PROVE  IInv'
<1>1. /\ refresh_frame_requester_' = Unset
      /\ queued_frames_' = Append(FramesToKeep, frame)
      /\ current_frame_id_' = current_frame_id_ + 1
      /\ scheduled_repeat_' = NoRepeat
      /\ cadence_tasks' = Append(cadence_tasks, LargerOf(frame_delay_ - frame.age, 0))
      /\ UNCHANGED <<max_fps_, restricted_frame_delay_, repeat_tasks, vsync, sending>>
    BY DEF ZeroHertzOnFrame
<1>2. ZeroHertz /\ ZeroHertz'
    BY <1>1 DEF IInv, AdapterMatchesConfig, ZeroHertz
<1>3. LargerOf(frame_delay_ - frame.age, 0) \in Int
    BY <1>2, Delays DEF LargerOf, frame_delay_, ZeroHertz, Frames, IInv, Typed,
                        ConfigTyped
<1>4. /\ cadence_tasks \in Seq(Int) /\ queued_frames_ \in Seq(Frames)
      /\ scheduled_repeat_.on \in BOOLEAN
      /\ Len(queued_frames_) =
            Len(cadence_tasks) + (IF scheduled_repeat_.on THEN 1 ELSE 0)
      /\ scheduled_repeat_.on => Len(queued_frames_) = 1
    BY DEF IInv, Typed, QueuesTyped, MembersTyped, QueueAccounted
<1>5. FramesToKeep \in Seq(Frames) /\ Len(FramesToKeep) = Len(cadence_tasks)
  <2>1. CASE scheduled_repeat_.on
      BY <1>4, <2>1 DEF FramesToKeep
  <2>2. CASE ~scheduled_repeat_.on
      BY <1>4, <2>2 DEF FramesToKeep
  <2> QED BY <1>4, <2>1, <2>2
<1>6. /\ queued_frames_' \in Seq(Frames) /\ cadence_tasks' \in Seq(Int)
      /\ Len(cadence_tasks') = Len(cadence_tasks) + 1
      /\ Len(queued_frames_') = Len(cadence_tasks')
      /\ Len(cadence_tasks) \in Nat /\ Len(queued_frames_') > 0 /\ Len(cadence_tasks') > 0
    BY <1>1, <1>3, <1>4, <1>5
<1>7. queued_frames_' # <<>> /\ cadence_tasks' # <<>>
    BY <1>6, NotEmpty
<1>8. /\ DOMAIN scheduled_repeat_' = {"on", "since", "idle", "lag"}
      /\ ~scheduled_repeat_'.on /\ scheduled_repeat_'.on \in BOOLEAN
      /\ scheduled_repeat_'.lag \in Int
    BY <1>1 DEF NoRepeat
<1>9. Typed'
    BY <1>1, <1>6, <1>8 DEF IInv, Typed, ConfigTyped, QueuesTyped, MembersTyped, config,
                            vsync
<1>10. QueueAccounted'
    BY <1>2, <1>6, <1>7, <1>8 DEF QueueAccounted
<1>11. RepeatsCurrent'
  <2>1. \A i, j \in Int : i < j + 1 => i <= j + 1 /\ i # j + 1
      OBVIOUS
  <2>2. DOMAIN repeat_tasks = 1..Len(repeat_tasks)
      BY RepeatsOlder
  <2>3. \A k \in DOMAIN repeat_tasks :
           /\ repeat_tasks[k].id <= current_frame_id_ + 1
           /\ repeat_tasks[k].id # current_frame_id_ + 1
      BY <2>1, <2>2, RepeatsOlder
  <2> QED BY <1>1, <2>3 DEF RepeatsCurrent
<1>12. AdapterMatchesConfig'
    BY <1>1, <1>2 DEF IInv, AdapterMatchesConfig, config
<1>13. ModeOfCalls'
  <2>1. Unset \in Int
      BY Delays
  <2> QED BY <1>1, <1>2, <2>1 DEF IInv, ModeOfCalls
<1>14. OverloadCovered'
  <2>1. queue_overload_count_' <=
           Cardinality(FrameTasks') + Len(cadence_tasks')
              + (IF sending'.on /\ sending'.zero_hertz THEN 1 ELSE 0)
      BY <1>1, <1>6, Accounts
  <2>2. frames_scheduled_for_processing_' = Cardinality(FrameTasks')
      BY Accounts
  <2> QED BY <2>1, <2>2 DEF OverloadCovered
<1>15. NeverSilent'
    BY <1>7 DEF NeverSilent
<1> QED BY <1>9, <1>10, <1>11, <1>12, <1>13, <1>14, <1>15 DEF IInv

LEMMA FrameTaskKeeps == ASSUME IInv, FrameTask PROVE IInv'
<1> DEFINE frame == [id |-> Head(tasks).id, age |-> Head(tasks).age]
<1>1. Take("frame")
    BY DEF FrameTask
<1>2. /\ tasks' \in Seq(Tasks) /\ ~sending.on
      /\ Head(tasks) \in Tasks /\ Head(tasks).kind = "frame"
      /\ Cardinality(FrameTasks') = Cardinality(FrameTasks) - IsFrame(Head(tasks))
      /\ FrameTasks' = {} <=> Cardinality(FrameTasks') = 0
    BY <1>1, Taken DEF IInv, Typed, QueuesTyped
<1>3. IsFrame(Head(tasks)) = 1
    BY <1>2 DEF IsFrame
<1>4. frame \in Frames
    BY <1>2 DEF Tasks, Frames
<1>5. /\ frames_scheduled_for_processing_' = frames_scheduled_for_processing_ - 1
      /\ UNCHANGED <<config, queue_overload_count_, captured>>
    BY DEF FrameTask, environment
<1>6. \/ current_adapter_mode_ = "zero_hertz" /\ ZeroHertzOnFrame(frame)
      \/ current_adapter_mode_ = "base" /\ PassthroughOnFrame(frame)
      \/ current_adapter_mode_ = "base" /\ VSyncPostFrame(frame)
    BY DEF FrameTask
<1> HIDE DEF frame
<1>7. CASE current_adapter_mode_ = "zero_hertz" /\ ZeroHertzOnFrame(frame)
    BY <1>2, <1>3, <1>4, <1>5, <1>7, ZeroHertzOnFrameKeeps
<1>8. CASE \/ current_adapter_mode_ = "base" /\ PassthroughOnFrame(frame)
           \/ current_adapter_mode_ = "base" /\ VSyncPostFrame(frame)
  <2>1. /\ UNCHANGED <<repeating, cadence>>
        /\ worker_tasks' \in Seq(Frames) /\ UNCHANGED input_queue_
        /\ sending' \in [on : BOOLEAN, zero_hertz : BOOLEAN, elapsed : Int,
                         dropped : BOOLEAN]
        /\ ~(sending'.on /\ sending'.zero_hertz)
    <3>1. CASE PassthroughOnFrame(frame)
        BY <3>1 DEF PassthroughOnFrame, QueueOverload, IInv, Typed, QueuesTyped, vsync
    <3>2. CASE VSyncPostFrame(frame)
        BY <1>2, <1>4, <3>2 DEF VSyncPostFrame, IInv, Typed, QueuesTyped, MembersTyped
    <3> QED BY <1>8, <3>1, <3>2
  <2>2. ~ZeroHertz
      BY <1>8 DEF IInv, AdapterMatchesConfig
  <2>3. Typed'
      BY <1>2, <1>5, <2>1 DEF IInv, Typed, ConfigTyped, QueuesTyped, MembersTyped, config,
                              repeating, cadence
  <2>4. Cardinality(FrameTasks) \in Nat /\ Cardinality(FrameTasks') \in Nat
        /\ frames_scheduled_for_processing_ = Cardinality(FrameTasks)
    <3>1. FrameTasks' = FramesIn(tasks')
        BY DEF FrameTasks, FramesIn
    <3> QED BY <1>2, <3>1, FramesFinite, Accounts
  <2>5. Elsewhere
      BY <1>2, <1>3, <1>5, <2>1, <2>2, <2>4 DEF Elsewhere, config, repeating, cadence
  <2> QED BY <1>5, <2>3, <2>4, <2>5, ElsewhereKeeps
<1> QED BY <1>6, <1>7, <1>8

\* Time changes ages and delays, never what there is.
LEMMA TickKeeps == ASSUME IInv, Tick PROVE IInv'
<1>1. /\ sending' = IF sending.on THEN [sending EXCEPT !.elapsed = @ + 1] ELSE sending
      /\ refresh_frame_requester_' = Down(refresh_frame_requester_)
      /\ cadence_tasks' = [k \in DOMAIN cadence_tasks |-> Down(cadence_tasks[k])]
      /\ repeat_tasks' = [k \in DOMAIN repeat_tasks |->
                             [repeat_tasks[k] EXCEPT !.in = Down(@)]]
      /\ scheduled_repeat_' = IF scheduled_repeat_.on
                              THEN [scheduled_repeat_ EXCEPT !.since = Older(@)]
                              ELSE scheduled_repeat_
      /\ queued_frames_' = OlderFrames(queued_frames_)
      /\ worker_tasks' = OlderFrames(worker_tasks)
      /\ input_queue_' = OlderFrames(input_queue_)
      /\ tasks' = [k \in DOMAIN tasks |->
                      IF tasks[k].kind = "vsync"
                      THEN [tasks[k] EXCEPT !.age = Older(@), !.frame.age = Older(@)]
                      ELSE [tasks[k] EXCEPT !.age = Older(@)]]
      /\ UNCHANGED <<config, frames_scheduled_for_processing_, current_frame_id_,
                     max_fps_, restricted_frame_delay_, queue_overload_count_, captured>>
    BY DEF Tick
<1>2. \A n \in Int : Down(n) \in Int /\ Older(n) \in Int /\ (n # Unset => Down(n) # Unset)
    BY RatesDivide DEF Down, Older, Unset
<1>3. \A s \in Seq(Frames) : /\ OlderFrames(s) \in Seq(Frames)
                             /\ Len(OlderFrames(s)) = Len(s)
  <2> TAKE s \in Seq(Frames)
  <2>1. DOMAIN s = 1..Len(s) /\ Len(s) \in Nat /\ \A k \in 1..Len(s) : s[k] \in Frames
      OBVIOUS
  <2>2. \A k \in 1..Len(s) : [s[k] EXCEPT !.age = Older(@)] \in Frames
      BY <1>2, <2>1 DEF Frames
  <2> QED BY <2>1, <2>2 DEF OlderFrames
<1>4. /\ queued_frames_ \in Seq(Frames) /\ worker_tasks \in Seq(Frames)
      /\ input_queue_ \in Seq(Frames) /\ tasks \in Seq(Tasks)
      /\ cadence_tasks \in Seq(Int) /\ repeat_tasks \in Seq(Repeats)
    BY DEF IInv, Typed, QueuesTyped
<1>5. /\ queued_frames_' \in Seq(Frames) /\ worker_tasks' \in Seq(Frames)
      /\ input_queue_' \in Seq(Frames) /\ Len(queued_frames_') = Len(queued_frames_)
    BY <1>1, <1>3, <1>4
<1>6. cadence_tasks' \in Seq(Int) /\ Len(cadence_tasks') = Len(cadence_tasks)
  <2>1. /\ DOMAIN cadence_tasks = 1..Len(cadence_tasks) /\ Len(cadence_tasks) \in Nat
        /\ \A k \in 1..Len(cadence_tasks) : cadence_tasks[k] \in Int
      BY <1>4
  <2>2. \A k \in 1..Len(cadence_tasks) : Down(cadence_tasks[k]) \in Int
      BY <1>2, <2>1
  <2>3. cadence_tasks' = [k \in 1..Len(cadence_tasks) |-> Down(cadence_tasks[k])]
      BY <2>1 DEF Tick
  <2> QED BY <2>1, <2>2, <2>3
<1>7. /\ repeat_tasks' \in Seq(Repeats) /\ DOMAIN repeat_tasks' = DOMAIN repeat_tasks
      /\ \A k \in DOMAIN repeat_tasks : repeat_tasks'[k].id = repeat_tasks[k].id
  <2>1. /\ DOMAIN repeat_tasks = 1..Len(repeat_tasks) /\ Len(repeat_tasks) \in Nat
        /\ \A k \in 1..Len(repeat_tasks) : repeat_tasks[k] \in Repeats
      BY <1>4
  <2> DEFINE sooner(r) == [r EXCEPT !.in = Down(@)]
  <2>2. \A r \in Repeats : sooner(r) \in Repeats /\ sooner(r).id = r.id
      BY <1>2 DEF Repeats
  <2>3. repeat_tasks' = [k \in 1..Len(repeat_tasks) |-> sooner(repeat_tasks[k])]
      BY <2>1 DEF Tick
  <2> HIDE DEF sooner
  <2>4. \A k \in 1..Len(repeat_tasks) :
           repeat_tasks'[k] \in Repeats /\ repeat_tasks'[k].id = repeat_tasks[k].id
      BY <2>1, <2>2, <2>3
  <2> QED BY <2>1, <2>3, <2>4
<1>8. tasks' \in Seq(Tasks) /\ FrameTasks' = FrameTasks
  <2> DEFINE aged(t) == IF t.kind = "vsync"
                        THEN [t EXCEPT !.age = Older(@), !.frame.age = Older(@)]
                        ELSE [t EXCEPT !.age = Older(@)]
  <2>1. \A t \in Tasks : aged(t) \in Tasks /\ aged(t).kind = t.kind
    <3> TAKE t \in Tasks
    <3>1. CASE t \in [kind : {"frame"}, id : Int, age : Int]
        BY <1>2, <3>1 DEF Tasks
    <3>2. CASE t \in [kind : {"discarded"}, age : Int]
        BY <1>2, <3>2 DEF Tasks
    <3>3. CASE t \in [kind : {"constraints"}, age : Int, to : Constraints]
        BY <1>2, <3>3 DEF Tasks
    <3>4. CASE t \in [kind : {"vsync"}, age : Int, frame : Frames]
      <4>1. [t.frame EXCEPT !.age = Older(@)] \in Frames
          BY <1>2, <3>4 DEF Frames
      <4> QED BY <1>2, <3>4, <4>1 DEF Tasks
    <3> QED BY <3>1, <3>2, <3>3, <3>4 DEF Tasks
  <2>2. tasks' = [k \in DOMAIN tasks |-> aged(tasks[k])]
      BY <1>1
  <2> HIDE DEF aged
  <2>3. DOMAIN tasks = 1..Len(tasks) /\ Len(tasks) \in Nat
        /\ \A k \in 1..Len(tasks) : tasks[k] \in Tasks
      BY <1>4
  <2>4. \A k \in 1..Len(tasks) : tasks'[k] \in Tasks /\ tasks'[k].kind = tasks[k].kind
      BY <2>1, <2>2, <2>3
  <2> QED BY <2>2, <2>3, <2>4 DEF FrameTasks
<1>9. /\ sending' \in [on : BOOLEAN, zero_hertz : BOOLEAN, elapsed : Int, dropped : BOOLEAN]
      /\ sending'.on = sending.on /\ sending'.zero_hertz = sending.zero_hertz
  <2>1. sending \in [on : BOOLEAN, zero_hertz : BOOLEAN, elapsed : Int, dropped : BOOLEAN]
      BY DEF IInv, Typed, MembersTyped
  <2>2. CASE sending.on
    <3>1. sending' = [sending EXCEPT !.elapsed = sending.elapsed + 1]
        BY <2>2 DEF Tick
    <3>2. sending.elapsed + 1 \in Int
        BY <2>1
    <3> QED BY <2>1, <3>1, <3>2
  <2>3. CASE ~sending.on
    <3>1. sending' = sending
        BY <2>3 DEF Tick
    <3> QED BY <2>1, <3>1
  <2> QED BY <2>2, <2>3
<1>10. /\ DOMAIN scheduled_repeat_' = {"on", "since", "idle", "lag"}
       /\ scheduled_repeat_'.on = scheduled_repeat_.on
       /\ scheduled_repeat_'.lag = scheduled_repeat_.lag
    BY <1>1 DEF IInv, Typed, MembersTyped
<1>11. ZeroHertz' <=> ZeroHertz
    BY <1>1 DEF ZeroHertz
<1>12. Typed'
    BY <1>1, <1>5, <1>6, <1>7, <1>8, <1>9, <1>10 DEF IInv, Typed, ConfigTyped,
        QueuesTyped, MembersTyped, config
<1>13. AdapterMatchesConfig'
    BY <1>1, <1>11 DEF IInv, AdapterMatchesConfig, config
<1>14. /\ queued_frames_ = <<>> <=> queued_frames_' = <<>>
       /\ repeat_tasks = <<>> <=> repeat_tasks' = <<>>
       /\ cadence_tasks = <<>> <=> cadence_tasks' = <<>>
  <2>1. Len(repeat_tasks') = Len(repeat_tasks)
      BY <1>4, <1>7
  <2> QED BY <1>4, <1>5, <1>6, <1>7, <2>1, NotEmpty
<1>15. QueueAccounted'
  <2>1. QueueAccounted
      BY DEF IInv
  <2>2. Len(queued_frames_') =
           Len(cadence_tasks') + (IF scheduled_repeat_'.on THEN 1 ELSE 0)
      BY <1>5, <1>6, <1>10, <2>1 DEF QueueAccounted
  <2>3. scheduled_repeat_'.on => Len(queued_frames_') = 1
      BY <1>5, <1>10, <2>1 DEF QueueAccounted
  <2>4. /\ repeat_tasks' # <<>> => queued_frames_' # <<>>
        /\ ~ZeroHertz' => queued_frames_' = <<>>
      BY <1>11, <1>14, <2>1 DEF QueueAccounted
  <2> QED BY <2>2, <2>3, <2>4 DEF QueueAccounted
<1>16. RepeatsCurrent' /\ CurrentRepeats' = CurrentRepeats
  <2>1. RepeatsCurrent
      BY DEF IInv
  <2>2. current_frame_id_' = current_frame_id_ /\ scheduled_repeat_'.on = scheduled_repeat_.on
      BY <1>1, <1>10
  <2>3. RepeatsCurrent'
      BY <1>7, <2>1, <2>2 DEF RepeatsCurrent
  <2>4. CurrentRepeats' = CurrentRepeats
      BY <1>7, <2>2 DEF CurrentRepeats
  <2> QED BY <2>3, <2>4
<1>17. ModeOfCalls'
    BY <1>1, <1>2, <1>9, <1>11 DEF IInv, ModeOfCalls
<1>18. OverloadCovered'
    BY <1>1, <1>6, <1>8, <1>9 DEF IInv, OverloadCovered
<1>19. NeverSilent'
    BY <1>1, <1>2, <1>8, <1>11, <1>14, <1>16 DEF IInv, NeverSilent, ModeOfCalls
<1> QED BY <1>12, <1>13, <1>15, <1>16, <1>17, <1>18, <1>19 DEF IInv

-----------------------------------------------------------------------------
(* The theorems.                                                            *)

LEMMA InitInv == Init => IInv
<1> SUFFICES ASSUME Init PROVE IInv
    OBVIOUS
<1>1. /\ queued_frames_ = <<>> /\ cadence_tasks = <<>> /\ repeat_tasks = <<>>
      /\ tasks = <<>> /\ worker_tasks = <<>> /\ input_queue_ = <<>>
      /\ current_frame_id_ = 0 /\ scheduled_repeat_ = NoRepeat
      /\ queue_overload_count_ = 0 /\ frames_scheduled_for_processing_ = 0
      /\ sending = NotSending /\ captured = 0
      /\ restricted_max_frame_rate_ = Unset /\ restricted_frame_delay_ = Unset
    BY DEF Init
<1>2. /\ max_fps_ \in MaxFps \cup {Unset}
      /\ source_constraints_ \in Constraints /\ zero_hertz_params_ \in {Unset, 0, 1}
      /\ ZeroHertz => refresh_frame_requester_ \in Int \ {Unset}
      /\ AdapterMatchesConfig
  <2>1. CASE /\ source_constraints_ = NoConstraints /\ zero_hertz_params_ = Unset
             /\ current_adapter_mode_ = "base" /\ max_fps_ = Unset
      BY <2>1, Delays DEF Constraints, ZeroHertz, AdapterMatchesConfig,
                          IsZeroHertzScreenshareEnabled
  <2>2. CASE /\ max_fps_ \in MaxFps
             /\ source_constraints_ = [min |-> 0, max |-> max_fps_]
             /\ zero_hertz_params_ = 1 /\ current_adapter_mode_ = "zero_hertz"
             /\ refresh_frame_requester_ = 3 * frame_delay_
    <3>1. /\ max_fps_ # Unset /\ 1 # Unset /\ max_fps_ > 0
          /\ 3 * frame_delay_ \in Int \ {Unset}
        BY <2>2, Delays DEF frame_delay_
    <3> QED BY <2>2, <3>1 DEF Constraints, ZeroHertz, AdapterMatchesConfig,
                              IsZeroHertzScreenshareEnabled
  <2> QED BY <2>1, <2>2 DEF Init
<1>3. Typed
    BY <1>1, <1>2, Delays DEF Typed, ConfigTyped, QueuesTyped, MembersTyped, NoRepeat,
                              NotSending
<1>4. QueueAccounted /\ RepeatsCurrent
  <2>1. DOMAIN repeat_tasks = {} /\ Len(queued_frames_) = 0 /\ Len(cadence_tasks) = 0
      BY <1>1
  <2> QED BY <1>1, <2>1 DEF QueueAccounted, RepeatsCurrent, NoRepeat
<1>5. ModeOfCalls
    BY <1>1, <1>2 DEF ModeOfCalls, NotSending
<1>6. OverloadCovered
  <2>1. FrameTasks = {}
      BY <1>1 DEF FrameTasks
  <2>2. Cardinality(FrameTasks) = 0 /\ Len(cadence_tasks) = 0
      BY <1>1, <2>1, FS_EmptySet
  <2> QED BY <1>1, <2>2 DEF OverloadCovered, NotSending
<1>7. NeverSilent
    BY <1>2 DEF NeverSilent
<1> QED BY <1>2, <1>3, <1>4, <1>5, <1>6, <1>7 DEF IInv

LEMMA NextKeeps == IInv /\ [Next]_vars => IInv'
<1> SUFFICES ASSUME IInv, [Next]_vars PROVE IInv'
    OBVIOUS
<1>1. CASE Source
    BY <1>1, OnFrameKeeps, OnDiscardedFrameKeeps, OnConstraintsChangedKeeps DEF Source
<1>2. CASE Encoder
  <2>1. CASE UpdateLayerQualityConvergence \/ UpdateLayerStatus
    <3>1. PICK trackers : TrackLayers(trackers)
        BY <2>1 DEF UpdateLayerQualityConvergence, UpdateLayerStatus
    <3> QED BY <3>1, TrackLayersKeeps
  <2> QED BY <1>2, <2>1, SetZeroHertzModeEnabledKeeps, RestrictionsKeep,
             ProcessKeyFrameRequestKeeps DEF Encoder
<1>3. CASE Queue
    BY <1>3, FrameTaskKeeps, DiscardedTaskKeeps, ConstraintsTaskKeeps, VSyncTaskKeeps,
       RequestRefreshFrameKeeps, ProcessOnDelayedCadenceKeeps, ProcessRepeatedKeeps,
       SendFrameReturnsKeeps DEF Queue
<1>4. CASE Worker
    BY <1>4, VSyncOnFrameKeeps, EncodeAllEnqueuedFramesKeeps DEF Worker
<1>5. CASE UNCHANGED vars
  <2>1. UNCHANGED <<tasks, frames_scheduled_for_processing_>>
      BY <1>5 DEF vars
  <2>2. /\ FrameTasks' = FrameTasks /\ Cardinality(FrameTasks) \in Nat
        /\ FrameTasks = {} <=> Cardinality(FrameTasks) = 0
        /\ frames_scheduled_for_processing_ \in Nat
      BY <2>1, TasksStay
  <2>3. Typed'
      BY <1>5 DEF vars, IInv, Typed, ConfigTyped, QueuesTyped, MembersTyped, config,
                  repeating, cadence, vsync, environment
  <2>4. Elsewhere
      BY <1>5, <2>2 DEF vars, Elsewhere, config, repeating, cadence, IInv, ModeOfCalls
  <2> QED BY <2>1, <2>2, <2>3, <2>4, ElsewhereKeeps
<1> QED BY <1>1, <1>2, <1>3, <1>4, <1>5, TickKeeps DEF Next

LEMMA SpecInv == Spec => []IInv
BY InitInv, NextKeeps, PTL DEF Spec

\* At most one repeat is not cancelled, as a set of at most one element.
LEMMA OneCurrentRepeat == IInv => OneRepeatChain
<1> SUFFICES ASSUME IInv PROVE OneRepeatChain
    OBVIOUS
<1>1. \A j, k \in CurrentRepeats : j = k
    BY DEF IInv, RepeatsCurrent, CurrentRepeats
<1>2. Cardinality(CurrentRepeats) <= 1
  <2>1. CASE CurrentRepeats = {}
      BY <2>1, FS_EmptySet
  <2>2. CASE CurrentRepeats # {}
    <3>1. PICK k : CurrentRepeats = {k}
        BY <1>1, <2>2
    <3>2. Cardinality({k}) = 1
        BY FS_Singleton
    <3> QED BY <3>1, <3>2
  <2> QED BY <2>1, <2>2
<1>3. CurrentRepeats # {} => scheduled_repeat_.on
    BY DEF IInv, RepeatsCurrent, CurrentRepeats
<1> QED BY <1>2, <1>3 DEF OneRepeatChain

\* Through all changes of mode every queued frame has its task and every task its
\* frame, and at most one chain repeats (OnFrame, ProcessOnDelayedCadence,
\* ProcessRepeatedFrameOnDelayedCadence, MaybeReconfigureAdapters).
THEOREM SpecTasksMatchQueue == Spec => []TasksMatchQueue
<1>1. IInv => TasksMatchQueue
    BY OneCurrentRepeat DEF IInv, TasksMatchQueue
<1> QED BY <1>1, SpecInv, PTL

\* A zero-hertz stream always has a frame, a repeat or a request for a frame ahead of it,
\* also when an overload has cancelled the repeat (SendFrameNow).
THEOREM SpecNeverSilent == Spec => []NeverSilent
<1>1. IInv => NeverSilent
    BY DEF IInv
<1> QED BY <1>1, SpecInv, PTL

\* No more frames are flagged as overload than there are frames to come (SendFrameNow).
THEOREM SpecOverloadCovered == Spec => []OverloadCovered
<1>1. IInv => OverloadCovered
    BY DEF IInv
<1> QED BY <1>1, SpecInv, PTL

-----------------------------------------------------------------------------
(* The wait for a key frame.                                                *)

\* The frame durations that may have been in force, in this mode.
Limits == {LargerOf(delay, frame_delay_) :
              delay \in {frame_delay_} \cup {DelayOf(f) : f \in Restricted}}
Aged(s) == \A k \in DOMAIN s : s[k].age \in Nat

TimesTyped ==
    /\ key_wait \in Nat \cup {Unset}
    /\ scheduled_repeat_.since \in 0..MaxAge
    /\ scheduled_repeat_.idle \in BOOLEAN
    /\ restricted_frame_delay_ \in {Unset} \cup {DelayOf(f) : f \in Restricted}
    /\ Aged(tasks)

\* A queued frame waits a frame duration at most.
CadenceShort == \A k \in DOMAIN cadence_tasks : cadence_tasks[k] <= frame_delay_
\* The current repeat comes within the idle period, or a duration that was in force.
RepeatShort(in) ==
    IF scheduled_repeat_.idle THEN in <= Second - scheduled_repeat_.since
    ELSE \E limit \in Limits : in <= limit
RepeatsShort == \A k \in CurrentRepeats : RepeatShort(repeat_tasks[k].in)
\* A frame that is repeated has a current repeat, or a frame to follow it.
Chained == scheduled_repeat_.on => CurrentRepeats # {} \/ FrameTasks # {}

\* What the key frame comes with: a frame that arrives, the repeat, or a queued frame.
ComesWith(limit) ==
    \/ /\ key_wait <= limit
       /\ \/ FrameTasks # {}
          \/ \E k \in CurrentRepeats : key_wait + repeat_tasks[k].in <= limit
    \/ /\ cadence_tasks # <<>>
       /\ key_wait <= limit + frame_delay_
       /\ key_wait + Head(cadence_tasks) <= limit + frame_delay_
KeyDue ==
    key_wait # Unset =>
       /\ ~sending.on /\ ZeroHertz /\ RepeatComesSoon
       /\ \E limit \in Limits : ComesWith(limit)

WaitInv == TimesTyped /\ CadenceShort /\ RepeatsShort /\ Chained /\ KeyDue

LEMMA LimitsTyped ==
    ASSUME max_fps_ \in MaxFps
    PROVE  /\ frame_delay_ \in Nat \ {0} /\ frame_delay_ \in Limits
           /\ \A limit \in Limits : limit \in Nat /\ frame_delay_ <= limit
<1>1. frame_delay_ \in Nat \ {0}
    BY Delays DEF frame_delay_
<1>2. \A d \in {frame_delay_} \cup {DelayOf(f) : f \in Restricted} : d \in Nat
    BY <1>1, Delays
<1>3. LargerOf(frame_delay_, frame_delay_) = frame_delay_
    BY DEF LargerOf
<1>4. \A d \in Nat : /\ LargerOf(d, frame_delay_) \in Nat
                     /\ frame_delay_ <= LargerOf(d, frame_delay_)
    BY <1>1 DEF LargerOf
<1> QED BY <1>1, <1>2, <1>3, <1>4 DEF Limits

LEMMA RatesSet == ASSUME IInv, ZeroHertz PROVE max_fps_ \in MaxFps
BY DEF IInv, Typed, ConfigTyped, ZeroHertz

\* The duration of a repeat is one of those that may be in force.
LEMMA DurationIsLimit ==
    ASSUME IInv, ZeroHertz, TimesTyped
    PROVE  FrameDuration \in Limits
<1>1. frame_delay_ \in Nat
    BY RatesSet, LimitsTyped
<1>2. CASE restricted_frame_delay_ = Unset
    BY <1>1, <1>2, RatesSet, LimitsTyped, Delays DEF FrameDuration, LargerOf
<1>3. CASE restricted_frame_delay_ \in {DelayOf(f) : f \in Restricted}
  <2>1. restricted_frame_delay_ \in Nat
      BY <1>3, Delays
  <2>2. LargerOf(frame_delay_, restricted_frame_delay_)
          = LargerOf(restricted_frame_delay_, frame_delay_)
      BY <1>1, <2>1 DEF LargerOf
  <2> QED BY <1>3, <2>2 DEF FrameDuration, Limits
<1> QED BY <1>2, <1>3 DEF TimesTyped

\* Outside of the mode nothing waits.
LEMMA NothingWaits ==
    ASSUME IInv, ~ZeroHertz
    PROVE  cadence_tasks = <<>> /\ repeat_tasks = <<>> /\ ~scheduled_repeat_.on
           /\ queued_frames_ = <<>>
<1>1. cadence_tasks \in Seq(Int) /\ scheduled_repeat_.on \in BOOLEAN
    BY DEF IInv, Typed, QueuesTyped, MembersTyped
<1>2. queued_frames_ = <<>> /\ repeat_tasks = <<>>
    BY DEF IInv, QueueAccounted
<1>3. Len(queued_frames_) = 0 /\ Len(cadence_tasks) \in Nat
    BY <1>1, <1>2
<1>4. Len(queued_frames_) = Len(cadence_tasks) + (IF scheduled_repeat_.on THEN 1 ELSE 0)
    BY DEF IInv, QueueAccounted
<1>5. ~scheduled_repeat_.on /\ Len(cadence_tasks) = 0
  <2>1. CASE scheduled_repeat_.on
      BY <1>3, <1>4, <2>1
  <2>2. CASE ~scheduled_repeat_.on
      BY <1>3, <1>4, <2>2
  <2> QED BY <2>1, <2>2
<1> QED BY <1>1, <1>2, <1>5, NotEmpty

-----------------------------------------------------------------------------
(* Steps that leave the waiting frames and repeats alone.                   *)

LEMMA UntouchedWaits ==
    ASSUME IInv, WaitInv,
           UNCHANGED <<queued_frames_, cadence_tasks, repeat_tasks, scheduled_repeat_,
                       current_frame_id_, max_fps_>>,
           restricted_frame_delay_' \in {Unset} \cup {DelayOf(f) : f \in Restricted},
           Aged(tasks'),
           ZeroHertz /\ FrameTasks # {} => FrameTasks' # {},
           \/ key_wait' = Unset
           \/ key_wait' = key_wait /\ (sending'.on => sending.on)
    PROVE  WaitInv'
<1>1. /\ CurrentRepeats' = CurrentRepeats /\ Limits' = Limits
      /\ frame_delay_' = frame_delay_
      /\ ZeroHertz' <=> ZeroHertz
      /\ RepeatComesSoon' <=> RepeatComesSoon
    BY DEF CurrentRepeats, Limits, frame_delay_, ZeroHertz, RepeatComesSoon
<1>2. TimesTyped'
    BY DEF WaitInv, TimesTyped
<1>3. CadenceShort' /\ RepeatsShort'
  <2>1. CadenceShort'
      BY <1>1 DEF WaitInv, CadenceShort
  <2>2. \A in : RepeatShort(in) => RepeatShort(in)'
      BY <1>1 DEF RepeatShort
  <2> QED BY <1>1, <2>1, <2>2 DEF WaitInv, RepeatsShort
<1>4. Chained'
  <2>1. CASE ZeroHertz
      BY <1>1, <2>1 DEF WaitInv, Chained
  <2>2. CASE ~ZeroHertz
      BY <2>2, NothingWaits DEF Chained
  <2> QED BY <2>1, <2>2
<1>5. KeyDue'
  <2>1. CASE key_wait' = Unset
      BY <2>1 DEF KeyDue, Unset
  <2>2. CASE key_wait' = key_wait /\ (sending'.on => sending.on)
    <3>1. ZeroHertz => \A limit : ComesWith(limit) => ComesWith(limit)'
        BY <1>1, <2>2 DEF ComesWith
    <3>2. Unset' = Unset
        BY DEF Unset
    <3> QED BY <1>1, <2>2, <3>1, <3>2 DEF WaitInv, KeyDue
  <2> QED BY <2>1, <2>2
<1> QED BY <1>2, <1>3, <1>4, <1>5 DEF WaitInv

LEMMA AgedAppend ==
    ASSUME NEW s \in Seq(Tasks), NEW t \in Tasks, Aged(s), t.age \in Nat
    PROVE  Aged(Append(s, t))
<1>1. /\ DOMAIN Append(s, t) = 1..(Len(s) + 1) /\ DOMAIN s = 1..Len(s)
      /\ \A k \in 1..Len(s) : Append(s, t)[k] = s[k]
      /\ Append(s, t)[Len(s) + 1] = t /\ Len(s) \in Nat
    OBVIOUS
<1>2. \A k \in 1..(Len(s) + 1) : k \in 1..Len(s) \/ k = Len(s) + 1
    BY <1>1
<1> QED BY <1>1, <1>2 DEF Aged

LEMMA AgedTail ==
    ASSUME NEW s \in Seq(Tasks), s # <<>>, Aged(s)
    PROVE  Aged(Tail(s)) /\ Head(s).age \in Nat
<1>1. /\ DOMAIN Tail(s) = 1..(Len(s) - 1) /\ DOMAIN s = 1..Len(s)
      /\ \A k \in 1..(Len(s) - 1) : Tail(s)[k] = s[k + 1]
      /\ Len(s) \in Nat \ {0} /\ Head(s) = s[1]
    OBVIOUS
<1>2. \A k \in 1..(Len(s) - 1) : k + 1 \in 1..Len(s)
    BY <1>1
<1>3. 1 \in 1..Len(s)
    BY <1>1
<1> QED BY <1>1, <1>2, <1>3 DEF Aged

LEMMA AgedEncodeAll ==
    ASSUME tasks \in Seq(Tasks), Aged(tasks), NEW input \in Seq(Frames), EncodeAll(input)
    PROVE  Aged(tasks')
<1> DEFINE posted == [k \in DOMAIN input |->
                         [kind |-> "vsync", age |-> 0, frame |-> input[k]]]
<1>1. tasks' = tasks \o posted
    BY DEF EncodeAll
<1>2. DOMAIN input = 1..Len(input) /\ Len(input) \in Nat
      /\ \A k \in 1..Len(input) : input[k] \in Frames
    OBVIOUS
<1>3. \A k \in 1..Len(input) : posted[k] \in Tasks /\ posted[k].age \in Nat
    BY <1>2 DEF Tasks
<1>4. posted \in Seq(Tasks) /\ Len(posted) = Len(input)
    BY <1>2, <1>3
<1> HIDE DEF posted
<1>5. /\ tasks' \in Seq(Tasks) /\ Len(tasks') = Len(tasks) + Len(posted)
      /\ \A k \in 1..Len(tasks) : tasks'[k] = tasks[k]
      /\ \A k \in (Len(tasks) + 1)..(Len(tasks) + Len(posted)) :
            tasks'[k] = posted[k - Len(tasks)]
  <2>1. tasks \o posted \in Seq(Tasks) /\ Len(tasks \o posted) = Len(tasks) + Len(posted)
      BY <1>4
  <2>2. \A k \in 1..Len(tasks) : (tasks \o posted)[k] = tasks[k]
      BY <1>4
  <2>3. \A k \in (Len(tasks) + 1)..(Len(tasks) + Len(posted)) :
           (tasks \o posted)[k] = posted[k - Len(tasks)]
      BY <1>4
  <2> QED BY <1>1, <2>1, <2>2, <2>3
<1>6. \A k \in (Len(tasks) + 1)..(Len(tasks) + Len(posted)) : tasks'[k].age \in Nat
    BY <1>2, <1>3, <1>4, <1>5
<1>7. DOMAIN tasks' = 1..(Len(tasks) + Len(posted)) /\ DOMAIN tasks = 1..Len(tasks)
      /\ Len(tasks) \in Nat /\ Len(posted) \in Nat
    BY <1>4, <1>5
<1>8. \A k \in 1..Len(tasks) : tasks'[k].age \in Nat
    BY <1>5, <1>7 DEF Aged
<1> QED BY <1>6, <1>7, <1>8 DEF Aged

LEMMA WaitOnFrame == ASSUME IInv, WaitInv, OnFrame PROVE WaitInv'
<1> DEFINE t == [kind |-> "frame", id |-> captured + 1, age |-> 0]
<1>1. t \in Tasks /\ IsFrame(t) = 1 /\ t.age = 0 /\ tasks' = Append(tasks, t)
    BY DEF OnFrame, Tasks, IsFrame, IInv, Typed, MembersTyped
<1> HIDE DEF t
<1>2. tasks \in Seq(Tasks) /\ Aged(tasks)
    BY DEF IInv, Typed, QueuesTyped, WaitInv, TimesTyped
<1>3. Aged(tasks')
    BY <1>1, <1>2, AgedAppend
<1>4. FrameTasks' # {}
    BY <1>1, <1>2, Posted, FrameTasksCounted
<1> QED BY <1>3, <1>4, UntouchedWaits
        DEF OnFrame, repeating, cadence, output, WaitInv, TimesTyped

\* A task that is no frame's, posted or taken.
LEMMA PostedWaits ==
    ASSUME IInv, WaitInv, NEW t \in Tasks, IsFrame(t) = 0, t.age = 0,
           tasks' = Append(tasks, t)
    PROVE  Aged(tasks') /\ (FrameTasks # {} => FrameTasks' # {})
<1>1. tasks \in Seq(Tasks) /\ Aged(tasks)
    BY DEF IInv, Typed, QueuesTyped, WaitInv, TimesTyped
<1> QED BY <1>1, AgedAppend, Posted, FrameTasksCounted

LEMMA WaitOnDiscardedFrame == ASSUME IInv, WaitInv, OnDiscardedFrame PROVE WaitInv'
<1> DEFINE t == [kind |-> "discarded", age |-> 0]
<1>1. t \in Tasks /\ IsFrame(t) = 0 /\ t.age = 0 /\ tasks' = Append(tasks, t)
    BY DEF OnDiscardedFrame, Tasks, IsFrame
<1> HIDE DEF t
<1>2. Aged(tasks') /\ (FrameTasks # {} => FrameTasks' # {})
    BY <1>1, PostedWaits
<1> QED BY <1>2, UntouchedWaits
        DEF OnDiscardedFrame, repeating, cadence, output, WaitInv, TimesTyped

LEMMA WaitOnConstraintsChanged == ASSUME IInv, WaitInv, OnConstraintsChanged PROVE WaitInv'
<1>1. PICK c \in Constraints :
         tasks' = Append(tasks, [kind |-> "constraints", age |-> 0, to |-> c])
    BY DEF OnConstraintsChanged, Constraints
<1> DEFINE t == [kind |-> "constraints", age |-> 0, to |-> c]
<1>2. t \in Tasks /\ IsFrame(t) = 0 /\ t.age = 0 /\ tasks' = Append(tasks, t)
    BY <1>1 DEF Tasks, IsFrame
<1> HIDE DEF t
<1>3. Aged(tasks') /\ (FrameTasks # {} => FrameTasks' # {})
    BY <1>2, PostedWaits
<1> QED BY <1>3, UntouchedWaits
        DEF OnConstraintsChanged, repeating, cadence, output, WaitInv, TimesTyped

LEMMA TakenWaits ==
    ASSUME IInv, WaitInv, NEW kind, Take(kind)
    PROVE  /\ Aged(tasks') /\ ~sending.on /\ Head(tasks).age \in Nat
           /\ kind # "frame" /\ FrameTasks # {} => FrameTasks' # {}
<1>1. tasks \in Seq(Tasks) /\ Aged(tasks)
    BY DEF IInv, Typed, QueuesTyped, WaitInv, TimesTyped
<1>2. tasks # <<>> /\ tasks' = Tail(tasks) /\ ~sending.on
    BY DEF Take, Longest, Idle
<1>3. Aged(tasks') /\ Head(tasks).age \in Nat
    BY <1>1, <1>2, AgedTail
<1>4. ASSUME kind # "frame", FrameTasks # {} PROVE FrameTasks' # {}
  <2>1. Head(tasks).kind = kind
      BY DEF Take
  <2>2. IsFrame(Head(tasks)) = 0
      BY <1>4, <2>1 DEF IsFrame
  <2>3. /\ Cardinality(FrameTasks') = Cardinality(FrameTasks) - IsFrame(Head(tasks))
        /\ FrameTasks' = {} <=> Cardinality(FrameTasks') = 0
      BY <1>1, Taken
  <2>4. Cardinality(FrameTasks) \in Nat \ {0}
      BY <1>1, <1>4, FrameTasksCounted
  <2> QED BY <2>2, <2>3, <2>4
<1> QED BY <1>2, <1>3, <1>4

LEMMA WaitDiscardedTask == ASSUME IInv, WaitInv, DiscardedTask PROVE WaitInv'
<1>1. Take("discarded")
    BY DEF DiscardedTask
<1>2. Aged(tasks') /\ (FrameTasks # {} => FrameTasks' # {})
    BY <1>1, TakenWaits
<1> QED BY <1>2, UntouchedWaits
        DEF DiscardedTask, repeating, output, WaitInv, TimesTyped

LEMMA WaitVSyncTask == ASSUME IInv, WaitInv, VSyncTask PROVE WaitInv'
<1>1. Take("vsync")
    BY DEF VSyncTask
<1>2. Aged(tasks') /\ (FrameTasks # {} => FrameTasks' # {})
    BY <1>1, TakenWaits
<1>3. key_wait' = Unset
    BY DEF VSyncTask, Deliver
<1> QED BY <1>2, <1>3, UntouchedWaits
        DEF VSyncTask, repeating, cadence, WaitInv, TimesTyped

LEMMA WaitRestrictions == ASSUME IInv, WaitInv, UpdateVideoSourceRestrictions PROVE WaitInv'
<1>1. PICK rate \in Restricted \cup {Unset} :
         restricted_frame_delay_' = IF max_fps_ # Unset THEN RestrictedDelay(rate) ELSE Unset
    BY DEF UpdateVideoSourceRestrictions
<1>2. restricted_frame_delay_' \in {Unset} \cup {DelayOf(f) : f \in Restricted}
    BY <1>1, Delays DEF RestrictedDelay
<1>3. FrameTasks' = FrameTasks
    BY DEF UpdateVideoSourceRestrictions, FrameTasks
<1> QED BY <1>2, <1>3, UntouchedWaits
        DEF UpdateVideoSourceRestrictions, repeating, output, WaitInv, TimesTyped

LEMMA WaitTrackLayers ==
    ASSUME IInv, WaitInv, NEW trackers, TrackLayers(trackers) PROVE WaitInv'
<1>1. FrameTasks' = FrameTasks
    BY DEF TrackLayers, FrameTasks
<1> QED BY <1>1, UntouchedWaits
        DEF TrackLayers, repeating, output, WaitInv, TimesTyped

LEMMA WaitRequestRefreshFrame == ASSUME IInv, WaitInv, RequestRefreshFrame PROVE WaitInv'
<1>1. FrameTasks' = FrameTasks
    BY DEF RequestRefreshFrame, FrameTasks
<1> QED BY <1>1, UntouchedWaits
        DEF RequestRefreshFrame, repeating, WaitInv, TimesTyped

LEMMA WaitVSyncOnFrame == ASSUME IInv, WaitInv, VSyncOnFrame PROVE WaitInv'
<1> DEFINE input == Append(input_queue_, Head(worker_tasks))
<1>1. input \in Seq(Frames) /\ tasks \in Seq(Tasks) /\ Aged(tasks)
    BY DEF VSyncOnFrame, IInv, Typed, QueuesTyped, WaitInv, TimesTyped
<1>2. UNCHANGED tasks \/ EncodeAll(input)
    BY DEF VSyncOnFrame
<1> HIDE DEF input
<1>3. Aged(tasks') /\ FrameTasks' = FrameTasks
  <2>1. CASE UNCHANGED tasks
      BY <1>1, <2>1 DEF FrameTasks
  <2>2. CASE EncodeAll(input)
      BY <1>1, <2>2, AgedEncodeAll, EncodeAllPosts
  <2> QED BY <1>2, <2>1, <2>2
<1> QED BY <1>3, UntouchedWaits
        DEF VSyncOnFrame, repeating, cadence, output, WaitInv, TimesTyped

LEMMA WaitEncodeAllEnqueuedFrames ==
    ASSUME IInv, WaitInv, EncodeAllEnqueuedFrames PROVE WaitInv'
<1>1. input_queue_ \in Seq(Frames) /\ tasks \in Seq(Tasks) /\ Aged(tasks)
    BY DEF IInv, Typed, QueuesTyped, WaitInv, TimesTyped
<1>2. Aged(tasks') /\ FrameTasks' = FrameTasks
    BY <1>1, AgedEncodeAll, EncodeAllPosts DEF EncodeAllEnqueuedFrames
<1> QED BY <1>2, UntouchedWaits
        DEF EncodeAllEnqueuedFrames, repeating, cadence, output, WaitInv, TimesTyped

LEMMA WaitUnchanged == ASSUME IInv, WaitInv, UNCHANGED vars PROVE WaitInv'
<1>1. FrameTasks' = FrameTasks
    BY DEF vars, FrameTasks
<1> QED BY <1>1, UntouchedWaits
        DEF vars, repeating, cadence, output, WaitInv, TimesTyped

-----------------------------------------------------------------------------
(* Steps that cancel the repeat or drop everything.                         *)

\* No repeat is the one that comes after the current one.
LEMMA NextRepeatIsNone ==
    ASSUME IInv, current_frame_id_' = current_frame_id_ + 1, UNCHANGED repeat_tasks
    PROVE  CurrentRepeats' = {}
<1>1. DOMAIN repeat_tasks = 1..Len(repeat_tasks)
    BY RepeatsOlder
<1>2. \A i, j \in Int : i < j + 1 => i # j + 1
    OBVIOUS
<1>3. \A k \in DOMAIN repeat_tasks : repeat_tasks[k].id # current_frame_id_ + 1
    BY <1>1, <1>2, RepeatsOlder
<1> QED BY <1>3 DEF CurrentRepeats

LEMMA WaitSendFrameReturns == ASSUME IInv, WaitInv, SendFrameReturns PROVE WaitInv'
<1>1. /\ sending.on
      /\ UNCHANGED <<frames_scheduled_for_processing_, queued_frames_, scheduled_repeat_,
                     repeat_tasks, cadence, tasks, key_wait>>
    BY DEF SendFrameReturns, output
<1>2. key_wait = Unset /\ key_wait' = Unset
    BY <1>1 DEF WaitInv, KeyDue
<1>3. FrameTasks' = FrameTasks
    BY <1>1 DEF FrameTasks
<1>4. CASE sending.zero_hertz /\ Overloaded
  <2>1. current_frame_id_' = current_frame_id_ + 1 /\ frames_scheduled_for_processing_ > 0
      BY <1>4 DEF SendFrameReturns, Overloaded
  <2>2. CurrentRepeats' = {}
      BY <1>1, <2>1, NextRepeatIsNone
  <2>3. FrameTasks' # {}
      BY <1>3, <2>1, Accounts
  <2>4. TimesTyped' /\ CadenceShort'
      BY <1>1 DEF WaitInv, TimesTyped, CadenceShort, cadence, frame_delay_
  <2>5. RepeatsShort' /\ Chained'
      BY <2>2, <2>3 DEF RepeatsShort, Chained
  <2>6. KeyDue'
      BY <1>2 DEF KeyDue, Unset
  <2> QED BY <2>4, <2>5, <2>6 DEF WaitInv
<1>5. CASE ~(sending.zero_hertz /\ Overloaded)
  <2>1. UNCHANGED current_frame_id_
      BY <1>5 DEF SendFrameReturns
  <2> QED BY <1>1, <1>2, <1>3, <2>1, UntouchedWaits DEF cadence, WaitInv, TimesTyped
<1> QED BY <1>4, <1>5

\* A mode that starts or ends has no key frame to answer.
LEMMA ReconfigurationWaits ==
    ASSUME IInv, WaitInv, NEW was, NEW c, NEW p, MaybeReconfigureAdapters(was, c, p),
           UNCHANGED sending, Aged(tasks'), FrameTasks # {} => FrameTasks' # {}
    PROVE  WaitInv'
<1>1. RestrictedDelay(restricted_max_frame_rate_)
         \in {Unset} \cup {DelayOf(f) : f \in Restricted}
    BY Delays DEF RestrictedDelay, IInv, Typed, ConfigTyped
<1>2. CASE UNCHANGED <<repeating, max_fps_, restricted_frame_delay_, cadence_tasks,
                       key_wait>>
    BY <1>2, UntouchedWaits DEF repeating, WaitInv, TimesTyped
<1>3. CASE /\ NoZeroHertzState /\ key_wait' = Unset
           /\ restricted_frame_delay_' \in {Unset} \cup {DelayOf(f) : f \in Restricted}
  <2>1. /\ cadence_tasks' = <<>> /\ scheduled_repeat_' = NoRepeat
        /\ CurrentRepeats' = {}
      BY <1>3, NothingHeld DEF NoZeroHertzState
  <2>2. TimesTyped'
    <3>1. scheduled_repeat_'.since \in 0..MaxAge /\ scheduled_repeat_'.idle \in BOOLEAN
        BY <2>1, RatesDivide DEF NoRepeat
    <3>2. Unset' = Unset
        BY DEF Unset
    <3> QED BY <1>3, <3>1, <3>2 DEF TimesTyped
  <2>3. CadenceShort' /\ RepeatsShort' /\ Chained'
      BY <2>1 DEF CadenceShort, RepeatsShort, Chained, NoRepeat
  <2>4. KeyDue'
      BY <1>3 DEF KeyDue, Unset
  <2> QED BY <2>2, <2>3, <2>4 DEF WaitInv
<1>4. \/ UNCHANGED <<repeating, max_fps_, restricted_frame_delay_, cadence_tasks, key_wait>>
      \/ StartZeroHertz(c.max) \/ StopZeroHertz
    BY DEF MaybeReconfigureAdapters
<1> QED BY <1>1, <1>2, <1>3, <1>4 DEF StartZeroHertz, StopZeroHertz

LEMMA WaitConstraintsTask == ASSUME IInv, WaitInv, ConstraintsTask PROVE WaitInv'
<1>1. Take("constraints")
    BY DEF ConstraintsTask
<1>2. Aged(tasks') /\ (FrameTasks # {} => FrameTasks' # {})
    BY <1>1, TakenWaits
<1>3. PICK was : MaybeReconfigureAdapters(was, Head(tasks).to, zero_hertz_params_)
    BY DEF ConstraintsTask
<1> QED BY <1>2, <1>3, ReconfigurationWaits DEF ConstraintsTask

LEMMA WaitSetZeroHertzModeEnabled ==
    ASSUME IInv, WaitInv, SetZeroHertzModeEnabled PROVE WaitInv'
<1>1. PICK was, p : MaybeReconfigureAdapters(was, source_constraints_, p)
    BY DEF SetZeroHertzModeEnabled
<1>2. FrameTasks' = FrameTasks /\ Aged(tasks')
    BY DEF SetZeroHertzModeEnabled, FrameTasks, WaitInv, TimesTyped
<1> QED BY <1>1, <1>2, ReconfigurationWaits DEF SetZeroHertzModeEnabled

-----------------------------------------------------------------------------
(* Frames, repeats and time.                                                *)

\* A frame that arrives comes within its delay, behind those that are queued, and the key
\* frame with the first of them.
LEMMA ZeroHertzOnFrameWaits ==
    ASSUME IInv, WaitInv, NEW frame \in Frames, frame.age \in Nat,
           ZeroHertzOnFrame(frame), ~sending.on, ZeroHertz, Aged(tasks')
    PROVE  WaitInv'
<1> DEFINE delay == LargerOf(frame_delay_ - frame.age, 0)
<1>1. /\ current_frame_id_' = current_frame_id_ + 1
      /\ scheduled_repeat_' = NoRepeat
      /\ cadence_tasks' = Append(cadence_tasks, delay)
      /\ UNCHANGED <<max_fps_, restricted_frame_delay_, repeat_tasks, sending, key_wait>>
    BY DEF ZeroHertzOnFrame, output
<1>2. frame_delay_ \in Nat \ {0} /\ frame_delay_' = frame_delay_ /\ Limits' = Limits
      /\ \A limit \in Limits : limit \in Nat
    BY <1>1, RatesSet, LimitsTyped DEF frame_delay_, Limits
<1>3. delay \in Int /\ delay <= frame_delay_
    BY <1>2 DEF LargerOf
<1> HIDE DEF delay
<1>4. CurrentRepeats' = {} /\ ~scheduled_repeat_'.on
    BY <1>1, NextRepeatIsNone DEF NoRepeat
<1>5. /\ cadence_tasks \in Seq(Int)
      /\ \A k \in DOMAIN cadence_tasks : cadence_tasks[k] <= frame_delay_
    BY DEF IInv, Typed, QueuesTyped, WaitInv, CadenceShort
<1>6. /\ DOMAIN cadence_tasks = 1..Len(cadence_tasks) /\ Len(cadence_tasks) \in Nat
      /\ DOMAIN cadence_tasks' = 1..(Len(cadence_tasks) + 1)
      /\ \A k \in 1..Len(cadence_tasks) : cadence_tasks'[k] = cadence_tasks[k]
      /\ cadence_tasks'[Len(cadence_tasks) + 1] = delay
      /\ cadence_tasks' # <<>> /\ Head(cadence_tasks') = cadence_tasks'[1]
      /\ cadence_tasks # <<>> =>
            Head(cadence_tasks) = cadence_tasks[1] /\ Len(cadence_tasks) > 0
      /\ cadence_tasks = <<>> => Len(cadence_tasks) = 0
    BY <1>1, <1>3, <1>5
<1>7. CadenceShort'
  <2>1. \A k \in 1..(Len(cadence_tasks) + 1) : cadence_tasks'[k] <= frame_delay_
    <3>1. \A k \in 1..(Len(cadence_tasks) + 1) :
             k \in 1..Len(cadence_tasks) \/ k = Len(cadence_tasks) + 1
        BY <1>6
    <3> QED BY <1>3, <1>5, <1>6, <3>1
  <2> QED BY <1>2, <1>6, <2>1 DEF CadenceShort
<1>8. TimesTyped'
    BY <1>1, RatesDivide DEF WaitInv, TimesTyped, NoRepeat, Unset
<1>9. RepeatsShort' /\ Chained'
    BY <1>4 DEF RepeatsShort, Chained
<1>10. KeyDue'
  <2>1. CASE key_wait = Unset
      BY <1>1, <2>1 DEF KeyDue, Unset
  <2>2. CASE key_wait # Unset
    <3>1. key_wait \in Nat
        BY <2>2 DEF WaitInv, TimesTyped
    <3>2. PICK limit \in Limits : ComesWith(limit)
        BY <2>2 DEF WaitInv, KeyDue
    <3>3. Head(cadence_tasks') \in Int /\ Head(cadence_tasks') <= frame_delay_
        BY <1>3, <1>5, <1>6
    <3>4. key_wait <= limit + frame_delay_
          /\ key_wait + Head(cadence_tasks') <= limit + frame_delay_
      <4>1. CASE key_wait <= limit
          BY <1>2, <3>1, <3>3, <4>1
      <4>2. CASE /\ cadence_tasks # <<>> /\ key_wait <= limit + frame_delay_
                 /\ key_wait + Head(cadence_tasks) <= limit + frame_delay_
          BY <1>6, <4>2
      <4> QED BY <3>2, <4>1, <4>2 DEF ComesWith
    <3>5. ComesWith(limit)'
        BY <1>1, <1>2, <1>6, <3>4 DEF ComesWith
    <3>6. RepeatComesSoon' /\ ZeroHertz' /\ ~sending'.on
        BY <1>1, <1>4 DEF RepeatComesSoon, ZeroHertz, Unset
    <3> QED BY <1>2, <3>5, <3>6 DEF KeyDue
  <2> QED BY <2>1, <2>2
<1> QED BY <1>7, <1>8, <1>9, <1>10 DEF WaitInv

LEMMA WaitFrameTask == ASSUME IInv, WaitInv, FrameTask PROVE WaitInv'
<1> DEFINE frame == [id |-> Head(tasks).id, age |-> Head(tasks).age]
<1>1. Take("frame")
    BY DEF FrameTask
<1>2. /\ Head(tasks) \in Tasks /\ Head(tasks).kind = "frame"
      /\ Aged(tasks') /\ ~sending.on /\ Head(tasks).age \in Nat
    BY <1>1, Taken, TakenWaits DEF IInv, Typed, QueuesTyped
<1>3. frame \in Frames /\ frame.age \in Nat
    BY <1>2 DEF Tasks, Frames
<1>4. \/ current_adapter_mode_ = "zero_hertz" /\ ZeroHertzOnFrame(frame)
      \/ current_adapter_mode_ = "base" /\ PassthroughOnFrame(frame)
      \/ current_adapter_mode_ = "base" /\ VSyncPostFrame(frame)
    BY DEF FrameTask
<1> HIDE DEF frame
<1>5. CASE current_adapter_mode_ = "zero_hertz" /\ ZeroHertzOnFrame(frame)
    BY <1>2, <1>3, <1>5, ZeroHertzOnFrameWaits DEF IInv, AdapterMatchesConfig
<1>6. CASE /\ current_adapter_mode_ = "base"
           /\ PassthroughOnFrame(frame) \/ VSyncPostFrame(frame)
  <2>1. ~ZeroHertz
      BY <1>6 DEF IInv, AdapterMatchesConfig
  <2>2. /\ UNCHANGED <<repeating, cadence>>
        /\ key_wait' = Unset \/ UNCHANGED <<key_wait, sending>>
      BY <1>6 DEF PassthroughOnFrame, VSyncPostFrame, Deliver, output
  <2> QED BY <1>2, <2>1, <2>2, UntouchedWaits
          DEF repeating, cadence, WaitInv, TimesTyped
<1> QED BY <1>4, <1>5, <1>6

\* A repeat that is scheduled comes within the idle period or the frame duration.
LEMMA NewRepeatShort ==
    ASSUME IInv, ZeroHertz, TimesTyped, UNCHANGED max_fps_, NEW idle \in BOOLEAN,
           scheduled_repeat_'.idle = idle, scheduled_repeat_'.since = 0
    PROVE  /\ RepeatDuration(idle) \in Int
           /\ \A in : in = RepeatDuration(idle) => RepeatShort(in)'
<1>1. /\ FrameDuration \in Limits /\ Second \in Nat /\ Limits' = Limits
      /\ \A limit \in Limits : limit \in Nat
    BY DurationIsLimit, RatesSet, LimitsTyped, RatesDivide DEF Limits, frame_delay_
<1>2. CASE idle
    BY <1>1, <1>2 DEF RepeatDuration, RepeatShort
<1>3. CASE ~idle
    BY <1>1, <1>3 DEF RepeatDuration, RepeatShort
<1> QED BY <1>2, <1>3

\* The key frame comes with the frame that waits or with a repeat that comes soon, or the
\* repeat gives way to one that does.
LEMMA WaitProcessKeyFrameRequest ==
    ASSUME IInv, WaitInv, ProcessKeyFrameRequest PROVE WaitInv'
<1>1. /\ ~sending.on /\ ZeroHertz
      /\ UNCHANGED <<queued_frames_, max_fps_, restricted_frame_delay_, cadence_tasks,
                     tasks, sending>>
      /\ key_wait' = IF queued_frames_ = <<>> \/ key_wait # Unset THEN key_wait ELSE 0
    BY DEF ProcessKeyFrameRequest, Idle, ZeroHertz
<1>2. /\ frame_delay_ \in Nat \ {0} /\ frame_delay_ \in Limits
      /\ \A limit \in Limits : limit \in Nat
    BY <1>1, RatesSet, LimitsTyped
<1>3. /\ FrameTasks' = FrameTasks /\ ZeroHertz' /\ ~sending'.on
      /\ frame_delay_' = frame_delay_ /\ Limits' = Limits /\ Unset' = Unset
    BY <1>1 DEF FrameTasks, ZeroHertz, frame_delay_, Limits, Unset
<1>4. CadenceShort'
    BY <1>1, <1>3 DEF WaitInv, CadenceShort
<1>5. CASE RepeatComesSoon
  <2>1. UNCHANGED <<current_frame_id_, scheduled_repeat_, repeat_tasks>>
      BY <1>5 DEF ProcessKeyFrameRequest
  <2>2. CASE key_wait' = key_wait
      BY <1>1, <1>3, <2>1, <2>2, UntouchedWaits DEF WaitInv, TimesTyped
  <2>3. CASE queued_frames_ # <<>> /\ key_wait' = 0
    <3>1. CurrentRepeats' = CurrentRepeats /\ RepeatComesSoon'
        BY <1>3, <1>5, <2>1 DEF CurrentRepeats, RepeatComesSoon
    <3>2. TimesTyped'
        BY <1>1, <1>3, <2>1, <2>3 DEF WaitInv, TimesTyped
    <3>3. \A in : RepeatShort(in) => RepeatShort(in)'
        BY <1>3, <2>1 DEF RepeatShort
    <3>4. RepeatsShort' /\ Chained'
        BY <1>3, <2>1, <3>1, <3>3 DEF WaitInv, RepeatsShort, Chained
    <3>5. \E limit \in Limits : ComesWith(limit)'
      <4>1. CASE FrameTasks # {}
          BY <1>2, <1>3, <2>3, <4>1 DEF ComesWith
      <4>2. CASE \E k \in CurrentRepeats : TRUE
        <5>1. PICK k \in CurrentRepeats : RepeatShort(repeat_tasks[k].in)
            BY <4>2 DEF WaitInv, RepeatsShort
        <5>2. scheduled_repeat_.on
            BY <5>1 DEF IInv, RepeatsCurrent, CurrentRepeats
        <5>3. /\ repeat_tasks[k].in \in Int /\ scheduled_repeat_.since \in Int
              /\ Second \in Int
          <6>1. k \in 1..Len(repeat_tasks)
              BY <5>1, RepeatsOlder DEF CurrentRepeats
          <6>2. repeat_tasks[k] \in Repeats
              BY <6>1, RepeatsOlder
          <6>3. scheduled_repeat_.since \in 0..MaxAge
              BY DEF WaitInv, TimesTyped
          <6> QED BY <6>2, <6>3, RatesDivide DEF Repeats
        <5>4. PICK limit \in Limits : repeat_tasks[k].in <= limit
          <6>1. CASE scheduled_repeat_.idle
            <7>1. repeat_tasks[k].in <= Second - scheduled_repeat_.since
                BY <5>1, <6>1 DEF RepeatShort
            <7>2. Second - scheduled_repeat_.since <= frame_delay_
                BY <1>5, <5>2, <6>1 DEF RepeatComesSoon
            <7>3. repeat_tasks[k].in <= frame_delay_
                BY <1>2, <5>3, <7>1, <7>2
            <7> QED BY <1>2, <7>3
          <6>2. CASE ~scheduled_repeat_.idle
              BY <5>1, <6>2 DEF RepeatShort
          <6> QED BY <6>1, <6>2
        <5>5. 0 <= limit /\ 0 + repeat_tasks[k].in <= limit
            BY <1>2, <5>3, <5>4
        <5> QED BY <2>1, <2>3, <3>1, <5>1, <5>4, <5>5 DEF ComesWith
      <4>3. CASE FrameTasks = {} /\ CurrentRepeats = {}
        <5>1. ~scheduled_repeat_.on
            BY <4>3 DEF WaitInv, Chained
        <5>2. cadence_tasks \in Seq(Int) /\ queued_frames_ \in Seq(Frames)
            BY DEF IInv, Typed, QueuesTyped
        <5>3. Len(cadence_tasks) = Len(queued_frames_)
            BY <5>1, <5>2 DEF IInv, QueueAccounted
        <5>4. cadence_tasks # <<>>
            BY <2>3, <5>2, <5>3, NotEmpty
        <5>5. 1 \in DOMAIN cadence_tasks /\ Head(cadence_tasks) = cadence_tasks[1]
              /\ Head(cadence_tasks) \in Int
            BY <5>2, <5>4
        <5>6. Head(cadence_tasks) <= frame_delay_
            BY <5>5 DEF WaitInv, CadenceShort
        <5>7. 0 <= frame_delay_ + frame_delay_
              /\ 0 + Head(cadence_tasks) <= frame_delay_ + frame_delay_
            BY <1>2, <5>5, <5>6
        <5> QED BY <1>1, <1>2, <1>3, <2>3, <5>4, <5>7 DEF ComesWith
      <4> QED BY <4>1, <4>2, <4>3
    <3>6. KeyDue'
        BY <1>3, <3>1, <3>5 DEF KeyDue
    <3> QED BY <1>4, <3>2, <3>4, <3>6 DEF WaitInv
  <2> QED BY <1>1, <2>2, <2>3
<1>6. CASE ~RepeatComesSoon
  <2> DEFINE task == [id |-> current_frame_id_ + 1, in |-> FrameDuration]
  <2>1. /\ scheduled_repeat_.on
        /\ current_frame_id_' = current_frame_id_ + 1
        /\ scheduled_repeat_' = [on |-> TRUE, since |-> 0, idle |-> FALSE,
                                 lag |-> scheduled_repeat_.lag]
        /\ repeat_tasks' = Append(repeat_tasks, task)
      BY <1>6 DEF ProcessKeyFrameRequest, RepeatComesSoon, ShortRepeatId, ScheduleRepeat,
                      RepeatDuration
  <2>2. /\ FrameDuration \in Nat /\ FrameDuration \in Limits
        /\ \A in : in = FrameDuration => RepeatShort(in)'
      BY <1>1, <1>2, <2>1, NewRepeatShort, DurationIsLimit DEF WaitInv, RepeatDuration
  <2>3. task \in Repeats /\ task.in = FrameDuration /\ task.id = current_frame_id_ + 1
    <3>1. current_frame_id_ + 1 \in Int
        BY RepeatsOlder
    <3> QED BY <2>2, <3>1 DEF Repeats
  <2> HIDE DEF task
  <2>4. /\ Len(repeat_tasks) \in Nat /\ DOMAIN repeat_tasks' = 1..(Len(repeat_tasks) + 1)
        /\ \A k \in 1..Len(repeat_tasks) : repeat_tasks'[k] = repeat_tasks[k]
        /\ repeat_tasks'[Len(repeat_tasks) + 1] = task
      BY <2>1, <2>3, RepeatsOlder
  <2>5. CurrentRepeats' = {Len(repeat_tasks) + 1}
    <3>1. \A i, j \in Int : i < j + 1 => i # j + 1
        OBVIOUS
    <3>2. \A k \in 1..Len(repeat_tasks) : repeat_tasks'[k].id # current_frame_id_ + 1
        BY <2>4, <3>1, RepeatsOlder
    <3>3. \A k \in 1..(Len(repeat_tasks) + 1) :
             repeat_tasks'[k].id = current_frame_id_ + 1 <=> k = Len(repeat_tasks) + 1
        BY <2>3, <2>4, <3>2
    <3>4. Len(repeat_tasks) + 1 \in 1..(Len(repeat_tasks) + 1)
        BY <2>4
    <3> QED BY <2>1, <2>4, <3>3, <3>4 DEF CurrentRepeats
  <2>6. RepeatsShort' /\ Chained'
      BY <2>2, <2>3, <2>4, <2>5 DEF RepeatsShort, Chained
  <2>7. key_wait' = 0
    <3>1. key_wait = Unset
        BY <1>6 DEF WaitInv, KeyDue
    <3>2. Len(queued_frames_) = 1
        BY <2>1 DEF IInv, QueueAccounted
    <3>3. queued_frames_ # <<>>
        BY <3>2
    <3> QED BY <1>1, <3>1, <3>3
  <2>8. TimesTyped'
    <3>1. scheduled_repeat_'.since \in 0..MaxAge /\ scheduled_repeat_'.idle \in BOOLEAN
        BY <2>1, RatesDivide
    <3> QED BY <1>1, <1>3, <2>7, <3>1 DEF WaitInv, TimesTyped
  <2>9. KeyDue'
    <3>1. 0 <= FrameDuration /\ 0 + task.in <= FrameDuration
        BY <2>2, <2>3
    <3>2. PICK limit \in Limits : 0 <= limit /\ 0 + task.in <= limit
        BY <2>2, <3>1
    <3>3. ComesWith(limit)'
        BY <2>4, <2>5, <2>7, <3>2 DEF ComesWith
    <3>4. RepeatComesSoon'
        BY <2>1 DEF RepeatComesSoon
    <3> QED BY <1>3, <3>3, <3>4 DEF KeyDue
  <2> QED BY <1>4, <2>6, <2>8, <2>9 DEF WaitInv
<1> QED BY <1>5, <1>6

\* A frame that is sent answers the request; the last one is repeated from then on.
LEMMA WaitProcessOnDelayedCadence ==
    ASSUME IInv, WaitInv, ProcessOnDelayedCadence PROVE WaitInv'
<1>1. /\ cadence_tasks # <<>> /\ cadence_tasks' = Tail(cadence_tasks)
      /\ UNCHANGED <<current_frame_id_, max_fps_, restricted_frame_delay_, tasks>>
      /\ key_wait' = Unset /\ Unset' = Unset
    BY DEF ProcessOnDelayedCadence, SendFrameNow, Deliver, Unset
<1>2. cadence_tasks \in Seq(Int) /\ Len(cadence_tasks) > 0
    BY <1>1, NotEmpty DEF IInv, Typed, QueuesTyped
<1>3. ~scheduled_repeat_.on /\ ZeroHertz
  <2>1. /\ queued_frames_ \in Seq(Frames) /\ scheduled_repeat_.on \in BOOLEAN
        /\ Len(queued_frames_) =
              Len(cadence_tasks) + (IF scheduled_repeat_.on THEN 1 ELSE 0)
        /\ scheduled_repeat_.on => Len(queued_frames_) = 1
        /\ ~ZeroHertz => queued_frames_ = <<>>
      BY DEF IInv, Typed, QueuesTyped, MembersTyped, QueueAccounted
  <2>2. ~scheduled_repeat_.on
      BY <1>2, <2>1
  <2>3. Len(queued_frames_) > 0
      BY <1>2, <2>1, <2>2
  <2> QED BY <2>1, <2>2, <2>3, NotEmpty
<1>4. CurrentRepeats = {}
    BY <1>3 DEF IInv, RepeatsCurrent, CurrentRepeats
<1>5. CadenceShort'
  <2>1. /\ DOMAIN cadence_tasks = 1..Len(cadence_tasks) /\ Len(cadence_tasks) \in Nat
        /\ DOMAIN cadence_tasks' = 1..(Len(cadence_tasks) - 1)
        /\ \A k \in 1..(Len(cadence_tasks) - 1) : cadence_tasks'[k] = cadence_tasks[k + 1]
      BY <1>1, <1>2
  <2>2. \A k \in 1..(Len(cadence_tasks) - 1) : k + 1 \in 1..Len(cadence_tasks)
      BY <2>1
  <2>3. frame_delay_' = frame_delay_
      BY <1>1 DEF frame_delay_
  <2> QED BY <2>1, <2>2, <2>3 DEF WaitInv, CadenceShort
<1>6. KeyDue'
    BY <1>1 DEF KeyDue
<1>7. CASE Len(queued_frames_) > 1
  <2>1. UNCHANGED <<scheduled_repeat_, repeat_tasks>>
      BY <1>7 DEF ProcessOnDelayedCadence
  <2>2. CurrentRepeats' = {} /\ ~scheduled_repeat_'.on
      BY <1>1, <1>3, <1>4, <2>1 DEF CurrentRepeats
  <2>3. TimesTyped'
      BY <1>1, <2>1 DEF WaitInv, TimesTyped
  <2>4. RepeatsShort' /\ Chained'
      BY <2>2 DEF RepeatsShort, Chained
  <2> QED BY <1>5, <1>6, <2>3, <2>4 DEF WaitInv
<1>8. CASE ~(Len(queued_frames_) > 1)
  <2>1. PICK idle \in BOOLEAN : idle <=> HasQualityConverged(layer_trackers_)
      OBVIOUS
  <2> DEFINE task == [id |-> current_frame_id_, in |-> RepeatDuration(idle)]
  <2>2. /\ scheduled_repeat_'.since = 0 /\ scheduled_repeat_'.idle = idle
        /\ repeat_tasks' = Append(repeat_tasks, task)
    <3>1. HasQualityConverged(layer_trackers_) = idle
        BY <2>1 DEF HasQualityConverged
    <3>2. ScheduleRepeat(current_frame_id_, HasQualityConverged(layer_trackers_),
                         Head(queued_frames_).age)
        BY <1>8 DEF ProcessOnDelayedCadence
    <3>3. ScheduleRepeat(current_frame_id_, idle, Head(queued_frames_).age)
        BY <3>1, <3>2
    <3> QED BY <3>3 DEF ScheduleRepeat
  <2>3. /\ RepeatDuration(idle) \in Int
        /\ \A in : in = RepeatDuration(idle) => RepeatShort(in)'
      BY <1>1, <1>3, <2>2, NewRepeatShort DEF WaitInv
  <2>4. task \in Repeats /\ task.in = RepeatDuration(idle) /\ task.id = current_frame_id_
      BY <2>3, RepeatsOlder DEF Repeats
  <2> HIDE DEF task
  <2>5. /\ Len(repeat_tasks) \in Nat /\ DOMAIN repeat_tasks' = 1..(Len(repeat_tasks) + 1)
        /\ DOMAIN repeat_tasks = 1..Len(repeat_tasks)
        /\ \A k \in 1..Len(repeat_tasks) : repeat_tasks'[k] = repeat_tasks[k]
        /\ repeat_tasks'[Len(repeat_tasks) + 1] = task
      BY <2>2, <2>4, RepeatsOlder
  <2>6. CurrentRepeats' = {Len(repeat_tasks) + 1}
    <3>1. \A k \in 1..Len(repeat_tasks) : repeat_tasks'[k].id # current_frame_id_
        BY <1>4, <2>5 DEF CurrentRepeats
    <3>2. \A k \in 1..(Len(repeat_tasks) + 1) :
             repeat_tasks'[k].id = current_frame_id_ <=> k = Len(repeat_tasks) + 1
        BY <2>4, <2>5, <3>1
    <3>3. Len(repeat_tasks) + 1 \in 1..(Len(repeat_tasks) + 1)
        BY <2>5
    <3> QED BY <1>1, <2>5, <3>2, <3>3 DEF CurrentRepeats
  <2>7. RepeatsShort' /\ Chained'
      BY <2>3, <2>4, <2>5, <2>6 DEF RepeatsShort, Chained
  <2>8. TimesTyped'
    <3>1. scheduled_repeat_'.since \in 0..MaxAge /\ scheduled_repeat_'.idle \in BOOLEAN
        BY <2>2, RatesDivide
    <3> QED BY <1>1, <3>1 DEF WaitInv, TimesTyped
  <2> QED BY <1>5, <1>6, <2>7, <2>8 DEF WaitInv
<1> QED BY <1>7, <1>8

\* The others are the tasks but for the one that runs.
LEMMA Others ==
    ASSUME NEW s \in Seq(Repeats), NEW k \in 1..Len(s)
    PROVE  /\ Without(s, k) \in Seq(Repeats) /\ Len(Without(s, k)) = Len(s) - 1
           /\ \A i \in 1..(Len(s) - 1) :
                 \E j \in 1..Len(s) : j # k /\ Without(s, k)[i] = s[j]
           /\ \A j \in 1..Len(s) :
                 j # k => \E i \in 1..(Len(s) - 1) : Without(s, k)[i] = s[j]
<1> DEFINE n == Len(s)
           old(i) == IF i < k THEN i ELSE i + 1
<1>1. /\ Without(s, k) \in Seq(Repeats) /\ Len(Without(s, k)) = n - 1
      /\ \A i \in 1..(n - 1) : Without(s, k)[i] = s[old(i)]
    BY WithoutOne
<1>2. n \in Nat /\ k \in 1..n
    OBVIOUS
<1> HIDE DEF n
<1>3. \A i \in 1..(n - 1) : old(i) \in 1..n /\ old(i) # k
    BY <1>2
<1>4. \A j \in 1..n : j # k => \E i \in 1..(n - 1) : old(i) = j
  <2>1. \A j \in 1..n : j < k => j \in 1..(n - 1) /\ old(j) = j
      BY <1>2
  <2>2. \A j \in 1..n : j > k => j - 1 \in 1..(n - 1) /\ old(j - 1) = j
      BY <1>2
  <2>3. \A j \in 1..n : j # k => j < k \/ j > k
      BY <1>2
  <2> HIDE DEF old
  <2> QED BY <2>1, <2>2, <2>3
<1> HIDE DEF old
<1>5. \A i \in 1..(n - 1) : \E j \in 1..n : j # k /\ Without(s, k)[i] = s[j]
    BY <1>1, <1>3
<1>6. \A j \in 1..n : j # k => \E i \in 1..(n - 1) : Without(s, k)[i] = s[j]
    BY <1>1, <1>4
<1> QED BY <1>1, <1>5, <1>6 DEF n

LEMMA WaitProcessRepeated ==
    ASSUME IInv, WaitInv, ProcessRepeatedFrameOnDelayedCadence PROVE WaitInv'
<1> DEFINE frame == [Head(queued_frames_) EXCEPT !.age = scheduled_repeat_.lag]
<1>1. PICK k \in DOMAIN repeat_tasks :
         IF RepeatIsCurrent(repeat_tasks[k].id)
         THEN /\ scheduled_repeat_' =
                    [scheduled_repeat_ EXCEPT
                        !.since = 0, !.idle = HasQualityConverged(layer_trackers_)]
              /\ repeat_tasks' = Append(Without(repeat_tasks, k),
                    [id |-> repeat_tasks[k].id,
                     in |-> RepeatDuration(HasQualityConverged(layer_trackers_))])
              /\ SendFrameNow(frame)
         ELSE /\ repeat_tasks' = Without(repeat_tasks, k)
              /\ UNCHANGED <<scheduled_repeat_, sending, key_wait>>
    BY DEF ProcessRepeatedFrameOnDelayedCadence, Without, output
<1>2. UNCHANGED <<current_frame_id_, cadence_tasks, max_fps_, restricted_frame_delay_, tasks>>
    BY DEF ProcessRepeatedFrameOnDelayedCadence, cadence
<1> HIDE DEF frame
<1> DEFINE others == Without(repeat_tasks, k)
           n == Len(repeat_tasks)
<1>3. k \in 1..n /\ n \in Nat /\ DOMAIN repeat_tasks = 1..n
      /\ repeat_tasks \in Seq(Repeats) /\ repeat_tasks # <<>>
    BY RepeatsOlder
<1>4. /\ others \in Seq(Repeats) /\ Len(others) = n - 1
      /\ \A i \in 1..(n - 1) : \E j \in 1..n : j # k /\ others[i] = repeat_tasks[j]
      /\ \A j \in 1..n : j # k => \E i \in 1..(n - 1) : others[i] = repeat_tasks[j]
    BY <1>3, Others
<1> HIDE DEF others
<1>5. DOMAIN others = 1..(n - 1)
    BY <1>4
<1> HIDE DEF n
<1>6. ZeroHertz
  <2>1. queued_frames_ # <<>>
      BY <1>3 DEF IInv, QueueAccounted
  <2> QED BY <2>1 DEF IInv, QueueAccounted
<1>7. /\ FrameTasks' = FrameTasks /\ ZeroHertz' /\ frame_delay_' = frame_delay_
      /\ Limits' = Limits /\ Unset' = Unset
    BY <1>2, <1>6 DEF FrameTasks, ZeroHertz, frame_delay_, Limits, Unset
<1>8. CadenceShort'
    BY <1>2, <1>7 DEF WaitInv, CadenceShort
<1>9. CASE RepeatIsCurrent(repeat_tasks[k].id)
  <2>1. PICK idle \in BOOLEAN : idle <=> HasQualityConverged(layer_trackers_)
      OBVIOUS
  <2> DEFINE task == [id |-> repeat_tasks[k].id, in |-> RepeatDuration(idle)]
  <2>2. /\ scheduled_repeat_' = [scheduled_repeat_ EXCEPT !.since = 0, !.idle = idle]
        /\ repeat_tasks' = Append(others, task)
        /\ repeat_tasks[k].id = current_frame_id_
        /\ key_wait' = Unset
    <3>1. HasQualityConverged(layer_trackers_) = idle
        BY <2>1 DEF HasQualityConverged
    <3> QED BY <1>1, <1>9, <3>1 DEF RepeatIsCurrent, others, SendFrameNow, Deliver
  <2>3. scheduled_repeat_'.since = 0 /\ scheduled_repeat_'.idle = idle
      BY <2>2 DEF IInv, Typed, MembersTyped
  <2>4. /\ RepeatDuration(idle) \in Int
        /\ \A in : in = RepeatDuration(idle) => RepeatShort(in)'
      BY <1>2, <1>6, <2>3, NewRepeatShort DEF WaitInv
  <2>5. task \in Repeats /\ task.in = RepeatDuration(idle) /\ task.id = current_frame_id_
      BY <2>2, <2>4, RepeatsOlder DEF Repeats
  <2> HIDE DEF task
  <2>6. /\ DOMAIN repeat_tasks' = 1..n
        /\ \A i \in 1..(n - 1) : repeat_tasks'[i] = others[i]
        /\ repeat_tasks'[n] = task
      BY <1>3, <1>4, <2>2, <2>5
  <2>7. CurrentRepeats' = {n}
    <3>1. \A j \in 1..n : j # k => repeat_tasks[j].id # current_frame_id_
        BY <1>3, <2>2 DEF IInv, RepeatsCurrent
    <3>2. ASSUME NEW i \in 1..(n - 1) PROVE repeat_tasks'[i].id # current_frame_id_
      <4>1. PICK j \in 1..n : j # k /\ others[i] = repeat_tasks[j]
          BY <1>4
      <4> QED BY <2>6, <3>1, <4>1
    <3>3. \A i \in 1..n : i \in 1..(n - 1) \/ i = n
        BY <1>3
    <3>4. \A i \in 1..n : repeat_tasks'[i].id = current_frame_id_ <=> i = n
        BY <2>5, <2>6, <3>2, <3>3
    <3>5. n \in 1..n
        BY <1>3
    <3> QED BY <1>2, <2>6, <3>4, <3>5 DEF CurrentRepeats
  <2>8. RepeatsShort' /\ Chained'
      BY <2>4, <2>5, <2>6, <2>7 DEF RepeatsShort, Chained
  <2>9. TimesTyped'
    <3>1. scheduled_repeat_'.since \in 0..MaxAge /\ scheduled_repeat_'.idle \in BOOLEAN
        BY <2>3, RatesDivide
    <3> QED BY <1>2, <1>7, <2>2, <3>1 DEF WaitInv, TimesTyped
  <2>10. KeyDue'
      BY <1>7, <2>2 DEF KeyDue
  <2> QED BY <1>8, <2>8, <2>9, <2>10 DEF WaitInv
<1>10. CASE ~RepeatIsCurrent(repeat_tasks[k].id)
  <2>1. /\ repeat_tasks' = others /\ repeat_tasks[k].id # current_frame_id_
        /\ UNCHANGED <<scheduled_repeat_, sending, key_wait>>
      BY <1>1, <1>10 DEF RepeatIsCurrent, others
  <2>2. \A i \in CurrentRepeats' : \E j \in CurrentRepeats : repeat_tasks'[i] = repeat_tasks[j]
    <3> TAKE i \in CurrentRepeats'
    <3>1. i \in 1..(n - 1) /\ others[i].id = current_frame_id_
        BY <1>2, <1>5, <2>1 DEF CurrentRepeats
    <3>2. PICK j \in 1..n : others[i] = repeat_tasks[j]
        BY <1>4, <3>1
    <3>3. j \in CurrentRepeats
        BY <1>3, <3>1, <3>2 DEF CurrentRepeats
    <3> QED BY <2>1, <3>2, <3>3
  <2>3. \A j \in CurrentRepeats : \E i \in CurrentRepeats' : repeat_tasks'[i] = repeat_tasks[j]
    <3> TAKE j \in CurrentRepeats
    <3>1. j \in 1..n /\ repeat_tasks[j].id = current_frame_id_ /\ j # k
        BY <1>3, <2>1 DEF CurrentRepeats
    <3>2. PICK i \in 1..(n - 1) : others[i] = repeat_tasks[j]
        BY <1>4, <3>1
    <3>3. i \in CurrentRepeats'
        BY <1>2, <1>5, <2>1, <3>1, <3>2 DEF CurrentRepeats
    <3> QED BY <2>1, <3>2, <3>3
  <2>4. \A in : RepeatShort(in) => RepeatShort(in)'
      BY <1>7, <2>1 DEF RepeatShort
  <2>5. RepeatsShort'
    <3>1. \A i \in CurrentRepeats' : \E j \in CurrentRepeats :
             repeat_tasks'[i] = repeat_tasks[j] /\ RepeatShort(repeat_tasks[j].in)
        BY <2>2 DEF WaitInv, RepeatsShort
    <3> QED BY <2>4, <3>1 DEF RepeatsShort
  <2>6. Chained'
      BY <1>7, <2>1, <2>3 DEF WaitInv, Chained
  <2>7. TimesTyped'
      BY <1>2, <1>7, <2>1 DEF WaitInv, TimesTyped
  <2>8. KeyDue'
    <3>1. \A limit : ComesWith(limit) => ComesWith(limit)'
        BY <1>2, <1>7, <2>1, <2>3 DEF ComesWith
    <3>2. RepeatComesSoon' <=> RepeatComesSoon
        BY <1>7, <2>1 DEF RepeatComesSoon
    <3> QED BY <1>7, <2>1, <3>1, <3>2 DEF WaitInv, KeyDue
  <2> QED BY <1>8, <2>5, <2>6, <2>7, <2>8 DEF WaitInv
<1> QED BY <1>9, <1>10

\* A tick of an idle queue brings the key frame as much closer as the wait grows: nothing
\* that waits is due before it.  While the encoder is called no key frame is waited for.
LEMMA WaitTick == ASSUME IInv, WaitInv, Tick PROVE WaitInv'
<1>1. /\ sending' = IF sending.on THEN [sending EXCEPT !.elapsed = @ + 1] ELSE sending
      /\ cadence_tasks' = [k \in DOMAIN cadence_tasks |-> Down(cadence_tasks[k])]
      /\ repeat_tasks' = [k \in DOMAIN repeat_tasks |->
                             [repeat_tasks[k] EXCEPT !.in = Down(@)]]
      /\ scheduled_repeat_' = IF scheduled_repeat_.on
                              THEN [scheduled_repeat_ EXCEPT !.since = Older(@)]
                              ELSE scheduled_repeat_
      /\ tasks' = [k \in DOMAIN tasks |->
                      IF tasks[k].kind = "vsync"
                      THEN [tasks[k] EXCEPT !.age = Older(@), !.frame.age = Older(@)]
                      ELSE [tasks[k] EXCEPT !.age = Older(@)]]
      /\ key_wait' = IF key_wait = Unset \/ sending.on THEN key_wait ELSE Older(key_wait)
      /\ UNCHANGED <<current_frame_id_, max_fps_, restricted_frame_delay_>>
      /\ sending.on \/ NothingDue
    BY DEF Tick
<1>2. /\ \A n \in Int : Down(n) \in Int /\ Down(n) <= n
      /\ \A n \in Int : n > 0 => Down(n) = n - 1
      /\ \A n \in Nat : Older(n) \in Nat /\ n <= Older(n) /\ Older(n) <= n + 1
      /\ \A n \in 0..MaxAge : Older(n) \in 0..MaxAge
    BY RatesDivide DEF Down, Older
<1>3. /\ MaxAge \in Nat /\ Second \in Nat /\ Unset' = Unset
    BY RatesDivide DEF Unset
<1>4. /\ DOMAIN cadence_tasks = 1..Len(cadence_tasks) /\ cadence_tasks \in Seq(Int)
      /\ \A k \in DOMAIN cadence_tasks : cadence_tasks[k] \in Int
      /\ DOMAIN cadence_tasks' = DOMAIN cadence_tasks
      /\ \A k \in DOMAIN cadence_tasks : cadence_tasks'[k] = Down(cadence_tasks[k])
  <2>1. cadence_tasks \in Seq(Int)
      BY DEF IInv, Typed, QueuesTyped
  <2>2. /\ DOMAIN cadence_tasks = 1..Len(cadence_tasks)
        /\ \A k \in DOMAIN cadence_tasks : cadence_tasks[k] \in Int
      BY <2>1
  <2>3. /\ DOMAIN cadence_tasks' = DOMAIN cadence_tasks
        /\ \A k \in DOMAIN cadence_tasks : cadence_tasks'[k] = Down(cadence_tasks[k])
      BY <1>1
  <2> QED BY <2>1, <2>2, <2>3
<1>5. /\ \A k \in DOMAIN repeat_tasks : repeat_tasks[k] \in Repeats
      /\ DOMAIN repeat_tasks' = DOMAIN repeat_tasks
      /\ \A k \in DOMAIN repeat_tasks :
            /\ repeat_tasks'[k].id = repeat_tasks[k].id
            /\ repeat_tasks'[k].in = Down(repeat_tasks[k].in)
  <2>1. \A k \in DOMAIN repeat_tasks : repeat_tasks[k] \in Repeats
      BY RepeatsOlder
  <2>2. DOMAIN repeat_tasks' = DOMAIN repeat_tasks
        /\ \A k \in DOMAIN repeat_tasks :
              repeat_tasks'[k] = [repeat_tasks[k] EXCEPT !.in = Down(repeat_tasks[k].in)]
      BY <1>1
  <2>3. \A r \in Repeats, d \in Int :
           [r EXCEPT !.in = d].id = r.id /\ [r EXCEPT !.in = d].in = d
      BY DEF Repeats
  <2>4. \A k \in DOMAIN repeat_tasks : Down(repeat_tasks[k].in) \in Int
      BY <1>2, <2>1 DEF Repeats
  <2>5. ASSUME NEW k \in DOMAIN repeat_tasks
        PROVE  /\ repeat_tasks'[k].id = repeat_tasks[k].id
               /\ repeat_tasks'[k].in = Down(repeat_tasks[k].in)
    <3>1. repeat_tasks[k] \in Repeats /\ Down(repeat_tasks[k].in) \in Int
        BY <2>1, <2>4
    <3>2. repeat_tasks'[k] = [repeat_tasks[k] EXCEPT !.in = Down(repeat_tasks[k].in)]
        BY <2>2
    <3> QED BY <2>3, <3>1, <3>2
  <2> QED BY <2>1, <2>2, <2>5
<1>6. CurrentRepeats' = CurrentRepeats
    BY <1>1, <1>5 DEF CurrentRepeats
<1>7. \A k \in CurrentRepeats : repeat_tasks[k].in \in Int
    BY <1>5 DEF CurrentRepeats, Repeats
<1>8. scheduled_repeat_.since \in 0..MaxAge /\ scheduled_repeat_.idle \in BOOLEAN
    BY DEF WaitInv, TimesTyped
<1>9. /\ scheduled_repeat_'.on = scheduled_repeat_.on
      /\ scheduled_repeat_'.idle = scheduled_repeat_.idle
      /\ scheduled_repeat_'.since = IF scheduled_repeat_.on THEN Older(scheduled_repeat_.since)
                                    ELSE scheduled_repeat_.since
    BY <1>1 DEF IInv, Typed, MembersTyped
<1>10. frame_delay_' = frame_delay_ /\ Limits' = Limits /\ (ZeroHertz' <=> ZeroHertz)
    BY <1>1 DEF frame_delay_, Limits, ZeroHertz
<1>11. Aged(tasks') /\ FrameTasks' = FrameTasks
  <2>1. \A k \in DOMAIN tasks : tasks[k] \in Tasks /\ tasks[k].age \in Nat
      BY DEF IInv, Typed, QueuesTyped, WaitInv, TimesTyped, Aged
  <2> DEFINE aged(t) == IF t.kind = "vsync"
                        THEN [t EXCEPT !.age = Older(@), !.frame.age = Older(@)]
                        ELSE [t EXCEPT !.age = Older(@)]
  <2>2. \A t \in Tasks : aged(t).kind = t.kind /\ aged(t).age = Older(t.age)
    <3> TAKE t \in Tasks
    <3>1. CASE t \in [kind : {"frame"}, id : Int, age : Int]
        BY <3>1
    <3>2. CASE t \in [kind : {"discarded"}, age : Int]
        BY <3>2
    <3>3. CASE t \in [kind : {"constraints"}, age : Int, to : Constraints]
        BY <3>3
    <3>4. CASE t \in [kind : {"vsync"}, age : Int, frame : Frames]
        BY <3>4
    <3> QED BY <3>1, <3>2, <3>3, <3>4 DEF Tasks
  <2>3. tasks' = [k \in DOMAIN tasks |-> aged(tasks[k])]
      BY <1>1
  <2> HIDE DEF aged
  <2>4. \A k \in DOMAIN tasks : tasks'[k].kind = tasks[k].kind /\ tasks'[k].age \in Nat
      BY <1>2, <2>1, <2>2, <2>3
  <2> QED BY <2>3, <2>4 DEF Aged, FrameTasks
<1>12. key_wait' \in Nat \cup {Unset} /\ (key_wait = Unset => key_wait' = Unset)
    BY <1>1, <1>2 DEF WaitInv, TimesTyped
<1>13. TimesTyped'
  <2>1. scheduled_repeat_'.since \in 0..MaxAge
      BY <1>2, <1>8, <1>9
  <2> QED BY <1>1, <1>3, <1>8, <1>9, <1>11, <1>12, <2>1 DEF WaitInv, TimesTyped
<1>14. CASE ~ZeroHertz
  <2>1. cadence_tasks = <<>> /\ repeat_tasks = <<>> /\ ~scheduled_repeat_.on
      BY <1>14, NothingWaits
  <2>2. DOMAIN cadence_tasks' = {} /\ CurrentRepeats' = {} /\ ~scheduled_repeat_'.on
      BY <1>4, <1>6, <1>9, <2>1 DEF CurrentRepeats
  <2>3. CadenceShort' /\ RepeatsShort' /\ Chained'
      BY <2>2 DEF CadenceShort, RepeatsShort, Chained
  <2>4. KeyDue'
      BY <1>3, <1>12, <1>14 DEF WaitInv, KeyDue
  <2> QED BY <1>13, <2>3, <2>4 DEF WaitInv
<1>15. CASE ZeroHertz
  <2>1. frame_delay_ \in Nat /\ \A limit \in Limits : limit \in Nat
      BY <1>15, RatesSet, LimitsTyped
  <2>2. CadenceShort'
    <3>1. ASSUME NEW k \in DOMAIN cadence_tasks PROVE Down(cadence_tasks[k]) <= frame_delay_
      <4>1. cadence_tasks[k] \in Int /\ cadence_tasks[k] <= frame_delay_
          BY <1>4 DEF WaitInv, CadenceShort
      <4>2. Down(cadence_tasks[k]) \in Int /\ Down(cadence_tasks[k]) <= cadence_tasks[k]
          BY <1>2, <4>1
      <4> QED BY <2>1, <4>1, <4>2
    <3> QED BY <1>4, <1>10, <3>1 DEF CadenceShort
  <2>3. RepeatsShort'
    <3> SUFFICES ASSUME NEW k \in CurrentRepeats
                 PROVE  RepeatShort(repeat_tasks[k].in)'
        BY <1>6 DEF RepeatsShort
    <3>1. /\ RepeatShort(repeat_tasks[k].in)
          /\ repeat_tasks'[k].in = Down(repeat_tasks[k].in)
          /\ repeat_tasks[k].in \in Int /\ scheduled_repeat_.on
        BY <1>5, <1>7 DEF WaitInv, RepeatsShort, CurrentRepeats, IInv, RepeatsCurrent
    <3>2. repeat_tasks'[k].in \in Int /\ repeat_tasks'[k].in <= repeat_tasks[k].in
        BY <1>2, <3>1
    <3>3. CASE scheduled_repeat_.idle
      <4>1. repeat_tasks[k].in <= Second - scheduled_repeat_.since
          BY <3>1, <3>3 DEF RepeatShort
      <4>2. repeat_tasks'[k].in <= Second - Older(scheduled_repeat_.since)
          BY <1>3, <1>8, <3>1, <4>1 DEF Down, Older
      <4> QED BY <1>9, <3>1, <3>3, <4>2 DEF RepeatShort
    <3>4. CASE ~scheduled_repeat_.idle
      <4>1. PICK limit \in Limits : repeat_tasks[k].in <= limit
          BY <3>1, <3>4 DEF RepeatShort
      <4>2. repeat_tasks'[k].in <= limit
          BY <2>1, <3>1, <3>2, <4>1
      <4> QED BY <1>9, <1>10, <3>4, <4>2 DEF RepeatShort
    <3> QED BY <3>3, <3>4
  <2>4. Chained'
      BY <1>6, <1>9, <1>11 DEF WaitInv, Chained
  <2>5. KeyDue'
    <3>1. CASE key_wait = Unset
        BY <1>3, <1>12, <3>1 DEF KeyDue
    <3>2. CASE key_wait # Unset
      <4>1. /\ ~sending.on /\ RepeatComesSoon /\ key_wait \in Nat
            /\ sending' = sending /\ key_wait' = Older(key_wait) /\ NothingDue
          BY <1>1, <3>2 DEF WaitInv, KeyDue, TimesTyped
      <4>2. PICK limit \in Limits : ComesWith(limit)
          BY <3>2 DEF WaitInv, KeyDue
      <4>3. key_wait' \in Nat /\ key_wait' <= key_wait + 1
          BY <1>2, <4>1
      <4>4. ComesWith(limit)'
        <5>1. FrameTasks = {}
            BY <4>1 DEF NothingDue, FrameTasks
        <5>2. CASE /\ key_wait <= limit
                   /\ \E k \in CurrentRepeats : key_wait + repeat_tasks[k].in <= limit
          <6>1. PICK k \in CurrentRepeats : key_wait + repeat_tasks[k].in <= limit
              BY <5>2
          <6>2. /\ repeat_tasks[k].in \in Int /\ repeat_tasks[k].in > 0
                /\ repeat_tasks'[k].in = Down(repeat_tasks[k].in)
              BY <1>5, <1>7, <4>1 DEF NothingDue, CurrentRepeats
          <6>3. repeat_tasks'[k].in = repeat_tasks[k].in - 1
              BY <1>2, <6>2
          <6>4. key_wait' <= limit /\ key_wait' + repeat_tasks'[k].in <= limit
              BY <2>1, <4>1, <4>3, <6>1, <6>2, <6>3
          <6> QED BY <1>6, <6>4 DEF ComesWith
        <5>3. CASE /\ cadence_tasks # <<>> /\ key_wait <= limit + frame_delay_
                   /\ key_wait + Head(cadence_tasks) <= limit + frame_delay_
          <6>1. /\ 1 \in DOMAIN cadence_tasks /\ Head(cadence_tasks) = cadence_tasks[1]
                /\ cadence_tasks[1] \in Int
              BY <1>4, <5>3
          <6>2. cadence_tasks[1] > 0
              BY <4>1, <6>1 DEF NothingDue
          <6>3. cadence_tasks'[1] = cadence_tasks[1] - 1
              BY <1>2, <1>4, <6>1, <6>2
          <6>4. cadence_tasks' # <<>> /\ Head(cadence_tasks') = cadence_tasks'[1]
              BY <1>4, <6>1
          <6>5. /\ key_wait' <= limit + frame_delay_
                /\ key_wait' + Head(cadence_tasks') <= limit + frame_delay_
              BY <2>1, <4>1, <4>3, <5>3, <6>1, <6>2, <6>3, <6>4
          <6> QED BY <1>10, <6>4, <6>5 DEF ComesWith
        <5> QED BY <4>2, <5>1, <5>2, <5>3 DEF ComesWith
      <4>5. RepeatComesSoon'
        <5>1. CASE ~scheduled_repeat_.on \/ ~scheduled_repeat_.idle
            BY <1>9, <5>1 DEF RepeatComesSoon
        <5>2. CASE scheduled_repeat_.on /\ Second - scheduled_repeat_.since <= frame_delay_
          <6>1. Second - Older(scheduled_repeat_.since) <= frame_delay_
              BY <1>2, <1>3, <1>8, <2>1, <5>2
          <6> QED BY <1>9, <1>10, <5>2, <6>1 DEF RepeatComesSoon
        <5> QED BY <4>1, <5>1, <5>2 DEF RepeatComesSoon
      <4> QED BY <1>10, <1>15, <4>1, <4>4, <4>5 DEF KeyDue
    <3> QED BY <3>1, <3>2
  <2> QED BY <1>13, <2>2, <2>3, <2>4, <2>5 DEF WaitInv
<1> QED BY <1>14, <1>15

LEMMA InitWaits == Init => WaitInv
<1> SUFFICES ASSUME Init PROVE WaitInv
    OBVIOUS
<1>1. /\ cadence_tasks = <<>> /\ repeat_tasks = <<>> /\ tasks = <<>>
      /\ scheduled_repeat_ = NoRepeat /\ restricted_frame_delay_ = Unset
      /\ key_wait = Unset
    BY DEF Init
<1>2. TimesTyped
    BY <1>1, RatesDivide DEF TimesTyped, NoRepeat, Aged
<1>3. CadenceShort /\ RepeatsShort /\ Chained /\ KeyDue
    BY <1>1 DEF CadenceShort, RepeatsShort, CurrentRepeats, Chained, NoRepeat, KeyDue
<1> QED BY <1>2, <1>3 DEF WaitInv

LEMMA NextWaits == IInv /\ WaitInv /\ [Next]_vars => WaitInv'
<1> SUFFICES ASSUME IInv, WaitInv, [Next]_vars PROVE WaitInv'
    OBVIOUS
<1>1. CASE Source
    BY <1>1, WaitOnFrame, WaitOnDiscardedFrame, WaitOnConstraintsChanged DEF Source
<1>2. CASE Encoder
  <2>1. CASE UpdateLayerQualityConvergence \/ UpdateLayerStatus
    <3>1. PICK trackers : TrackLayers(trackers)
        BY <2>1 DEF UpdateLayerQualityConvergence, UpdateLayerStatus
    <3> QED BY <3>1, WaitTrackLayers
  <2> QED BY <1>2, <2>1, WaitSetZeroHertzModeEnabled, WaitRestrictions,
             WaitProcessKeyFrameRequest DEF Encoder
<1>3. CASE Queue
    BY <1>3, WaitFrameTask, WaitDiscardedTask, WaitConstraintsTask, WaitVSyncTask,
       WaitRequestRefreshFrame, WaitProcessOnDelayedCadence, WaitProcessRepeated,
       WaitSendFrameReturns DEF Queue
<1>4. CASE Worker
    BY <1>4, WaitVSyncOnFrame, WaitEncodeAllEnqueuedFrames DEF Worker
<1>5. CASE Tick
    BY <1>5, WaitTick
<1>6. CASE UNCHANGED vars
    BY <1>6, WaitUnchanged
<1> QED BY <1>1, <1>2, <1>3, <1>4, <1>5, <1>6 DEF Next

\* A key frame that is asked for in zero-hertz mode comes within a frame duration that may
\* have been in force, and the delay of a frame that takes the repeat's place
\* (ProcessKeyFrameRequest), for all rates and restrictions.
THEOREM SpecKeyFrameAnswered == Spec => []KeyFrameAnswered
<1>1. ASSUME IInv, WaitInv PROVE KeyFrameAnswered
  <2> SUFFICES ASSUME ZeroHertz, key_wait # Unset
               PROVE  \E limit \in Limits : key_wait <= limit + frame_delay_
      BY DEF KeyFrameAnswered, Limits
  <2>1. PICK limit \in Limits : ComesWith(limit)
      BY <1>1 DEF WaitInv, KeyDue
  <2>2. key_wait \in Nat /\ limit \in Nat /\ frame_delay_ \in Nat
      BY <1>1, RatesSet, LimitsTyped DEF WaitInv, TimesTyped
  <2> QED BY <2>1, <2>2 DEF ComesWith
<1>2. Init => IInv /\ WaitInv
    BY InitInv, InitWaits
<1>3. (IInv /\ WaitInv) /\ [Next]_vars => (IInv /\ WaitInv)'
    BY NextKeeps, NextWaits
<1>4. IInv /\ WaitInv => KeyFrameAnswered
    BY <1>1
<1> QED BY <1>2, <1>3, <1>4, PTL DEF Spec
=============================================================================
