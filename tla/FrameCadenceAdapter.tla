-------------------------- MODULE FrameCadenceAdapter --------------------------
(***************************************************************************)
(* video/frame_cadence_adapter.{h,cc}: what stands between a video source  *)
(* and the encoder.  It hands a source's frames to the encoder queue; in   *)
(* zero-hertz mode (screen sharing from a source with min_fps = 0) it      *)
(* delays each frame by one frame duration, repeats the last one at the    *)
(* frame rate until the encoder's quality converges and once a second from *)
(* then on, and asks an idle source for a frame.                           *)
(*                                                                         *)
(* Everything runs on the encoder queue, a FIFO with delayed tasks, but    *)
(* OnFrame, OnDiscardedFrame and OnConstraintsChanged, which the source    *)
(* calls and which post to it, and the worker queue of the VSync mode.     *)
(* Time is in ticks: a delayed task carries the ticks it still waits, a    *)
(* frame the ticks since it was captured.  The queue runs its tasks in the *)
(* order they become ready, and before the clock moves on, except that a   *)
(* call of the encoder lasts up to MaxEncode ticks and delays all others.  *)
(***************************************************************************)
EXTENDS Integers, Sequences, FiniteSets

CONSTANTS
    Second,         \* ticks per second
    MaxFps,         \* max_fps a source may announce, in half frames per second
    Restricted,     \* rates adaptation may restrict the source to, likewise
    MaxEncode,      \* the longest call of the encoder, in ticks
    MaxAge,         \* ages above this one are not told apart
    MaxFrames,      \* bound on the frames captured
    MaxConfigs,     \* bound on changes of constraints and parameters
    MaxControls     \* bound on all other calls

\* What is unset; no age and no rate.
Unset == -(MaxAge + 1)
DelayOf(fps) == (2 * Second) \div fps
\* A double assigned to a uint32_t: half a frame per second is lost.
ToUint32(fps) == (fps \div 2) * 2

ASSUME RatesDivide ==
    /\ Second \in Nat \ {0} /\ MaxEncode \in Nat /\ MaxAge \in Nat
    /\ MaxFps \subseteq Nat \ {0} /\ Restricted \subseteq Nat \ {0}
    /\ \A f \in MaxFps \cup Restricted : DelayOf(f) \in Nat \ {0}
ASSUME CountsTyped == {MaxFrames, MaxConfigs, MaxControls} \subseteq Nat

VARIABLES
    \* FrameCadenceAdapterImpl
    metronome_,                      \* the VSync mode replaces the passthrough
    source_constraints_, zero_hertz_params_, restricted_max_frame_rate_,
    current_adapter_mode_,
    frames_scheduled_for_processing_,
    \* ZeroHertzAdapterMode; max_fps_ is Unset when there is none
    max_fps_, queued_frames_, current_frame_id_, scheduled_repeat_,
    layer_trackers_, restricted_frame_delay_, queue_overload_count_,
    refresh_frame_requester_,        \* ticks to its next request, or Unset
    cadence_tasks,                   \* ProcessOnDelayedCadence, in order
    repeat_tasks,                    \* ProcessRepeatedFrameOnDelayedCadence
    \* VSyncEncodeAdapterMode
    worker_tasks, input_queue_, tick_requested,
    \* the queue, its running call of the encoder, the environment's budget
    tasks, sending, captured, captured_now, configs, controls,
    \* what the encoder was given
    encoded, sent_age, key_wait, waived

config == <<metronome_, source_constraints_, zero_hertz_params_,
            restricted_max_frame_rate_, current_adapter_mode_>>
repeating == <<queued_frames_, current_frame_id_, scheduled_repeat_,
               repeat_tasks>>
cadence == <<max_fps_, restricted_frame_delay_, refresh_frame_requester_,
             cadence_tasks, layer_trackers_>>
vsync == <<worker_tasks, input_queue_, tick_requested>>
environment == <<captured, captured_now, configs, controls>>
output == <<encoded, sent_age, key_wait, waived>>
vars == <<config, frames_scheduled_for_processing_, repeating, cadence,
          queue_overload_count_, vsync, tasks, sending, environment, output>>

frame_delay_ == DelayOf(max_fps_)
LargerOf(a, b) == IF a > b THEN a ELSE b
NoRepeat == [on |-> FALSE, since |-> 0, idle |-> FALSE, lag |-> 0]
NotSending == [on |-> FALSE, zero_hertz |-> FALSE, elapsed |-> 0,
               dropped |-> FALSE]
NoConstraints == [min |-> Unset, max |-> Unset]

\* The adapter as it is created, or with a screen-sharing source's constraints
\* and the encoder's parameters already set (without a metronome only: to bound
\* the states).
Init ==
    /\ restricted_max_frame_rate_ = Unset /\ restricted_frame_delay_ = Unset
    /\ \/ /\ source_constraints_ = NoConstraints /\ zero_hertz_params_ = Unset
          /\ current_adapter_mode_ = "base"
          /\ max_fps_ = Unset /\ layer_trackers_ = <<>>
          /\ refresh_frame_requester_ = Unset
          /\ metronome_ \in BOOLEAN
       \/ /\ max_fps_ \in MaxFps
          /\ source_constraints_ = [min |-> 0, max |-> max_fps_]
          /\ zero_hertz_params_ = 1
          /\ current_adapter_mode_ = "zero_hertz"
          /\ layer_trackers_ = <<"unconverged">>
          /\ refresh_frame_requester_ = 3 * frame_delay_
          /\ metronome_ = FALSE
    /\ frames_scheduled_for_processing_ = 0
    /\ queued_frames_ = <<>> /\ current_frame_id_ = 0
    /\ scheduled_repeat_ = NoRepeat /\ queue_overload_count_ = 0
    /\ cadence_tasks = <<>> /\ repeat_tasks = <<>>
    /\ worker_tasks = <<>> /\ input_queue_ = <<>> /\ tick_requested = FALSE
    /\ tasks = <<>> /\ sending = NotSending
    /\ captured = 0 /\ captured_now = FALSE
    /\ configs = 0 /\ controls = 0
    /\ encoded = 0 /\ sent_age = MaxAge
    /\ key_wait = Unset /\ waived = 0

\* The queue is free for the next task; a timer's task is ready once its time
\* has come, and the one that has been ready for longest runs next.
Idle == ~sending.on
Longest(wait) ==
    /\ Idle /\ wait >= 0
    /\ tasks # <<>> => Head(tasks).age <= wait
    /\ refresh_frame_requester_ # Unset => -refresh_frame_requester_ <= wait
    /\ cadence_tasks # <<>> => -Head(cadence_tasks) <= wait
    /\ \A k \in DOMAIN repeat_tasks : -repeat_tasks[k].in <= wait
Take(kind) == /\ tasks # <<>> /\ Head(tasks).kind = kind
               /\ Longest(Head(tasks).age)
               /\ tasks' = Tail(tasks)
Configure == /\ configs < MaxConfigs /\ configs' = configs + 1
             /\ UNCHANGED controls
Control == /\ controls < MaxControls /\ controls' = controls + 1
           /\ UNCHANGED configs

-----------------------------------------------------------------------------
(* The source's calls, on its own threads.                                  *)

OnFrame ==
    /\ captured < MaxFrames /\ ~captured_now
    /\ captured' = captured + 1 /\ captured_now' = TRUE
    /\ frames_scheduled_for_processing_' = frames_scheduled_for_processing_ + 1
    /\ tasks' = Append(tasks, [kind |-> "frame", id |-> captured + 1, age |-> 0])
    /\ UNCHANGED <<config, repeating, cadence, queue_overload_count_, vsync,
                   sending, configs, controls, output>>

OnDiscardedFrame ==
    /\ Control
    /\ tasks' = Append(tasks, [kind |-> "discarded", age |-> 0])
    /\ UNCHANGED <<config, frames_scheduled_for_processing_, repeating, cadence,
                   queue_overload_count_, vsync, sending, captured,
                   captured_now, output>>

OnConstraintsChanged ==
    /\ Configure
    /\ \E constraints \in {NoConstraints} \cup [min : {0}, max : MaxFps] :
          tasks' = Append(tasks, [kind |-> "constraints", age |-> 0,
                                  to |-> constraints])
    /\ UNCHANGED <<config, frames_scheduled_for_processing_, repeating, cadence,
                   queue_overload_count_, vsync, sending, captured,
                   captured_now, output>>

-----------------------------------------------------------------------------
(* Configuration, on the encoder queue.                                     *)

IsZeroHertzScreenshareEnabled(constraints, params) ==
    /\ constraints.max > 0
    /\ constraints.min = 0
    /\ params # Unset

RestrictedDelay(rate) == IF rate > 0 THEN DelayOf(rate) ELSE Unset

\* ~ZeroHertzAdapterMode: the safety flag cancels its delayed tasks.
NoZeroHertzState ==
    /\ queued_frames_' = <<>> /\ current_frame_id_' = 0
    /\ scheduled_repeat_' = NoRepeat /\ queue_overload_count_' = 0
    /\ cadence_tasks' = <<>> /\ repeat_tasks' = <<>>

StartZeroHertz(max) ==
    /\ max_fps_' = max
    /\ NoZeroHertzState
    /\ refresh_frame_requester_' = 3 * DelayOf(max)
    /\ restricted_frame_delay_' = RestrictedDelay(restricted_max_frame_rate_)
    /\ waived' = captured /\ key_wait' = Unset

StopZeroHertz ==
    /\ max_fps_' = Unset
    /\ NoZeroHertzState
    /\ refresh_frame_requester_' = Unset
    /\ restricted_frame_delay_' = Unset
    /\ waived' = captured /\ key_wait' = Unset

RateChanged(max) == ToUint32(max_fps_) # max
\* was_zero_hertz_enabled is the caller's: the constraints' handler asks the
\* whole condition, the encoder's only whether there were parameters.
MaybeReconfigureAdapters(was_zero_hertz_enabled, constraints, params) ==
    /\ IF IsZeroHertzScreenshareEnabled(constraints, params)
       THEN /\ IF ~was_zero_hertz_enabled \/ RateChanged(constraints.max)
               THEN StartZeroHertz(constraints.max)
               ELSE UNCHANGED <<repeating, max_fps_, restricted_frame_delay_,
                                refresh_frame_requester_, cadence_tasks,
                                queue_overload_count_, waived, key_wait>>
            /\ layer_trackers_' = [i \in 1..params |-> "unconverged"]
            /\ current_adapter_mode_' = "zero_hertz"
       ELSE /\ IF was_zero_hertz_enabled
               THEN StopZeroHertz
               ELSE UNCHANGED <<repeating, max_fps_, restricted_frame_delay_,
                                refresh_frame_requester_, cadence_tasks,
                                queue_overload_count_, waived, key_wait>>
            /\ layer_trackers_' = IF was_zero_hertz_enabled THEN <<>>
                                  ELSE layer_trackers_
            /\ current_adapter_mode_' = "base"

ConstraintsTask ==
    /\ Take("constraints")
    /\ source_constraints_' = Head(tasks).to
    /\ MaybeReconfigureAdapters(
          IsZeroHertzScreenshareEnabled(source_constraints_, zero_hertz_params_),
          Head(tasks).to, zero_hertz_params_)
    /\ UNCHANGED <<metronome_, zero_hertz_params_, restricted_max_frame_rate_,
                   frames_scheduled_for_processing_, vsync, sending, environment,
                   encoded, sent_age>>

\* Also called by the encoder from within its OnFrame, when new settings of
\* the encoder change the number of layers; it switches the mode off only
\* between frames.
SetZeroHertzModeEnabled ==
    /\ Configure
    /\ \E params \in {Unset, 0, 1} :
          /\ sending.on => zero_hertz_params_ # Unset /\ params # Unset
          /\ zero_hertz_params_' = params
          /\ MaybeReconfigureAdapters(zero_hertz_params_ # Unset,
                                      source_constraints_, params)
    /\ UNCHANGED <<metronome_, source_constraints_, restricted_max_frame_rate_,
                   frames_scheduled_for_processing_, vsync, tasks, sending,
                   captured, captured_now, encoded, sent_age>>

UpdateVideoSourceRestrictions ==
    /\ Control
    /\ \E rate \in (Restricted \cup {Unset}) \ {restricted_max_frame_rate_} :
          /\ restricted_max_frame_rate_' = rate
          /\ restricted_frame_delay_' =
                IF max_fps_ # Unset THEN RestrictedDelay(rate) ELSE Unset
    /\ UNCHANGED <<metronome_, source_constraints_, zero_hertz_params_,
                   current_adapter_mode_, frames_scheduled_for_processing_,
                   repeating, max_fps_, refresh_frame_requester_, cadence_tasks,
                   layer_trackers_, queue_overload_count_, vsync, tasks, sending,
                   captured, captured_now, output>>

\* A call that changes nothing is a step that changes nothing, here and below.
TrackLayers(trackers) ==
    /\ Control /\ trackers # layer_trackers_
    /\ layer_trackers_' = trackers
    /\ UNCHANGED <<config, frames_scheduled_for_processing_, repeating,
                   max_fps_, restricted_frame_delay_, refresh_frame_requester_,
                   cadence_tasks, queue_overload_count_, vsync, tasks, sending,
                   captured, captured_now, output>>

UpdateLayerQualityConvergence ==
    /\ Idle
    /\ \E i \in DOMAIN layer_trackers_, to \in {"converged", "unconverged"} :
          /\ layer_trackers_[i] # "disabled"
          /\ TrackLayers([layer_trackers_ EXCEPT ![i] = to])

\* A layer that is enabled already keeps what is known of its quality.
UpdateLayerStatus ==
    \E i \in DOMAIN layer_trackers_ :
        \/ TrackLayers([layer_trackers_ EXCEPT ![i] = "disabled"])
        \/ /\ layer_trackers_[i] = "disabled"
           /\ TrackLayers([layer_trackers_ EXCEPT ![i] = "unconverged"])

HasQualityConverged(trackers) ==
    /\ trackers # <<>>
    /\ \A i \in DOMAIN trackers : trackers[i] # "unconverged"

ResetQualityConvergenceInfo ==
    layer_trackers_' = [i \in DOMAIN layer_trackers_ |->
                           IF layer_trackers_[i] = "disabled" THEN "disabled"
                           ELSE "unconverged"]

-----------------------------------------------------------------------------
(* The encoder's callback.                                                  *)

\* VideoStreamEncoder::OnFrame drops a frame no newer than the last it took,
\* and one that found the queue overloaded.
Newer(frame) == frame.age < sent_age \/ sent_age = MaxAge
Deliver(frame, queue_overload) ==
    /\ sent_age' = IF Newer(frame) THEN frame.age ELSE sent_age
    /\ encoded' = IF Newer(frame) /\ ~queue_overload
                  THEN LargerOf(encoded, frame.id) ELSE encoded
    /\ key_wait' = Unset
    /\ UNCHANGED waived

FrameDuration == LargerOf(frame_delay_, restricted_frame_delay_)
RepeatDuration(idle_repeat) == IF idle_repeat THEN Second ELSE FrameDuration

\* The repeat's chain: the first repeat of a frame notes its timestamp's lag.
ScheduleRepeat(frame_id, idle_repeat, lag) ==
    /\ scheduled_repeat_' =
          [on |-> TRUE, since |-> 0, idle |-> idle_repeat,
           lag |-> IF scheduled_repeat_.on THEN scheduled_repeat_.lag ELSE lag]
    /\ repeat_tasks' =
          Append(repeat_tasks,
                 [id |-> frame_id, in |-> RepeatDuration(idle_repeat)])

\* SendFrameNow, up to the encoder's return.
SendFrameNow(frame) ==
    /\ Deliver(frame, queue_overload_count_ > 0)
    /\ sending' = [on |-> TRUE, zero_hertz |-> TRUE, elapsed |-> 0,
                    dropped |-> queue_overload_count_ > 0]

\* Every late call counts as an overload, whether frames wait or not.
OverloadedWithoutFrames ==
    /\ queue_overload_count_ = 0
    /\ sending.elapsed > FrameDuration
Overloaded ==
    /\ queue_overload_count_ = 0
    /\ frames_scheduled_for_processing_ > 0
    /\ sending.elapsed > FrameDuration

\* How many of the next frames are flagged; one too many.
FramesAndThisOne == frames_scheduled_for_processing_ + 1
FramesToFlag == frames_scheduled_for_processing_

\* ... and from there on.
SendFrameReturns ==
    /\ sending.on
    /\ sending' = NotSending
    /\ IF sending.zero_hertz /\ Overloaded
       THEN /\ queue_overload_count_' = FramesToFlag
            /\ current_frame_id_' = current_frame_id_ + 1
       ELSE /\ queue_overload_count_' =
                  IF sending.zero_hertz /\ queue_overload_count_ > 0
                  THEN queue_overload_count_ - 1 ELSE queue_overload_count_
            /\ UNCHANGED current_frame_id_
    /\ UNCHANGED <<config, frames_scheduled_for_processing_, queued_frames_,
                   scheduled_repeat_, repeat_tasks, cadence, vsync, tasks,
                   environment, output>>

-----------------------------------------------------------------------------
(* Zero-hertz mode.                                                         *)

FramesToKeep == IF scheduled_repeat_.on THEN Tail(queued_frames_) ELSE queued_frames_

\* ZeroHertzAdapterMode::OnFrame: the frame replaces the one being repeated.
ZeroHertzOnFrame(frame) ==
    /\ refresh_frame_requester_' = Unset
    /\ ResetQualityConvergenceInfo
    /\ queued_frames_' = Append(FramesToKeep, frame)
    /\ current_frame_id_' = current_frame_id_ + 1
    /\ scheduled_repeat_' = NoRepeat
    /\ cadence_tasks' = Append(cadence_tasks,
                               LargerOf(frame_delay_ - frame.age, 0))
    /\ UNCHANGED <<max_fps_, restricted_frame_delay_, repeat_tasks, vsync,
                   sending, output>>

\* The counter still counts the frame itself.
FrameCountsItself == frames_scheduled_for_processing_ > 0
QueueOverload == frames_scheduled_for_processing_ > 1

PassthroughOnFrame(frame) ==
    /\ Deliver(frame, QueueOverload)
    /\ sending' = [on |-> TRUE, zero_hertz |-> FALSE, elapsed |-> 0,
                    dropped |-> QueueOverload]
    /\ UNCHANGED <<repeating, cadence, vsync>>

\* On the encoder queue; the worker queue is to continue.
VSyncPostFrame(frame) ==
    /\ worker_tasks' = Append(worker_tasks, frame)
    /\ UNCHANGED <<repeating, cadence, input_queue_, tick_requested, sending,
                   output>>

\* The task OnFrame posted.
FrameTask ==
    /\ Take("frame")
    /\ frames_scheduled_for_processing_' = frames_scheduled_for_processing_ - 1
    /\ LET frame == [id |-> Head(tasks).id, age |-> Head(tasks).age] IN
       \/ current_adapter_mode_ = "zero_hertz" /\ ZeroHertzOnFrame(frame)
       \/ current_adapter_mode_ = "base" /\ ~metronome_ /\ PassthroughOnFrame(frame)
       \/ current_adapter_mode_ = "base" /\ metronome_ /\ VSyncPostFrame(frame)
    /\ UNCHANGED <<config, queue_overload_count_, environment>>

DiscardedTask ==
    /\ Take("discarded")
    /\ refresh_frame_requester_' =
          IF max_fps_ # Unset /\ refresh_frame_requester_ = Unset
          THEN 3 * frame_delay_ ELSE refresh_frame_requester_
    /\ UNCHANGED <<config, frames_scheduled_for_processing_, repeating, max_fps_,
                   restricted_frame_delay_, cadence_tasks, layer_trackers_,
                   queue_overload_count_, vsync, sending, environment, output>>

\* The requester asks for a frame and again after every frame duration.
RequestRefreshFrame ==
    /\ refresh_frame_requester_ # Unset /\ Longest(-refresh_frame_requester_)
    /\ refresh_frame_requester_' = frame_delay_
    /\ waived' = captured
    /\ UNCHANGED <<config, frames_scheduled_for_processing_, repeating, max_fps_,
                   restricted_frame_delay_, cadence_tasks, layer_trackers_,
                   queue_overload_count_, vsync, tasks, sending, environment,
                   encoded, sent_age, key_wait>>

\* The only frame stays queued, to be repeated.
ProcessOnDelayedCadence ==
    /\ cadence_tasks # <<>> /\ Longest(-Head(cadence_tasks))
    /\ cadence_tasks' = Tail(cadence_tasks)
    /\ IF Len(queued_frames_) > 1
       THEN /\ queued_frames_' = Tail(queued_frames_)
            /\ UNCHANGED <<scheduled_repeat_, repeat_tasks>>
       ELSE /\ ScheduleRepeat(current_frame_id_,
                              HasQualityConverged(layer_trackers_),
                              Head(queued_frames_).age)
            /\ UNCHANGED queued_frames_
    /\ SendFrameNow(Head(queued_frames_))
    /\ UNCHANGED <<config, frames_scheduled_for_processing_, current_frame_id_,
                   max_fps_, restricted_frame_delay_, refresh_frame_requester_,
                   layer_trackers_, queue_overload_count_, vsync, tasks,
                   environment>>

RepeatIsCurrent(frame_id) == frame_id = current_frame_id_
ProcessRepeatedFrameOnDelayedCadence ==
    /\ \E k \in DOMAIN repeat_tasks :
          LET task == repeat_tasks[k]
              others == SubSeq(repeat_tasks, 1, k - 1)
                            \o SubSeq(repeat_tasks, k + 1, Len(repeat_tasks))
              frame == [Head(queued_frames_) EXCEPT !.age = scheduled_repeat_.lag]
              idle == HasQualityConverged(layer_trackers_)
          IN /\ Longest(-task.in)
             /\ IF RepeatIsCurrent(task.id)
                THEN /\ queued_frames_' = <<frame>> \o Tail(queued_frames_)
                     /\ scheduled_repeat_' = [scheduled_repeat_ EXCEPT
                                                 !.since = 0, !.idle = idle]
                     /\ repeat_tasks' = Append(others, [id |-> task.id,
                                                  in |-> RepeatDuration(idle)])
                     /\ SendFrameNow(frame)
                ELSE /\ repeat_tasks' = others
                     /\ UNCHANGED <<queued_frames_, scheduled_repeat_, sending,
                                    output>>
    /\ UNCHANGED <<config, frames_scheduled_for_processing_, current_frame_id_,
                   cadence, queue_overload_count_, vsync, tasks, environment>>

\* The new repeat does not cancel the one that waits.
SameRepeatId == current_frame_id_
ShortRepeatId == current_frame_id_ + 1

\* Soon is within the period of the idle rate.
KeyFrameAwaitsRepeat ==
    \/ ~scheduled_repeat_.on
    \/ ~scheduled_repeat_.idle
    \/ scheduled_repeat_.since >= 0
\* Soon is within a frame duration.
RepeatComesSoon ==
    \/ ~scheduled_repeat_.on
    \/ ~scheduled_repeat_.idle
    \/ Second - scheduled_repeat_.since <= frame_delay_
\* A repeat at the idle rate gives way to one at the frame rate, unless it
\* comes soon.
ProcessKeyFrameRequest ==
    /\ Idle /\ Control
    /\ max_fps_ # Unset
    /\ ResetQualityConvergenceInfo
    /\ key_wait' = IF queued_frames_ = <<>> \/ key_wait # Unset
                   THEN key_wait ELSE 0
    /\ UNCHANGED queued_frames_
    /\ IF RepeatComesSoon
       THEN UNCHANGED <<current_frame_id_, scheduled_repeat_, repeat_tasks>>
       ELSE /\ current_frame_id_' = ShortRepeatId
            /\ ScheduleRepeat(ShortRepeatId, FALSE, 0)
    /\ UNCHANGED <<config, frames_scheduled_for_processing_, max_fps_,
                   restricted_frame_delay_, refresh_frame_requester_,
                   cadence_tasks, queue_overload_count_, vsync, tasks, sending,
                   captured, captured_now, encoded, sent_age, waived>>

-----------------------------------------------------------------------------
(* VSync mode: frames cross the worker queue and come back together at the   *)
(* metronome's next tick, or at once when it ticks too slowly.               *)

EncodeAll(input) ==
    /\ tasks' = tasks \o [k \in DOMAIN input |->
                            [kind |-> "vsync", age |-> 0, frame |-> input[k]]]
    /\ input_queue_' = <<>>

VSyncOnFrame ==
    /\ worker_tasks # <<>>
    /\ worker_tasks' = Tail(worker_tasks)
    /\ LET input == Append(input_queue_, Head(worker_tasks)) IN
       \/ /\ input_queue_' = input /\ tick_requested' = TRUE
          /\ UNCHANGED tasks
       \/ /\ EncodeAll(input)
          /\ UNCHANGED tick_requested
    /\ UNCHANGED <<config, frames_scheduled_for_processing_, repeating, cadence,
                   queue_overload_count_, sending, environment, output>>

EncodeAllEnqueuedFrames ==
    /\ tick_requested /\ tick_requested' = FALSE
    /\ EncodeAll(input_queue_)
    /\ UNCHANGED <<config, frames_scheduled_for_processing_, repeating, cadence,
                   queue_overload_count_, worker_tasks, sending, environment,
                   output>>

VSyncTask ==
    /\ Take("vsync")
    /\ Deliver(Head(tasks).frame, FALSE)
    /\ sending' = [on |-> TRUE, zero_hertz |-> FALSE, elapsed |-> 0,
                    dropped |-> FALSE]
    /\ UNCHANGED <<config, frames_scheduled_for_processing_, repeating, cadence,
                   queue_overload_count_, vsync, environment>>

-----------------------------------------------------------------------------
(* Time.                                                                    *)

NothingDue ==
    /\ tasks = <<>> /\ worker_tasks = <<>>
    /\ refresh_frame_requester_ = Unset \/ refresh_frame_requester_ > 0
    /\ \A k \in DOMAIN cadence_tasks : cadence_tasks[k] > 0
    /\ \A k \in DOMAIN repeat_tasks : repeat_tasks[k].in > 0

Down(n) == IF n > -MaxAge THEN n - 1 ELSE n
Older(n) == IF n < MaxAge THEN n + 1 ELSE n
OlderFrames(frames) ==
    [k \in DOMAIN frames |-> [frames[k] EXCEPT !.age = Older(@)]]

Tick ==
    /\ \/ NothingDue /\ Idle
       \/ sending.on /\ ~sending.dropped /\ sending.elapsed < MaxEncode
    /\ sending' = IF sending.on
                  THEN [sending EXCEPT !.elapsed = @ + 1] ELSE sending
    /\ captured_now' = FALSE
    /\ refresh_frame_requester_' = Down(refresh_frame_requester_)
    /\ cadence_tasks' = [k \in DOMAIN cadence_tasks |-> Down(cadence_tasks[k])]
    /\ repeat_tasks' = [k \in DOMAIN repeat_tasks |->
                           [repeat_tasks[k] EXCEPT !.in = Down(@)]]
    /\ scheduled_repeat_' = IF scheduled_repeat_.on
                            THEN [scheduled_repeat_ EXCEPT !.since = Older(@)]
                            ELSE scheduled_repeat_
    /\ queued_frames_' = OlderFrames(queued_frames_)
    /\ worker_tasks' = OlderFrames(worker_tasks)
    /\ input_queue_' = OlderFrames(input_queue_)
    /\ tasks' = [k \in DOMAIN tasks |->
                    IF tasks[k].kind = "vsync"
                    THEN [tasks[k] EXCEPT !.age = Older(@), !.frame.age = Older(@)]
                    ELSE [tasks[k] EXCEPT !.age = Older(@)]]
    /\ sent_age' = Older(sent_age)
    /\ key_wait' = IF key_wait = Unset \/ sending.on THEN key_wait
                   ELSE Older(key_wait)
    /\ UNCHANGED <<config, frames_scheduled_for_processing_, current_frame_id_,
                   max_fps_, restricted_frame_delay_, layer_trackers_,
                   queue_overload_count_, tick_requested, captured, configs, controls,
                   encoded, waived>>

-----------------------------------------------------------------------------
Source == OnFrame \/ OnDiscardedFrame \/ OnConstraintsChanged
Encoder == \/ SetZeroHertzModeEnabled \/ UpdateVideoSourceRestrictions
           \/ UpdateLayerQualityConvergence \/ UpdateLayerStatus
           \/ ProcessKeyFrameRequest
Queue == \/ FrameTask \/ DiscardedTask \/ ConstraintsTask \/ VSyncTask
         \/ RequestRefreshFrame \/ ProcessOnDelayedCadence
         \/ ProcessRepeatedFrameOnDelayedCadence
         \/ SendFrameReturns
Worker == VSyncOnFrame \/ EncodeAllEnqueuedFrames

Next == Source \/ Encoder \/ Queue \/ Worker \/ Tick

Spec == Init /\ [][Next]_vars
\* The queues run their tasks, calls of the encoder return, time passes.
FairSpec == Spec /\ WF_vars(Queue) /\ WF_vars(Worker) /\ WF_vars(Tick)

-----------------------------------------------------------------------------
(* Properties.                                                              *)

FrameTasks == {k \in DOMAIN tasks : tasks[k].kind = "frame"}
CurrentRepeats == {k \in DOMAIN repeat_tasks :
                      repeat_tasks[k].id = current_frame_id_}
ZeroHertz == max_fps_ # Unset

\* The mode runs exactly when constraints and parameters ask for it, though the two
\* that change them disagree on what "was enabled" means, and at the source's rate, or
\* at one that the comparison of whole rates takes for it
\* (frame_cadence_adapter.cc:1014).
AdapterMatchesConfig ==
    /\ ZeroHertz <=> IsZeroHertzScreenshareEnabled(source_constraints_,
                                                   zero_hertz_params_)
    /\ ZeroHertz <=> current_adapter_mode_ = "zero_hertz"
    /\ ZeroHertz => source_constraints_.max \in {max_fps_, ToUint32(max_fps_)}
QueueAccounted ==
    /\ Len(queued_frames_) =
          Len(cadence_tasks) + (IF scheduled_repeat_.on THEN 1 ELSE 0)
    /\ scheduled_repeat_.on => Len(queued_frames_) = 1
    /\ repeat_tasks # <<>> => queued_frames_ # <<>>
    /\ ~ZeroHertz => queued_frames_ = <<>>
OneRepeatChain ==
    /\ Cardinality(CurrentRepeats) <= 1
    /\ CurrentRepeats # {} => scheduled_repeat_.on

\* Through all changes of mode, the adapter is the one the configuration asks for, and
\* every queued frame has its task, but for the one that is repeated: no task finds
\* the queue empty (the DCHECKs of both), no frame is forgotten, and none is repeated
\* by two chains at once, as of the repeats that wait one at most is not cancelled.
TasksMatchQueue == AdapterMatchesConfig /\ QueueAccounted /\ OneRepeatChain

\* A zero-hertz stream never falls silent for good: a frame or a repeat is
\* due, one is on its way to the queue, or the source is being asked for one.
NeverSilent ==
    ZeroHertz =>
        \/ refresh_frame_requester_ # Unset
        \/ cadence_tasks # <<>>
        \/ CurrentRepeats # {}
        \/ FrameTasks # {}

\* "determines for how many future frames the queue_overload flag will be set"
\* (frame_cadence_adapter.cc:712): every frame flagged as overload is followed
\* by a task that sends another one, so that the overload ends.
OverloadCovered ==
    /\ frames_scheduled_for_processing_ = Cardinality(FrameTasks)
    /\ queue_overload_count_ <=
          Cardinality(FrameTasks) + Len(cadence_tasks)
              + (IF sending.on /\ sending.zero_hertz THEN 1 ELSE 0)

\* "we will very soon send out a frame" (frame_cadence_adapter.cc:565): a key
\* frame asked for comes within the longest frame duration that was in force
\* and the delay of a frame that arrives meanwhile, not counting the time the
\* encoder keeps the queue busy.  The frame that ends the wait is the one sent:
\* an encoder that finds its queue overloaded may still drop it.
KeyFrameAnswered ==
    ZeroHertz /\ key_wait # Unset =>
        \E delay \in {frame_delay_} \cup {DelayOf(f) : f \in Restricted} :
            key_wait <= LargerOf(delay, frame_delay_) + frame_delay_

\* Whatever the load, the newest frame is encoded in the end, though the
\* encoder drops what finds the queue overloaded, or follows a repeat with the
\* same or a later timestamp: a screen that stops changing is not left with an
\* older picture, unless the source was asked for a new one, or the zero-hertz mode
\* was entered, left or given another rate, which drops the frames still queued
\* (frame_cadence_adapter.cc:1014-1030).
NewestEncoded == []<>(encoded = captured \/ waived = captured)
=============================================================================
