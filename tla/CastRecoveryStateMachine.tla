----------------------- MODULE CastRecoveryStateMachine -----------------------
(***************************************************************************)
(* cast_tuning_recovery.{h,cc}: turns a lack of decoded frames into        *)
(* recovery instructions.  The application reports frames, evaluates the   *)
(* machine once in every TickMs, with a clock reading that may be one tick *)
(* old, and carries the instructions out.                                  *)
(***************************************************************************)
EXTENDS CastTuningConfig, Sequences

CONSTANTS
    RecoveryConfigs,   \* the configurations the machine may be built with
    TickMs,            \* granularity of the clock
    MaxNow             \* bound on the clock

ASSUME RecoveryConfigsValid == \A c \in RecoveryConfigs : Validate(c)
ASSUME ClockTyped == TickMs \in Nat \ {0} /\ MaxNow \in Nat

VARIABLES
    recovery,                  \* the configuration
    last_decoded_frame_ms_, last_recovery_action_ms_,
    failed_recovery_count_, started_,
    now,                       \* the application's clock
    evaluated,                 \* Evaluate was called since the last tick
    issued                     \* the instructions since the last frame, each
                               \* with the time it was evaluated at

machine == <<last_decoded_frame_ms_, last_recovery_action_ms_,
             failed_recovery_count_, started_>>
vars == <<recovery, machine, now, evaluated, issued>>

no_decoded_frame_timeout_ms_ == ValueOr(recovery, "no_decoded_frame_timeout_ms", 150)
pli_min_interval_ms_ == ValueOr(recovery, "pli_min_interval_ms", 500)
decoder_recreate_threshold_ ==
    ValueOr(recovery, "decoder_recreate_after_failed_pli", 2)
sender_reset_threshold_ == ValueOr(recovery, "sender_reset_after_failed_pli", 3)

Init ==
    /\ recovery \in RecoveryConfigs
    /\ last_decoded_frame_ms_ = 0 /\ last_recovery_action_ms_ = 0
    /\ failed_recovery_count_ = 0 /\ started_ = FALSE
    /\ now = 0 /\ evaluated = FALSE /\ issued = <<>>

-----------------------------------------------------------------------------
\* Start; OnDecodedFrame is the same call.
Restart(now_ms) ==
    /\ last_decoded_frame_ms_' = now_ms
    /\ last_recovery_action_ms_' = 0
    /\ failed_recovery_count_' = 0
    /\ started_' = TRUE
    /\ issued' = <<>>

OnDecodedFrame ==
    /\ Restart(now)
    /\ UNCHANGED <<recovery, now, evaluated>>

Stalled(now_ms) ==
    /\ started_
    /\ now_ms >= last_decoded_frame_ms_
    /\ now_ms - last_decoded_frame_ms_ >= no_decoded_frame_timeout_ms_

\* The distance from the last frame instead of the last instruction.
NotLimited(now_ms) ==
    now_ms - last_decoded_frame_ms_ >= pli_min_interval_ms_
MayAct(now_ms) ==
    \/ last_recovery_action_ms_ = 0
    \/ now_ms - last_recovery_action_ms_ >= pli_min_interval_ms_

\* The decoder's threshold tested before the sender's.
InstructionDecoderFirst(count) ==
    IF count >= decoder_recreate_threshold_ THEN "DECODER_RECREATE"
    ELSE IF count >= sender_reset_threshold_ THEN "SENDER_RESET"
    ELSE "PLI"
Instruction(count) ==
    IF count >= sender_reset_threshold_ THEN "SENDER_RESET"
    ELSE IF count >= decoder_recreate_threshold_ THEN "DECODER_RECREATE"
    ELSE "PLI"

Evaluate(now_ms) ==
    /\ evaluated' = (evaluated \/ now_ms = now)
    /\ IF Stalled(now_ms) /\ MayAct(now_ms)
       THEN /\ last_recovery_action_ms_' = now_ms
            /\ failed_recovery_count_' = failed_recovery_count_ + 1
            /\ issued' = Append(issued,
                                [at |-> now_ms,
                                 what |-> Instruction(failed_recovery_count_ + 1)])
       ELSE UNCHANGED <<last_recovery_action_ms_, failed_recovery_count_, issued>>
    /\ UNCHANGED <<recovery, last_decoded_frame_ms_, started_, now>>

Tick ==
    /\ evaluated /\ now + TickMs <= MaxNow
    /\ now' = now + TickMs
    /\ evaluated' = FALSE
    /\ UNCHANGED <<recovery, machine, issued>>

Next ==
    \/ OnDecodedFrame
    \/ \E now_ms \in {now, now - TickMs} : now_ms >= 0 /\ Evaluate(now_ms)
    \/ Tick

Spec == Init /\ [][Next]_vars
-----------------------------------------------------------------------------
(* Properties.                                                              *)

Severity(what) == CASE what = "PLI" -> 1
                    [] what = "DECODER_RECREATE" -> 2
                    [] what = "SENDER_RESET" -> 3

\* "Rate-limited recovery instructions" (cast_tuning_recovery.h:17): as long as no frame
\* is decoded, two instructions are pli_min_interval_ms apart, also when an evaluation
\* with an old clock reading comes between them.  A stall escalates and never steps
\* back, and "sender reset threshold must not precede decoder recreation"
\* (cast_tuning_config_unittest.cc:199): no sender reset before as many instructions as
\* the decoder's recreation takes.
EscalatesInOrder ==
    /\ \A i, j \in DOMAIN issued : i < j =>
          /\ issued[j].at - issued[i].at >= pli_min_interval_ms_
          /\ Severity(issued[i].what) <= Severity(issued[j].what)
    /\ \A i \in DOMAIN issued :
          issued[i].what = "SENDER_RESET" => i >= decoder_recreate_threshold_

\* A stall that lasts reaches the sender reset by the time its timeout and one
\* interval (rounded up to ticks) for every instruction before the reset have
\* passed: no interleaving of old clock readings starves it.
RoundUp(ms) == ((ms + TickMs - 1) \div TickMs) * TickMs

EscalatesInTime ==
    (/\ started_ /\ evaluated
     /\ now - last_decoded_frame_ms_ >=
          RoundUp(no_decoded_frame_timeout_ms_)
            + (sender_reset_threshold_ - 1) * RoundUp(pli_min_interval_ms_))
    => \E i \in DOMAIN issued : issued[i].what = "SENDER_RESET"
================================================================================
