-------------------------- MODULE CastLibraryProofs --------------------------
(***************************************************************************)
(* Proofs about the three parts of the library beside the controller,      *)
(* which share no state.                                                   *)
(*                                                                         *)
(* CastRecoveryStateMachine: a stall escalates in order, is rate-limited   *)
(* and escalates in time, for every valid configuration, length of ticks   *)
(* and bound on the clock.  Two configurations that Validate accepts are   *)
(* excluded, see Consistent: a disabled one, whose values Validate does    *)
(* not look at, and one that sets a threshold on the wrong side of the     *)
(* other one's default, which Validate does not know                       *)
(* (cast_tuning_config.cc:232).                                            *)
(*                                                                         *)
(* CastTelemetryWriter: the sink implements OrderedLog, for any clients    *)
(* and events; and it leaves nothing behind, if its thread first runs      *)
(* after the constructor has returned.  If it runs earlier, it reads       *)
(* members that are not yet initialised, and may end before its time.      *)
(*                                                                         *)
(* CastTuningJson: precedence is fixed and live patches keep the trials of *)
(* the factory, for any texts, profiles and patches.  The merge of the     *)
(* model stops at the third level; MergeStopsAtTrials says why the         *)
(* recursion of the code below it makes no difference.                     *)
(***************************************************************************)
EXTENDS CastRecoveryStateMachine, CastTelemetryWriter, CastTuningJson, TLAPS

-----------------------------------------------------------------------------
(* CastRecoveryStateMachine: the invariant of the escalation.               *)

Thresholds == {"decoder_recreate_after_failed_pli", "sender_reset_after_failed_pli"}
Durations == {"no_decoded_frame_timeout_ms", "pli_min_interval_ms"}

Consistent(c) ==
    /\ ~IsUpstream(c)
    /\ \A f \in (Thresholds \cup Durations) \cap DOMAIN c.set : c.set[f] \in Int
    /\ ValueOr(c, "decoder_recreate_after_failed_pli", 2)
          <= ValueOr(c, "sender_reset_after_failed_pli", 3)

\* The machine's constants, once the constructor has filled in the defaults.
Built ==
    /\ no_decoded_frame_timeout_ms_ \in Nat \ {0}
    /\ pli_min_interval_ms_ \in Nat \ {0}
    /\ decoder_recreate_threshold_ \in Nat \ {0}
    /\ sender_reset_threshold_ \in Nat \ {0}
    /\ decoder_recreate_threshold_ <= sender_reset_threshold_

\* The members are a summary of the instructions of this stall: how many there were
\* and when the last one was.  No instruction is at the time 0, which stands for none.
Instructions == [at : Nat \ {0}, what : {"PLI", "DECODER_RECREATE", "SENDER_RESET"}]
Summary ==
    /\ issued \in Seq(Instructions)
    /\ failed_recovery_count_ = Len(issued)
    /\ last_recovery_action_ms_ =
          IF issued = <<>> THEN 0 ELSE issued[Len(issued)].at
    /\ now \in Nat /\ last_decoded_frame_ms_ \in Nat

\* Each instruction is that of its number, and two are an interval apart.
Escalation ==
    /\ \A i \in DOMAIN issued : issued[i].what = Instruction(i)
    /\ \A i, j \in DOMAIN issued : i < j =>
          issued[j].at - issued[i].at >= pli_min_interval_ms_

IInv == Built /\ Summary /\ Escalation

\* Validate bounds what the constructor takes over, and the defaults are within the
\* bounds.
LEMMA ConsistentIsBuilt ==
    ASSUME recovery \in RecoveryConfigs, Consistent(recovery)
    PROVE  Built
<1>1. Validate(recovery)
    BY RecoveryConfigsValid
<1>2. InRange(recovery)
    BY <1>1 DEF Validate, Consistent
<1>3. /\ Bounds.pli_min_interval_ms = <<100, 5000>>
      /\ Bounds.no_decoded_frame_timeout_ms = <<50, 5000>>
      /\ Bounds.decoder_recreate_after_failed_pli = <<1, 20>>
      /\ Bounds.sender_reset_after_failed_pli = <<1, 20>>
      /\ Thresholds \cup Durations \subseteq DOMAIN Bounds
    BY DEF Bounds, Thresholds, Durations
<1>4. \A f \in (Thresholds \cup Durations) \cap DOMAIN recovery.set :
         recovery.set[f] \in Int /\ Bounds[f][1] <= recovery.set[f]
    BY <1>2, <1>3 DEF InRange, Consistent
<1>5. no_decoded_frame_timeout_ms_ \in Nat \ {0} /\ pli_min_interval_ms_ \in Nat \ {0}
    BY <1>3, <1>4 DEF no_decoded_frame_timeout_ms_, pli_min_interval_ms_, ValueOr,
                      Has, Durations
<1>6. /\ decoder_recreate_threshold_ \in Nat \ {0}
      /\ sender_reset_threshold_ \in Nat \ {0}
    BY <1>3, <1>4 DEF decoder_recreate_threshold_, sender_reset_threshold_, ValueOr,
                      Has, Thresholds
<1>7. decoder_recreate_threshold_ <= sender_reset_threshold_
    BY DEF Consistent, decoder_recreate_threshold_, sender_reset_threshold_
<1> QED BY <1>5, <1>6, <1>7 DEF Built

\* The machine starts without instructions.
LEMMA InitInv ==
    ASSUME \A c \in RecoveryConfigs : Consistent(c), Init
    PROVE  IInv
<1>1. recovery \in RecoveryConfigs /\ Consistent(recovery)
    BY DEF Init
<1>2. Built
    BY <1>1, ConsistentIsBuilt
<1> QED BY <1>2 DEF Init, IInv, Summary, Escalation

\* The configuration does not change, and with it the constants.
LEMMA BuiltStays ==
    ASSUME Built, UNCHANGED recovery
    PROVE  /\ Built'
           /\ pli_min_interval_ms_' = pli_min_interval_ms_
           /\ \A n : Instruction(n)' = Instruction(n)
BY DEF Built, no_decoded_frame_timeout_ms_, pli_min_interval_ms_,
       decoder_recreate_threshold_, sender_reset_threshold_, Instruction

\* A frame ends the stall (OnDecodedFrame).
LEMMA FrameKeeps == IInv /\ OnDecodedFrame => IInv'
<1> SUFFICES ASSUME IInv, OnDecodedFrame PROVE IInv'
    OBVIOUS
<1>1. Built'
    BY BuiltStays DEF IInv, OnDecodedFrame
<1>2. issued' = <<>>
    BY DEF OnDecodedFrame, Restart
<1>3. Summary'
    BY <1>2 DEF IInv, Summary, OnDecodedFrame, Restart
<1>4. Escalation'
    BY <1>2 DEF Escalation
<1> QED BY <1>1, <1>3, <1>4 DEF IInv

\* An evaluation gives the next instruction, or none (Evaluate).
LEMMA EvaluateKeeps ==
    ASSUME IInv, NEW now_ms \in Nat, Evaluate(now_ms)
    PROVE  IInv'
<1>1. /\ Built' /\ pli_min_interval_ms_' = pli_min_interval_ms_
      /\ \A n : Instruction(n)' = Instruction(n)
    BY BuiltStays DEF IInv, Evaluate
<1>2. CASE Stalled(now_ms) /\ MayAct(now_ms)
  <2> DEFINE what == Instruction(failed_recovery_count_ + 1)
             new == [at |-> now_ms, what |-> what]
  <2>1. /\ issued' = Append(issued, new) /\ last_recovery_action_ms_' = now_ms
        /\ failed_recovery_count_' = failed_recovery_count_ + 1
        /\ UNCHANGED <<now, last_decoded_frame_ms_>>
      BY <1>2 DEF Evaluate
  <2>2. now_ms \in Nat \ {0}
      BY <1>2 DEF Stalled, IInv, Built, Summary
  <2>3. what \in {"PLI", "DECODER_RECREATE", "SENDER_RESET"}
      BY DEF Instruction
  <2>4. new \in Instructions /\ new.at = now_ms /\ new.what = what
      BY <2>2, <2>3 DEF Instructions
  <2> HIDE DEF new, what
  <2>5. /\ Len(issued') = Len(issued) + 1 /\ issued'[Len(issued) + 1] = new
        /\ \A i \in 1..Len(issued) : issued'[i] = issued[i]
        /\ DOMAIN issued' = 1..(Len(issued) + 1) /\ DOMAIN issued = 1..Len(issued)
        /\ issued' # <<>> /\ Len(issued) \in Nat
      BY <2>1, <2>4 DEF IInv, Summary
  <2>6. Summary'
    <3>1. issued' \in Seq(Instructions)
        BY <2>1, <2>4 DEF IInv, Summary
    <3> QED BY <2>1, <2>4, <2>5, <3>1 DEF IInv, Summary
  <2>7. \A i \in DOMAIN issued' : issued'[i].what = Instruction(i)
    <3>1. \A i \in 1..Len(issued) : issued'[i].what = Instruction(i)
        BY <2>5 DEF IInv, Escalation
    <3>2. issued'[Len(issued) + 1].what = Instruction(Len(issued) + 1)
        BY <2>4, <2>5 DEF what, IInv, Summary
    <3> QED BY <2>5, <3>1, <3>2
  <2>8. \A i \in 1..Len(issued) : now_ms - issued[i].at >= pli_min_interval_ms_
    <3> SUFFICES ASSUME NEW i \in 1..Len(issued)
                 PROVE  now_ms - issued[i].at >= pli_min_interval_ms_
        OBVIOUS
    <3> DEFINE end == issued[Len(issued)].at
    <3>1. \A k \in 1..Len(issued) : issued[k].at \in Nat \ {0}
      <4>1. \A k \in 1..Len(issued) : issued[k] \in Instructions
          BY DEF IInv, Summary
      <4> QED BY <4>1 DEF Instructions
    <3>2. last_recovery_action_ms_ = end /\ end \in Nat \ {0} /\ issued[i].at \in Nat
      <4>1. issued # <<>> /\ Len(issued) \in 1..Len(issued)
          BY <2>5
      <4> QED BY <3>1, <4>1 DEF IInv, Summary
    <3>3. Len(issued) \in Nat
        BY <2>5
    <3>4. now_ms - end >= pli_min_interval_ms_
        BY <1>2, <3>2 DEF MayAct
    <3>5. end >= issued[i].at
      <4>1. CASE i = Len(issued)
          BY <4>1, <3>2
      <4>2. CASE i < Len(issued)
        <5>1. end - issued[i].at >= pli_min_interval_ms_
            BY <2>5, <4>2 DEF IInv, Escalation
        <5> QED BY <5>1, <3>2 DEF IInv, Built
      <4> QED BY <4>1, <4>2, <3>3
    <3>6. pli_min_interval_ms_ \in Nat
        BY DEF IInv, Built
    <3> QED BY <3>2, <3>4, <3>5, <3>6
  <2>9. \A i, j \in DOMAIN issued' : i < j =>
           issued'[j].at - issued'[i].at >= pli_min_interval_ms_
    <3> SUFFICES ASSUME NEW i \in DOMAIN issued', NEW j \in DOMAIN issued', i < j
                 PROVE  issued'[j].at - issued'[i].at >= pli_min_interval_ms_
        OBVIOUS
    <3>1. CASE j = Len(issued) + 1
        BY <3>1, <2>4, <2>5, <2>8
    <3>2. CASE j # Len(issued) + 1
        BY <3>2, <2>5 DEF IInv, Escalation
    <3> QED BY <3>1, <3>2
  <2>10. Escalation'
      BY <1>1, <2>7, <2>9 DEF Escalation
  <2> QED BY <1>1, <2>6, <2>10 DEF IInv
<1>3. CASE ~(Stalled(now_ms) /\ MayAct(now_ms))
  <2>1. UNCHANGED <<issued, last_recovery_action_ms_, failed_recovery_count_, now,
                    last_decoded_frame_ms_>>
      BY <1>3 DEF Evaluate
  <2> QED BY <1>1, <2>1 DEF IInv, Summary, Escalation
<1> QED BY <1>2, <1>3

\* No step but these concerns the instructions.
LEMMA NextKeeps == IInv /\ [Next]_vars => IInv'
<1> SUFFICES ASSUME IInv, [Next]_vars PROVE IInv'
    OBVIOUS
<1>1. now \in Nat
    BY DEF IInv, Summary
<1>2. CASE OnDecodedFrame
    BY <1>2, FrameKeeps
<1>3. ASSUME NEW now_ms \in {now, now - TickMs}, now_ms >= 0, Evaluate(now_ms)
      PROVE  IInv'
  <2>1. now_ms \in Nat
      BY <1>1, <1>3, ClockTyped
  <2> QED BY <1>3, <2>1, EvaluateKeeps
<1>4. CASE Tick \/ UNCHANGED vars
  <2>1. UNCHANGED <<recovery, machine, issued>> /\ now' \in Nat
      BY <1>1, <1>4, ClockTyped DEF Tick, vars
  <2>2. /\ Built' /\ pli_min_interval_ms_' = pli_min_interval_ms_
        /\ \A n : Instruction(n)' = Instruction(n)
      BY <2>1, BuiltStays DEF IInv
  <2> QED BY <2>1, <2>2 DEF IInv, Summary, Escalation, machine
<1> QED BY <1>2, <1>3, <1>4 DEF Next

\* What the properties say follows from the number of each instruction.
LEMMA InvIsOrdered == IInv => EscalatesInOrder
<1> SUFFICES ASSUME IInv PROVE EscalatesInOrder
    OBVIOUS
<1>1. DOMAIN issued = 1..Len(issued) /\ Len(issued) \in Nat
    BY DEF IInv, Summary
<1>2. \A i, j \in DOMAIN issued : i < j =>
         Severity(issued[i].what) <= Severity(issued[j].what)
  <2> SUFFICES ASSUME NEW i \in DOMAIN issued, NEW j \in DOMAIN issued, i < j
               PROVE  Severity(issued[i].what) <= Severity(issued[j].what)
      OBVIOUS
  <2>1. issued[i].what = Instruction(i) /\ issued[j].what = Instruction(j)
      BY DEF IInv, Escalation
  <2>2. /\ Severity("PLI") = 1 /\ Severity("DECODER_RECREATE") = 2
        /\ Severity("SENDER_RESET") = 3
      BY DEF Severity
  <2> QED BY <1>1, <2>1, <2>2 DEF Instruction, IInv, Built
<1>3. \A i \in DOMAIN issued :
         issued[i].what = "SENDER_RESET" => i >= decoder_recreate_threshold_
    BY <1>1 DEF IInv, Built, Escalation, Instruction
<1> QED BY <1>2, <1>3 DEF EscalatesInOrder, IInv, Escalation

\* Rate limit and order of the recovery instructions (CastRecoveryStateMachine::Evaluate),
\* for every configuration whose thresholds, defaults included, are in order.
THEOREM SpecEscalatesInOrder ==
    ASSUME \A c \in RecoveryConfigs : Consistent(c)
    PROVE  Spec => []EscalatesInOrder
<1>1. Init => IInv
    BY InitInv
<1> QED BY <1>1, NextKeeps, InvIsOrdered, PTL DEF Spec

-----------------------------------------------------------------------------
(* Escalation in time.                                                      *)

Ticks == {n * TickMs : n \in Nat}
Timeout == RoundUp(no_decoded_frame_timeout_ms_)
Interval == RoundUp(pli_min_interval_ms_)
\* When the instruction after n others is due at the latest.
Due(n) == last_decoded_frame_ms_ + Timeout + n * Interval
\* The time up to which the application has evaluated the machine.
Evaluated == IF evaluated THEN now ELSE now - TickMs

\* The last instruction was not late, and the next one is not yet.
InTime ==
    /\ now \in Ticks /\ last_decoded_frame_ms_ \in Ticks
    /\ started_ =>
          /\ last_decoded_frame_ms_ <= now
          /\ Evaluated < Due(failed_recovery_count_)
          /\ failed_recovery_count_ > 0 =>
                last_recovery_action_ms_ <= Due(failed_recovery_count_ - 1)
    /\ ~started_ => issued = <<>>

LEMMA RoundsUp ==
    ASSUME NEW ms \in Nat \ {0}
    PROVE  RoundUp(ms) \in Ticks /\ ms <= RoundUp(ms) /\ RoundUp(ms) \in Nat \ {0}
<1> DEFINE n == (ms + TickMs - 1) \div TickMs
<1>1. TickMs \in Nat \ {0}
    BY ClockTyped
<1>2. n \in Nat /\ ms <= n * TickMs
  <2>1. \A x \in Nat : x \div TickMs \in Nat /\ x < (x \div TickMs) * TickMs + TickMs
      BY <1>1
  <2>2. ms + TickMs - 1 \in Nat
      BY <1>1
  <2>3. n \in Nat /\ ms + TickMs - 1 < n * TickMs + TickMs
      BY <2>1, <2>2
  <2> HIDE DEF n
  <2>4. n * TickMs \in Nat
      BY <1>1, <2>3
  <2> QED BY <1>1, <2>3, <2>4
<1>3. RoundUp(ms) = n * TickMs
    BY DEF RoundUp
<1> HIDE DEF n
<1>4. n * TickMs \in Nat
    BY <1>1, <1>2
<1> QED BY <1>2, <1>3, <1>4 DEF Ticks

\* Between two times of the clock there is a tick.
LEMMA TickBetween ==
    ASSUME NEW x \in Ticks, NEW y \in Ticks
    PROVE  /\ x \in Nat /\ x + TickMs \in Ticks
           /\ x < y => x + TickMs <= y
           /\ x + y \in Ticks
<1>1. TickMs \in Nat \ {0}
    BY ClockTyped
<1>2. PICK j \in Nat : x = j * TickMs
    BY DEF Ticks
<1>3. PICK k \in Nat : y = k * TickMs
    BY DEF Ticks
<1>4. x \in Nat /\ y \in Nat
    BY <1>1, <1>2, <1>3
<1>5. (j + 1) * TickMs = x + TickMs /\ (j + k) * TickMs = x + y
    BY <1>1, <1>2, <1>3
<1>6. x + TickMs \in Ticks /\ x + y \in Ticks
    BY <1>5 DEF Ticks
<1>7. ASSUME x < y PROVE x + TickMs <= y
  <2>1. j < k
    <3> SUFFICES ASSUME k <= j PROVE FALSE
        OBVIOUS
    <3>1. k * TickMs <= j * TickMs
        BY <1>1
    <3> QED BY <1>2, <1>3, <1>7, <3>1
  <2>2. (j + 1) * TickMs <= k * TickMs
      BY <1>1, <2>1
  <2> QED BY <1>3, <1>5, <2>2
<1> QED BY <1>4, <1>6, <1>7

LEMMA TimesTick ==
    ASSUME NEW n \in Nat, NEW x \in Ticks
    PROVE  n * x \in Ticks
<1>1. PICK j \in Nat : x = j * TickMs
    BY DEF Ticks
<1>2. TickMs \in Nat
    BY ClockTyped
<1>3. n * x = (n * j) * TickMs /\ n * j \in Nat
    BY <1>1, <1>2
<1> QED BY <1>3 DEF Ticks

\* What is due is a tick, an interval after the one before.
LEMMA DueTicks ==
    ASSUME Built, last_decoded_frame_ms_ \in Ticks, NEW n \in Nat
    PROVE  /\ Due(n) \in Ticks /\ Due(n) \in Nat
           /\ Due(n + 1) = Due(n) + Interval
           /\ last_decoded_frame_ms_ < Due(n)
           /\ last_decoded_frame_ms_ + Timeout <= Due(n)
<1>1. Timeout \in Ticks /\ Interval \in Ticks /\ Timeout \in Nat \ {0}
      /\ Interval \in Nat \ {0}
    BY RoundsUp DEF Built, Timeout, Interval
<1>2. n * Interval \in Ticks /\ n * Interval \in Nat
  <2>1. n * Interval \in Ticks
      BY <1>1, TimesTick
  <2> QED BY <2>1, TickBetween
<1>3. (n + 1) * Interval = n * Interval + Interval
    BY <1>1
<1>4. last_decoded_frame_ms_ + Timeout \in Ticks /\ last_decoded_frame_ms_ \in Nat
    BY <1>1, TickBetween
<1>5. last_decoded_frame_ms_ + Timeout + n * Interval \in Ticks
    BY <1>2, <1>4, TickBetween
<1> DEFINE product == n * Interval
           next == (n + 1) * Interval
<1>6. /\ Due(n) = last_decoded_frame_ms_ + Timeout + product
      /\ Due(n + 1) = last_decoded_frame_ms_ + Timeout + next
      /\ next = product + Interval /\ product \in Nat
    BY <1>2, <1>3 DEF Due
<1>7. Due(n) \in Ticks
    BY <1>5 DEF Due
<1> HIDE DEF product, next
<1> QED BY <1>1, <1>4, <1>6, <1>7, TickBetween

LEMMA DueGrows ==
    ASSUME Built, last_decoded_frame_ms_ \in Ticks, NEW m \in Nat, NEW n \in Nat, m <= n
    PROVE  Due(m) <= Due(n)
<1>1. Interval \in Nat
    BY RoundsUp DEF Built, Interval
<1>2. m * Interval <= n * Interval /\ m * Interval \in Nat /\ n * Interval \in Nat
    BY <1>1
<1>3. last_decoded_frame_ms_ + Timeout \in Nat
    BY RoundsUp, TickBetween DEF Built, Timeout
<1> DEFINE less == m * Interval
           more == n * Interval
<1>4. Due(m) = last_decoded_frame_ms_ + Timeout + less
      /\ Due(n) = last_decoded_frame_ms_ + Timeout + more
    BY DEF Due
<1> HIDE DEF less, more
<1>5. less <= more /\ less \in Nat /\ more \in Nat
    BY <1>2 DEF less, more
<1> QED BY <1>3, <1>4, <1>5

LEMMA InitInTime == Init => InTime
<1> SUFFICES ASSUME Init PROVE InTime
    OBVIOUS
<1>1. 0 \in Ticks
  <2>1. 0 = 0 * TickMs
      BY ClockTyped
  <2> QED BY <2>1 DEF Ticks
<1> QED BY <1>1 DEF Init, InTime

\* The same instruction is due at the same time as long as no frame is decoded.
LEMMA DueStays ==
    ASSUME UNCHANGED <<recovery, last_decoded_frame_ms_>>
    PROVE  \A n : Due(n)' = Due(n)
BY DEF Due, Timeout, Interval, RoundUp, no_decoded_frame_timeout_ms_,
       pli_min_interval_ms_

LEMMA FrameInTime == IInv /\ InTime /\ OnDecodedFrame => InTime'
<1> SUFFICES ASSUME IInv, InTime, OnDecodedFrame PROVE InTime'
    OBVIOUS
<1>1. /\ last_decoded_frame_ms_' = now /\ now' = now /\ evaluated' = evaluated
      /\ failed_recovery_count_' = 0 /\ started_'
    BY DEF OnDecodedFrame, Restart
<1>2. now' \in Ticks /\ now' \in Nat
    BY <1>1, TickBetween DEF InTime
<1>3. Evaluated' <= now'
    BY <1>1, <1>2, ClockTyped DEF Evaluated
<1>4. now' < Due(0)'
  <2>1. Built'
      BY BuiltStays DEF IInv, OnDecodedFrame
  <2>2. Timeout' \in Nat \ {0} /\ 0 * Interval' = 0
    <3>1. RoundUp(no_decoded_frame_timeout_ms_') = Timeout'
          /\ RoundUp(pli_min_interval_ms_') = Interval'
        BY DEF Timeout, Interval, RoundUp
    <3>2. Timeout' \in Nat \ {0} /\ Interval' \in Nat
        BY <2>1, <3>1, RoundsUp DEF Built
    <3>3. \A x \in Nat : 0 * x = 0
        OBVIOUS
    <3> QED BY <3>2, <3>3
  <2>3. Due(0)' = last_decoded_frame_ms_' + Timeout' + 0 * Interval'
      BY DEF Due
  <2> QED BY <1>1, <1>2, <2>2, <2>3
<1>5. Evaluated' < Due(0)'
  <2>1. Evaluated' \in Int /\ Due(0)' \in Int
    <3>1. Built' /\ last_decoded_frame_ms_' \in Ticks
        BY <1>1, <1>2, BuiltStays DEF IInv, OnDecodedFrame
    <3>2. RoundUp(no_decoded_frame_timeout_ms_') = Timeout'
          /\ RoundUp(pli_min_interval_ms_') = Interval'
        BY DEF Timeout, Interval, RoundUp
    <3>3. Timeout' \in Nat /\ 0 * Interval' = 0
        BY <3>1, <3>2, RoundsUp DEF Built
    <3>4. Due(0)' = last_decoded_frame_ms_' + Timeout' + 0 * Interval'
        BY DEF Due
    <3> QED BY <1>1, <1>2, <3>3, <3>4, ClockTyped DEF Evaluated
  <2> QED BY <1>2, <1>3, <1>4, <2>1
<1> QED BY <1>1, <1>2, <1>5 DEF InTime

\* An instruction is given at the first evaluation at or after the time it is due
\* from, and each tick sees one.
LEMMA EvaluateInTime ==
    ASSUME IInv, InTime, NEW now_ms \in {now, now - TickMs}, now_ms >= 0,
           Evaluate(now_ms)
    PROVE  InTime'
<1> DEFINE n == failed_recovery_count_
           last == last_recovery_action_ms_
           frame == last_decoded_frame_ms_
<1>1. /\ evaluated' = (evaluated \/ now_ms = now)
      /\ UNCHANGED <<recovery, last_decoded_frame_ms_, started_, now>>
    BY DEF Evaluate
<1>2. /\ TickMs \in Nat \ {0} /\ now \in Nat /\ frame \in Nat /\ n \in Nat
      /\ now \in Ticks /\ frame \in Ticks
    BY ClockTyped DEF IInv, Summary, InTime
<1>3. CASE ~started_
  <2>1. issued' = issued
      BY <1>3 DEF Evaluate, Stalled
  <2> QED BY <1>1, <1>3, <2>1 DEF InTime
<1>4. CASE started_
  <2>1. /\ Due(n) \in Ticks /\ Due(n) \in Nat /\ Due(n + 1) = Due(n) + Interval
        /\ frame + Timeout <= Due(n)
        /\ Interval \in Nat \ {0} /\ Timeout \in Nat \ {0}
        /\ pli_min_interval_ms_ <= Interval
        /\ no_decoded_frame_timeout_ms_ <= Timeout
    <3>1. Built
        BY DEF IInv
    <3> QED BY <1>2, <3>1, DueTicks, RoundsUp DEF Built, Timeout, Interval
  <2>2. \A k : Due(k)' = Due(k)
      BY <1>1, DueStays
  <2>3. Evaluated < Due(n) /\ frame <= now
      BY <1>4 DEF InTime
  <2>4. now <= Due(n)
    <3>1. CASE evaluated
        BY <1>2, <2>1, <2>3, <3>1 DEF Evaluated
    <3>2. CASE ~evaluated
      <4>1. now - TickMs < Due(n)
          BY <2>3, <3>2 DEF Evaluated
      <4>2. ~(Due(n) < now)
        <5> SUFFICES ASSUME Due(n) < now PROVE FALSE
            OBVIOUS
        <5>1. Due(n) + TickMs <= now
            BY <1>2, <2>1, TickBetween
        <5> QED BY <1>2, <2>1, <4>1, <5>1
      <4> QED BY <1>2, <2>1, <4>2
    <3> QED BY <3>1, <3>2
  <2>5. Evaluated' <= now /\ Evaluated' \in Int
      BY <1>1, <1>2 DEF Evaluated
  <2>6. CASE Stalled(now_ms) /\ MayAct(now_ms)
    <3>1. /\ last_recovery_action_ms_' = now_ms
          /\ failed_recovery_count_' = n + 1
        BY <2>6 DEF Evaluate
    <3>2. now_ms <= Due(n) /\ now < Due(n + 1)
        BY <1>2, <2>1, <2>4
    <3>3. Evaluated' < Due(n + 1)
        BY <1>2, <2>1, <2>5, <3>2
    <3>4. failed_recovery_count_' - 1 = n
        BY <1>2, <3>1
    <3> QED BY <1>1, <1>2, <1>4, <2>2, <2>3, <3>1, <3>2, <3>3, <3>4 DEF InTime
  <2>7. CASE ~(Stalled(now_ms) /\ MayAct(now_ms))
    <3>1. UNCHANGED <<last_recovery_action_ms_, failed_recovery_count_, issued>>
        BY <2>7 DEF Evaluate
    <3>2. Evaluated' < Due(n)
      <4>1. CASE now_ms # now
          BY <1>1, <2>3, <4>1 DEF Evaluated
      <4>2. CASE now_ms = now
        <5>1. Evaluated' = now
            BY <1>1, <4>2 DEF Evaluated
        <5>2. CASE ~Stalled(now)
          <6>1. now - frame < no_decoded_frame_timeout_ms_
              BY <1>2, <1>4, <2>3, <5>2 DEF Stalled, IInv, Built
          <6> QED BY <1>2, <2>1, <5>1, <6>1 DEF IInv, Built
        <5>3. CASE ~MayAct(now)
          <6>1. last # 0 /\ ~(now - last >= pli_min_interval_ms_)
              BY <5>3 DEF MayAct
          <6>2. n > 0 /\ last \in Nat /\ n - 1 \in Nat
            <7>1. issued # <<>> /\ last = issued[Len(issued)].at /\ n = Len(issued)
                BY <6>1 DEF IInv, Summary
            <7>2. Len(issued) \in Nat \ {0} /\ issued[Len(issued)] \in Instructions
                BY <7>1 DEF IInv, Summary
            <7> QED BY <7>1, <7>2 DEF Instructions
          <6>3. last <= Due(n - 1)
              BY <1>4, <6>2 DEF InTime
          <6>4. Due(n) = Due(n - 1) + Interval /\ Due(n - 1) \in Nat
            <7>1. Due((n - 1) + 1) = Due(n - 1) + Interval /\ Due(n - 1) \in Nat
                BY <1>2, <6>2, DueTicks DEF IInv
            <7>2. (n - 1) + 1 = n
                BY <1>2
            <7> QED BY <7>1, <7>2
          <6>5. now - last < pli_min_interval_ms_
              BY <1>2, <6>1, <6>2 DEF IInv, Built
          <6> QED BY <1>2, <2>1, <5>1, <6>2, <6>3, <6>4, <6>5 DEF IInv, Built
        <5> QED BY <2>7, <4>2, <5>2, <5>3
      <4> QED BY <4>1, <4>2
    <3> QED BY <1>1, <1>2, <1>4, <2>2, <2>3, <3>1, <3>2 DEF InTime, IInv, Summary
  <2> QED BY <2>6, <2>7
<1> QED BY <1>3, <1>4

LEMMA NextInTime == IInv /\ InTime /\ [Next]_vars => InTime'
<1> SUFFICES ASSUME IInv, InTime, [Next]_vars PROVE InTime'
    OBVIOUS
<1>1. CASE OnDecodedFrame
    BY <1>1, FrameInTime
<1>2. ASSUME NEW now_ms \in {now, now - TickMs}, now_ms >= 0, Evaluate(now_ms)
      PROVE  InTime'
    BY <1>2, EvaluateInTime
<1>3. CASE Tick
  <2>1. /\ evaluated /\ ~evaluated' /\ now' = now + TickMs
        /\ UNCHANGED <<recovery, machine, issued>>
      BY <1>3 DEF Tick
  <2>2. TickMs \in Nat /\ now \in Nat /\ now' \in Ticks /\ last_decoded_frame_ms_ \in Nat
      BY <2>1, ClockTyped, TickBetween DEF InTime
  <2>3. Evaluated' = Evaluated
      BY <2>1, <2>2 DEF Evaluated
  <2>4. \A n : Due(n)' = Due(n)
      BY <2>1, DueStays DEF machine
  <2> QED BY <2>1, <2>2, <2>3, <2>4 DEF InTime, machine
<1>4. CASE UNCHANGED vars
  <2>1. \A n : Due(n)' = Due(n)
      BY <1>4, DueStays DEF vars, machine
  <2> QED BY <1>4, <2>1 DEF vars, machine, InTime, Evaluated
<1> QED BY <1>1, <1>2, <1>3, <1>4 DEF Next

LEMMA InvIsInTime == IInv /\ InTime => EscalatesInTime
<1> SUFFICES ASSUME IInv, InTime, started_, evaluated,
                    now - last_decoded_frame_ms_ >=
                       Timeout + (sender_reset_threshold_ - 1) * Interval
             PROVE  \E i \in DOMAIN issued : issued[i].what = "SENDER_RESET"
    BY DEF EscalatesInTime, Timeout, Interval
<1> DEFINE reset == sender_reset_threshold_
           n == failed_recovery_count_
<1>1. /\ Len(issued) \in Nat /\ DOMAIN issued = 1..Len(issued) /\ n = Len(issued)
      /\ reset \in Nat \ {0} /\ now \in Nat /\ last_decoded_frame_ms_ \in Nat
      /\ last_decoded_frame_ms_ \in Ticks
    BY DEF IInv, Summary, Built, InTime
<1>2. Due(reset - 1) <= now
  <2> DEFINE product == (reset - 1) * Interval
  <2>1. product \in Nat /\ Timeout \in Nat
    <3>1. Timeout \in Nat /\ Interval \in Nat
        BY RoundsUp DEF IInv, Built, Timeout, Interval
    <3> QED BY <1>1, <3>1
  <2>2. Due(reset - 1) = last_decoded_frame_ms_ + Timeout + product
        /\ now - last_decoded_frame_ms_ >= Timeout + product
      BY DEF Due
  <2> HIDE DEF product
  <2> QED BY <1>1, <2>1, <2>2
<1>3. now < Due(n)
    BY DEF InTime, Evaluated
<1>4. reset <= n
  <2> SUFFICES ASSUME n < reset PROVE FALSE
      BY <1>1
  <2>1. Due(n) <= Due(reset - 1)
      BY <1>1, DueGrows DEF IInv
  <2>2. Due(n) \in Nat /\ Due(reset - 1) \in Nat
      BY <1>1, DueTicks DEF IInv
  <2> QED BY <1>1, <1>2, <1>3, <2>1, <2>2
<1>5. reset \in DOMAIN issued /\ issued[reset].what = Instruction(reset)
    BY <1>1, <1>4 DEF IInv, Escalation
<1>6. Instruction(reset) = "SENDER_RESET"
    BY <1>1 DEF Instruction
<1> QED BY <1>5, <1>6

\* A stall that lasts reaches the sender reset in time: no order of evaluations with
\* an older clock reading holds the instructions back (CastRecoveryStateMachine::
\* Evaluate), for every configuration whose thresholds are in order and every clock.
THEOREM SpecEscalatesInTime ==
    ASSUME \A c \in RecoveryConfigs : Consistent(c)
    PROVE  Spec => []EscalatesInTime
<1>1. Init => IInv /\ InTime
    BY InitInv, InitInTime
<1>2. IInv /\ InTime /\ [Next]_vars => (IInv /\ InTime)'
    BY NextKeeps, NextInTime
<1>3. IInv /\ InTime => EscalatesInTime
    BY InvIsInTime
<1> QED BY <1>1, <1>2, <1>3, PTL DEF Spec

-----------------------------------------------------------------------------
(* CastTelemetryWriter: where threads and events are.                       *)

\* The labels of each thread.
OwnerLabels == Uninitialized \cup {"owns", "stop", "stop_notify", "join", "destroyed"}
WriterLabels == {"start", "run", "run_wait", "write", "account", "exit", "done"}
ClientLabels == {"idle", "emit", "emit_notify", "flush", "flush_wait", "released"}

SinkTyped ==
    /\ pc \in [Threads -> OwnerLabels \cup WriterLabels \cup ClientLabels]
    /\ pc[Owner] \in OwnerLabels /\ pc[Writer] \in WriterLabels
    /\ \A c \in Clients : pc[c] \in ClientLabels
    /\ output_ \in {"good", "bad"}
    /\ accepted \in Nat /\ write_failures_ \in Nat
    /\ queue_ \in Seq(Nat) /\ file \in Seq(Nat) /\ event \in Nat
    /\ stopping_ \in BOOLEAN /\ writing_ \in BOOLEAN

\* Nothing happens until the sink is constructed.
Building ==
    /\ ~Constructed =>
          /\ pc[Writer] \notin {"write", "account"}
          /\ EarlyThread \/ pc[Writer] = "start"
          /\ queue_ = <<>> /\ file = <<>> /\ accepted = 0
          /\ \A c \in Clients : pc[c] = "idle"
    /\ pc[Owner] \in {"writing_", "stopping_"} => write_failures_ = 0
    /\ pc[Owner] = "owns" => ~stopping_

\* Every accepted event is in the file or counted, in the hands of Run, or in the
\* queue, each behind the ones accepted before it; none is counted as long as the
\* output is good.
InHand == IF pc[Writer] = "write" \/ (pc[Writer] = "account" /\ output_ = "bad")
          THEN 1 ELSE 0
InLine ==
    /\ accepted = Handled + InHand + Len(queue_)
    /\ \A k \in 1..Len(queue_) : queue_[k] = Handled + InHand + k
    /\ pc[Writer] = "write" => event = Handled + 1
    /\ output_ = "good" => write_failures_ = 0
    /\ pc[Writer] \in {"write", "account"} => writing_

\* The thread ends when the destructor has told it to and the queue is empty, which
\* it stays because no client is left.  A thread that runs early may end at once.
Ending ==
    /\ stopping_ => pc[Owner] \notin {"owns", "stop"}
    /\ pc[Owner] # "owns" => \A c \in Clients : pc[c] = "released"
    /\ EarlyThread \/ (pc[Writer] \in {"exit", "done"} => stopping_ /\ queue_ = <<>>)
    /\ pc[Owner] = "destroyed" => pc[Writer] = "done"

SinkInv == SinkTyped /\ Building /\ (Constructed => InLine /\ Ending)
-----------------------------------------------------------------------------
\* The owner, the writer thread and the clients are different threads.
LEMMA ThreadsApart ==
    /\ Owner \in Threads /\ Writer \in Threads /\ Clients \subseteq Threads
    /\ Owner # Writer /\ \A c \in Clients : c # Owner /\ c # Writer
BY ThreadsDistinct DEF Threads

LEMMA SinkInitInv == SinkInit => SinkInv
<1> SUFFICES ASSUME SinkInit PROVE SinkInv
  OBVIOUS
<1>1. /\ pc[Owner] = "write_failures_" /\ pc[Writer] = "start"
      /\ \A c \in Clients : pc[c] = "idle"
      /\ pc \in [Threads -> OwnerLabels \cup WriterLabels \cup ClientLabels]
  BY ThreadsApart DEF SinkInit, OwnerLabels, WriterLabels, ClientLabels, Uninitialized
<1>2. MaxEvents \in Nat
  BY BoundsTyped
<1>3. SinkTyped
  BY <1>1, <1>2 DEF SinkInit, SinkTyped, OwnerLabels, WriterLabels, ClientLabels,
     Uninitialized
<1> QED
  BY <1>1, <1>3 DEF SinkInit, SinkInv, Building, Constructed, Uninitialized

\* What has happened to the events, and what the members say, stays.
Elsewhere == UNCHANGED <<queue_, memory, output_, file, event, accepted>>

\* Only one thread moves.
Labelled == pc \in [Threads -> OwnerLabels \cup WriterLabels \cup ClientLabels]
LEMMA GotoMoves ==
    ASSUME SinkInv, NEW t \in Threads, NEW label, Goto(t, label),
           label \in OwnerLabels \cup WriterLabels \cup ClientLabels
    PROVE  Labelled' /\ pc'[t] = label /\ \A u \in Threads : u # t => pc'[u] = pc[u]
BY DEF SinkInv, SinkTyped, Goto, Labelled

\* notify_one on work_available_ moves the caller, and the writer thread if it waits.
LEMMA NotifyMoves ==
    ASSUME SinkInv, NEW t \in Threads, NEW label, NotifyWork(t, label), t # Writer,
           label \in OwnerLabels \cup WriterLabels \cup ClientLabels
    PROVE  /\ Labelled' /\ pc'[t] = label
           /\ pc'[Writer] = IF pc[Writer] = "run_wait" THEN "run" ELSE pc[Writer]
           /\ \A u \in Threads : u # t /\ u # Writer => pc'[u] = pc[u]
BY ThreadsApart DEF SinkInv, SinkTyped, NotifyWork, Labelled, WriterLabels

\* Clients that call, wait and return, and a writer thread that wakes up or waits, are
\* nothing to the events.
Awake == {"run", "run_wait"}
LEMMA QuietKeeps ==
    ASSUME SinkInv, Elsewhere, EarlyThread \/ Constructed, Labelled',
           pc'[Owner] = pc[Owner],
           \A c \in Clients : /\ pc'[c] \in ClientLabels
                              /\ pc[c] = "released" => pc'[c] = "released"
                              /\ ~Constructed => pc'[c] = pc[c],
           \/ pc'[Writer] = pc[Writer]
           \/ pc[Writer] \in Awake \cup {"start"} /\ pc'[Writer] \in Awake
    PROVE  SinkInv'
<1>1. SinkTyped'
  BY DEF SinkInv, SinkTyped, Elsewhere, memory, Labelled, Awake, WriterLabels
<1>2. InHand' = InHand /\ Handled' = Handled /\ Constructed' = Constructed
  BY DEF InHand, Handled, Elsewhere, memory, Constructed, Awake
<1>3. Constructed => InLine'
  BY <1>2 DEF SinkInv, InLine, Elsewhere, memory, Awake
<1>4. (Constructed => Ending') /\ Building'
  BY <1>2 DEF SinkInv, Ending, Building, Elsewhere, memory, Awake
<1> QED BY <1>1, <1>2, <1>3, <1>4 DEF SinkInv

\* Lock, Stall and Finished let every thread where it is.
LEMMA StayingKeeps == SinkInv /\ Elsewhere /\ pc' = pc => SinkInv'
BY DEF SinkInv, SinkTyped, Building, InLine, Ending, Elsewhere, memory, InHand, Handled,
   Constructed

LEMMA SpuriousKeeps ==
    ASSUME SinkInv, NEW t \in Threads, SpuriousWakeup(t)
    PROVE  SinkInv'
<1>1. Elsewhere
  BY DEF SpuriousWakeup, Elsewhere, memory
<1>2. t # Owner
  BY DEF SpuriousWakeup, SinkInv, SinkTyped, OwnerLabels, Uninitialized
<1>3. Constructed \/ (t = Writer /\ EarlyThread)
  BY <1>2, ThreadsApart DEF SpuriousWakeup, SinkInv, Building, Threads
<1>4. CASE t = Writer
  <2>1. Goto(Writer, "run") /\ "run" \in WriterLabels
    BY <1>4 DEF SpuriousWakeup, WriterLabels
  <2>2. pc[Writer] \in Awake /\ pc'[Writer] \in Awake
    BY <1>4, <2>1, GotoMoves, ThreadsApart
       DEF SpuriousWakeup, Awake, SinkInv, SinkTyped, WriterLabels
  <2>3. Labelled' /\ \A u \in Threads : u # Writer => pc'[u] = pc[u]
    BY <2>1, GotoMoves, ThreadsApart
  <2> QED BY <1>1, <1>3, <2>2, <2>3, QuietKeeps, ThreadsApart DEF SinkInv, SinkTyped
<1>5. CASE t # Writer
  <2>1. Goto(t, "flush") /\ "flush" \in ClientLabels /\ pc[t] # "released"
    BY <1>5 DEF SpuriousWakeup, ClientLabels
  <2>2. /\ Labelled' /\ pc'[t] = "flush"
        /\ \A u \in Threads : u # t => pc'[u] = pc[u]
    BY <2>1, GotoMoves
  <2>3. pc'[Owner] = pc[Owner] /\ pc'[Writer] = pc[Writer]
    BY <1>2, <1>5, <2>2, ThreadsApart
  <2>4. \A c \in Clients : /\ pc'[c] \in ClientLabels
                           /\ pc[c] = "released" => pc'[c] = "released"
                           /\ ~Constructed => pc'[c] = pc[c]
    BY <1>3, <1>5, <2>1, <2>2, ThreadsApart DEF SinkInv, SinkTyped
  <2> QED BY <1>1, <1>3, <1>5, <2>2, <2>3, <2>4, QuietKeeps
<1> QED BY <1>4, <1>5

\* The members are initialised before the thread starts.
LEMMA InitializeKeeps ==
    ASSUME SinkInv, InitializeMember PROVE SinkInv'
<1>1. /\ UNCHANGED <<queue_, output_, file, event, accepted>> /\ ~Constructed
      /\ \/ /\ pc[Owner] = "write_failures_" /\ Goto(Owner, "writing_")
            /\ write_failures_' = 0
         \/ /\ pc[Owner] = "writing_" /\ Goto(Owner, "stopping_")
            /\ write_failures_' = write_failures_
         \/ /\ pc[Owner] = "stopping_" /\ Goto(Owner, "owns")
            /\ write_failures_' = write_failures_ /\ ~stopping_'
  BY Zenon DEF InitializeMember, Uninitialized, Constructed
<1>2. writing_' \in BOOLEAN /\ stopping_' \in BOOLEAN
  BY Zenon DEF InitializeMember, SinkInv, SinkTyped
<1>3. write_failures_' \in Nat
  BY <1>1 DEF SinkInv, SinkTyped
<1>4. \E label \in {"writing_", "stopping_", "owns"} :
         /\ Labelled' /\ pc'[Owner] = label
         /\ \A u \in Threads : u # Owner => pc'[u] = pc[u]
         /\ label # "owns" => write_failures_' = 0
         /\ label = "owns" => ~stopping_' /\ write_failures_ = 0
                              /\ write_failures_' = write_failures_
  BY <1>1, GotoMoves, ThreadsApart DEF OwnerLabels, Uninitialized, SinkInv, Building
<1>5. /\ pc[Writer] \notin {"write", "account"} /\ (EarlyThread \/ pc[Writer] = "start")
      /\ queue_ = <<>> /\ file = <<>> /\ accepted = 0
      /\ \A c \in Clients : pc[c] = "idle"
  BY <1>1 DEF SinkInv, Building
<1>6. pc'[Writer] = pc[Writer] /\ \A c \in Clients : pc'[c] = "idle"
  BY <1>4, <1>5, ThreadsApart
<1>7. SinkTyped'
  BY <1>1, <1>2, <1>3, <1>4, <1>5, <1>6
     DEF SinkInv, SinkTyped, Labelled, OwnerLabels, Uninitialized, ClientLabels, WriterLabels
<1>8. Building' /\ (Constructed' => pc'[Owner] = "owns")
  BY <1>1, <1>4, <1>5, <1>6 DEF Building, Constructed, Uninitialized
<1>9. ASSUME Constructed' PROVE InLine' /\ Ending'
  BY <1>1, <1>4, <1>5, <1>6, <1>8, <1>9 DEF InLine, Ending, InHand, Handled
<1> QED BY <1>7, <1>8, <1>9 DEF SinkInv

\* The destructor.
LEMMA DestroyKeeps ==
    ASSUME SinkInv, DropLastReference \/ Stop \/ StopNotify \/ Join
    PROVE  SinkInv'
<1>1. UNCHANGED <<queue_, writing_, write_failures_, output_, file, event, accepted>>
  BY DEF DropLastReference, Stop, StopNotify, Join, memory
<1>2. pc[Owner] \in {"owns", "stop", "stop_notify", "join"} /\ Constructed
  BY DEF DropLastReference, Stop, StopNotify, Join, Holds, Constructed, Uninitialized
<1>3. /\ Labelled' /\ \A c \in Clients : pc'[c] = pc[c] /\ pc[c] = "released"
      /\ \/ pc'[Writer] = pc[Writer]
         \/ pc[Writer] \in Awake /\ pc'[Writer] \in Awake
      /\ \/ pc'[Owner] = "stop" /\ pc[Owner] = "owns" /\ stopping_' = stopping_
         \/ pc'[Owner] = "stop_notify" /\ stopping_'
         \/ /\ pc[Owner] = "stop_notify" /\ pc'[Owner] = "join" /\ stopping_' = stopping_
         \/ /\ pc[Owner] = "join" /\ pc'[Owner] = "destroyed" /\ stopping_' = stopping_
            /\ pc[Writer] = "done" /\ pc'[Writer] = "done"
  <2>1. CASE DropLastReference
    BY <2>1, GotoMoves, ThreadsApart DEF DropLastReference, memory, OwnerLabels
  <2>2. CASE Stop
    BY <2>2, <1>2, GotoMoves, ThreadsApart DEF Stop, Holds, OwnerLabels, SinkInv, Ending
  <2>3. CASE StopNotify
    BY <2>3, <1>2, NotifyMoves, ThreadsApart
       DEF StopNotify, OwnerLabels, SinkInv, Ending, memory, Awake
  <2>4. CASE Join
    BY <2>4, <1>2, GotoMoves, ThreadsApart DEF Join, OwnerLabels, SinkInv, Ending, memory
  <2> QED BY <2>1, <2>2, <2>3, <2>4
<1>4. SinkTyped'
  BY <1>1, <1>3 DEF SinkInv, SinkTyped, Labelled, Awake, OwnerLabels, WriterLabels
<1>5. Constructed' /\ InHand' = InHand /\ Handled' = Handled
  BY <1>1, <1>3 DEF Constructed, Uninitialized, InHand, Handled, Awake
<1>6. InLine'
  BY <1>1, <1>2, <1>3, <1>5 DEF SinkInv, InLine, Awake
<1>7. Building' /\ Ending'
  BY <1>1, <1>2, <1>3, <1>5 DEF SinkInv, Building, Ending, Awake
<1> QED BY <1>4, <1>5, <1>6, <1>7 DEF SinkInv

\* Emit puts an event behind all others, unless the destructor has begun.
LEMMA EmitKeeps ==
    ASSUME SinkInv, NEW c \in Clients, Emit(c) PROVE SinkInv'
<1>1. /\ UNCHANGED <<memory, output_, file, event>> /\ pc[c] = "emit"
      /\ c \in Threads /\ c # Owner /\ c # Writer
  BY ThreadsApart DEF Emit, Holds
<1>2. /\ Constructed /\ pc[Owner] = "owns"
      /\ EarlyThread \/ pc[Writer] \notin {"exit", "done"}
  BY <1>1 DEF SinkInv, Building, Ending
<1>3. \E label \in {"idle", "emit_notify"} :
         /\ Labelled' /\ pc'[c] = label
         /\ \A t \in Threads : t # c => pc'[t] = pc[t]
  BY <1>1, GotoMoves DEF Emit, ClientLabels
<1>4. pc'[Owner] = pc[Owner] /\ pc'[Writer] = pc[Writer]
  BY <1>1, <1>3, ThreadsApart
<1>5. \A d \in Clients : pc'[d] \in ClientLabels
  BY <1>3, ThreadsApart DEF SinkInv, SinkTyped, ClientLabels
<1>6. CASE UNCHANGED <<queue_, accepted>>
  <2>1. Elsewhere
    BY <1>1, <1>6 DEF Elsewhere
  <2>2. \A d \in Clients : /\ pc'[d] \in ClientLabels
                           /\ pc[d] = "released" => pc'[d] = "released"
                           /\ ~Constructed => pc'[d] = pc[d]
    BY <1>1, <1>2, <1>3, <1>5, ThreadsApart
  <2> QED BY <1>2, <1>3, <1>4, <2>1, <2>2, QuietKeeps
<1>7. CASE queue_' = Append(queue_, accepted + 1) /\ accepted' = accepted + 1
  <2>1. SinkTyped'
    BY <1>1, <1>3, <1>4, <1>5, <1>7 DEF SinkInv, SinkTyped, memory, Labelled
  <2>2. InHand' = InHand /\ Handled' = Handled /\ Constructed'
    BY <1>1, <1>2, <1>4 DEF InHand, Handled, memory, Constructed
  <2>3. /\ queue_ \in Seq(Nat) /\ accepted \in Nat /\ Handled \in Nat /\ InHand \in Nat
    BY DEF SinkInv, SinkTyped, Handled, InHand
  <2>4. accepted' = Handled' + InHand' + Len(queue_')
    BY <1>2, <1>7, <2>2, <2>3 DEF SinkInv, InLine
  <2>5. \A k \in 1..Len(queue_') : queue_'[k] = Handled' + InHand' + k
    <3>1. \A k \in 1..Len(queue_) : queue_[k] = Handled + InHand + k
      BY <1>2 DEF SinkInv, InLine
    <3>2. /\ Len(queue_') = Len(queue_) + 1 /\ queue_'[Len(queue_) + 1] = accepted + 1
          /\ \A k \in 1..Len(queue_) : queue_'[k] = queue_[k]
      BY <1>7, <2>3
    <3>3. accepted = Handled + InHand + Len(queue_)
      BY <1>2 DEF SinkInv, InLine
    <3>4. Len(queue_) \in Nat
      BY <2>3
    <3> HIDE DEF SinkInv
    <3> QED BY <2>2, <2>3, <3>1, <3>2, <3>3, <3>4
  <2>6. InLine'
    BY <1>1, <1>2, <1>4, <2>2, <2>4, <2>5 DEF SinkInv, InLine, memory
  <2>7. Building' /\ Ending'
    BY <1>1, <1>2, <1>4, <2>2 DEF SinkInv, Building, Ending, memory
  <2> QED BY <2>1, <2>6, <2>7 DEF SinkInv
<1> QED BY <1>6, <1>7 DEF Emit

\* Calls, notifications and Flush are quiet.
LEMMA CallKeeps ==
    ASSUME SinkInv, NEW c \in Clients, Call(c) \/ Flush(c) \/ EmitNotify(c)
    PROVE  SinkInv'
<1>1. Elsewhere
  BY DEF Call, Flush, EmitNotify, Elsewhere, memory
<1>2. pc[c] \notin {"idle", "released"} \/ Constructed
  BY DEF Call, Flush, EmitNotify, Holds
<1>3. c \in Threads /\ c # Owner /\ c # Writer
  BY ThreadsApart
<1>4. Constructed /\ pc[c] # "released"
  BY <1>2, <1>3 DEF SinkInv, Building, Call, Flush, EmitNotify, Holds
<1>5. /\ Labelled' /\ pc'[c] \in ClientLabels
      /\ \A t \in Threads : t # c /\ t # Writer => pc'[t] = pc[t]
      /\ \/ pc'[Writer] = pc[Writer]
         \/ pc[Writer] \in Awake /\ pc'[Writer] \in Awake
  <2>1. CASE Call(c) \/ Flush(c)
    BY <2>1, <1>3, GotoMoves, ThreadsApart DEF Call, Flush, ClientLabels
  <2>2. CASE EmitNotify(c)
    BY <2>2, <1>3, NotifyMoves, ThreadsApart DEF EmitNotify, ClientLabels, Awake
  <2> QED BY <2>1, <2>2
<1>6. pc'[Owner] = pc[Owner]
  BY <1>3, <1>5, ThreadsApart
<1>7. \A d \in Clients : /\ pc'[d] \in ClientLabels
                         /\ pc[d] = "released" => pc'[d] = "released"
                         /\ ~Constructed => pc'[d] = pc[d]
  BY <1>3, <1>4, <1>5, ThreadsApart DEF SinkInv, SinkTyped
<1> QED BY <1>1, <1>4, <1>5, <1>6, <1>7, QuietKeeps

\* The thread starts.
LEMMA StartKeeps ==
    ASSUME SinkInv, StartThread PROVE SinkInv'
<1>1. /\ Elsewhere /\ (EarlyThread \/ Constructed)
      /\ Goto(Writer, "run") /\ pc[Writer] = "start"
  BY DEF StartThread, Elsewhere, memory
<1>2. /\ Labelled' /\ pc'[Writer] = "run"
      /\ \A t \in Threads : t # Writer => pc'[t] = pc[t]
  BY <1>1, GotoMoves, ThreadsApart DEF WriterLabels
<1> QED BY <1>1, <1>2, QuietKeeps, ThreadsApart DEF SinkInv, SinkTyped, Awake

\* notify_all on drained_ moves the writer thread, and the clients that wait.
LEMMA DrainedMoves ==
    ASSUME SinkInv, NEW label \in WriterLabels, NotifyDrained(label)
    PROVE  /\ Labelled' /\ pc'[Writer] = label
           /\ pc'[Owner] = pc[Owner]
           /\ \A c \in Clients : /\ pc'[c] \in ClientLabels
                                 /\ pc[c] = "released" => pc'[c] = "released"
                                 /\ pc[c] = "idle" => pc'[c] = "idle"
<1>1. \A t \in Threads : pc'[t] = IF t = Writer THEN label
                                  ELSE IF pc[t] = "flush_wait" THEN "flush" ELSE pc[t]
  BY DEF NotifyDrained
<1>2. pc[Owner] # "flush_wait"
  BY DEF SinkInv, SinkTyped, OwnerLabels, Uninitialized
<1>3. Labelled'
  BY DEF NotifyDrained, Labelled, SinkInv, SinkTyped, ClientLabels
<1> QED BY <1>1, <1>2, <1>3, ThreadsApart DEF SinkInv, SinkTyped, ClientLabels

\* A step of Run moves no one else but the clients that wait.
LEMMA RunMoves ==
    ASSUME SinkInv, NEW label \in WriterLabels,
           Goto(Writer, label) \/ NotifyDrained(label)
    PROVE  /\ Constructed' = Constructed /\ Labelled' /\ pc'[Writer] = label
           /\ pc'[Owner] = pc[Owner]
           /\ \A c \in Clients : /\ pc'[c] \in ClientLabels
                                 /\ pc[c] = "released" => pc'[c] = "released"
                                 /\ pc[c] = "idle" => pc'[c] = "idle"
<1>1. CASE Goto(Writer, label)
  BY <1>1, GotoMoves, ThreadsApart DEF Constructed, SinkInv, SinkTyped
<1>2. CASE NotifyDrained(label)
  BY <1>2, DrainedMoves DEF Constructed
<1> QED BY <1>1, <1>2

\* Taking the oldest event.
LEMMA TakeKeeps ==
    ASSUME SinkInv, Run, ~Stops, Take PROVE SinkInv'
<1>1. /\ UNCHANGED <<stopping_, write_failures_, output_, file, accepted>>
      /\ queue_ # <<>> /\ event' = Head(queue_) /\ queue_' = Tail(queue_)
      /\ writing_' = TRUE /\ Goto(Writer, "write") /\ pc[Writer] = "run"
  BY DEF Run, Take, Holds
<1>2. /\ Constructed /\ Constructed' /\ Labelled' /\ pc'[Writer] = "write"
      /\ pc'[Owner] = pc[Owner]
      /\ \A c \in Clients : /\ pc'[c] \in ClientLabels
                            /\ pc[c] = "released" => pc'[c] = "released"
                            /\ pc[c] = "idle" => pc'[c] = "idle"
  BY <1>1, RunMoves DEF WriterLabels, SinkInv, Building
<1>3. queue_ \in Seq(Nat) /\ Handled \in Nat
  BY DEF SinkInv, SinkTyped, Handled
<1>4. InHand = 0 /\ InHand' = 1 /\ Handled' = Handled
  BY <1>1, <1>2 DEF InHand, Handled
<1>5. /\ accepted = Handled + Len(queue_)
      /\ \A k \in 1..Len(queue_) : queue_[k] = Handled + k
  BY <1>2, <1>3, <1>4 DEF SinkInv, InLine
<1>6. /\ event' = Handled + 1 /\ Len(queue_') = Len(queue_) - 1
      /\ \A k \in 1..(Len(queue_) - 1) : queue_'[k] = Handled + 1 + k
  BY <1>1, <1>3, <1>5
<1>7. InLine'
  <2>1. accepted' = Handled' + InHand' + Len(queue_')
    BY <1>1, <1>3, <1>4, <1>5, <1>6
  <2>2. \A k \in 1..Len(queue_') : queue_'[k] = Handled' + InHand' + k
    BY <1>3, <1>4, <1>6
  <2>3. output_' = "good" => write_failures_' = 0
    BY <1>1, <1>2 DEF InLine, SinkInv
  <2> QED BY <1>1, <1>2, <1>4, <1>6, <2>1, <2>2, <2>3 DEF InLine
<1>8. SinkTyped'
  BY <1>1, <1>2, <1>3, <1>6 DEF SinkInv, SinkTyped, Labelled, WriterLabels
<1>9. Building' /\ Ending'
  BY <1>1, <1>2 DEF SinkInv, Building, Ending
<1> QED BY <1>7, <1>8, <1>9 DEF SinkInv

\* Run waits, or ends.
LEMMA RunKeeps ==
    ASSUME SinkInv, Run PROVE SinkInv'
<1>1. CASE ~Stops /\ Take
  BY <1>1, TakeKeeps
<1>2. CASE ~(~Stops /\ Take)
  <2>1. /\ Elsewhere /\ pc[Writer] = "run"
        /\ \/ Goto(Writer, "run_wait") /\ ~stopping_
           \/ Goto(Writer, "exit") /\ stopping_ /\ queue_ = <<>>
    BY <1>2 DEF Run, Elsewhere, memory, Stops, Holds
  <2>2. PICK label \in {"run_wait", "exit"} :
           Goto(Writer, label) /\ (label = "exit" => stopping_ /\ queue_ = <<>>)
    BY <2>1
  <2>3. /\ Constructed' = Constructed /\ Labelled' /\ pc'[Writer] = label
        /\ pc'[Owner] = pc[Owner]
        /\ \A c \in Clients : /\ pc'[c] \in ClientLabels
                              /\ pc[c] = "released" => pc'[c] = "released"
                              /\ pc[c] = "idle" => pc'[c] = "idle"
    BY <2>1, <2>2, RunMoves DEF WriterLabels
  <2>4. SinkTyped'
    BY <2>1, <2>2, <2>3 DEF SinkInv, SinkTyped, Elsewhere, memory, Labelled, WriterLabels
  <2>5. InHand' = InHand /\ Handled' = Handled
    BY <2>1, <2>3 DEF InHand, Handled, Elsewhere, memory
  <2>6. Constructed => InLine'
    BY <2>1, <2>3, <2>5 DEF SinkInv, InLine, Elsewhere, memory
  <2>7. Building' /\ (Constructed => Ending')
    BY <2>1, <2>2, <2>3 DEF SinkInv, Building, Ending, Elsewhere, memory
  <2> QED BY <2>3, <2>4, <2>6, <2>7 DEF SinkInv
<1> QED BY <1>1, <1>2

\* A line reaches the file, or the output is bad from then on and the event stays in
\* the hands of Run until it is counted.
LEMMA WriteKeeps ==
    ASSUME SinkInv, WriteLine PROVE SinkInv'
<1>1. /\ UNCHANGED <<queue_, memory, event, accepted>> /\ pc[Writer] = "write"
      /\ Goto(Writer, "account")
      /\ \/ output_ = "good" /\ output_' = "good" /\ file' = Append(file, event)
         \/ output_' = "bad" /\ file' = file
  BY DEF WriteLine
<1>2. /\ Constructed /\ Constructed' /\ Labelled' /\ pc'[Writer] = "account"
      /\ pc'[Owner] = pc[Owner]
      /\ \A c \in Clients : /\ pc'[c] \in ClientLabels
                            /\ pc[c] = "released" => pc'[c] = "released"
                            /\ pc[c] = "idle" => pc'[c] = "idle"
  BY <1>1, RunMoves DEF WriterLabels, SinkInv, Building
<1>3. SinkTyped'
  <2>1. file' \in Seq(Nat) /\ output_' \in {"good", "bad"}
    <3>1. file \in Seq(Nat) /\ event \in Nat
      BY DEF SinkInv, SinkTyped
    <3>2. Append(file, event) \in Seq(Nat)
      BY <3>1
    <3> QED BY <1>1, <3>1, <3>2
  <2> QED BY <1>1, <1>2, <2>1 DEF SinkInv, SinkTyped, memory, Labelled, WriterLabels
<1>4. Handled' + InHand' = Handled + InHand
  <2>1. file \in Seq(Nat) /\ event \in Nat /\ write_failures_ \in Nat
    BY DEF SinkInv, SinkTyped
  <2>2. InHand = 1 /\ InHand' = IF output_' = "bad" THEN 1 ELSE 0
    BY <1>1, <1>2 DEF InHand
  <2>3. Len(file') = IF output_' = "bad" THEN Len(file) ELSE Len(file) + 1
    BY <1>1, <2>1
  <2> QED BY <1>1, <2>1, <2>2, <2>3 DEF Handled, memory
<1>5. InLine'
  <2>1. Len(queue_) \in Nat /\ InLine
    BY <1>2 DEF SinkInv, SinkTyped
  <2> QED BY <1>1, <1>2, <1>4, <2>1 DEF InLine, memory
<1>6. Building' /\ Ending'
  BY <1>1, <1>2 DEF SinkInv, Building, Ending, memory
<1> QED BY <1>3, <1>5, <1>6 DEF SinkInv

\* An event that was not written is counted.
LEMMA AccountKeeps ==
    ASSUME SinkInv, Account PROVE SinkInv'
<1>1. /\ UNCHANGED <<queue_, stopping_, output_, file, event, accepted>>
      /\ pc[Writer] = "account" /\ writing_' = FALSE
      /\ write_failures_' = IF output_ = "bad" THEN write_failures_ + 1
                                               ELSE write_failures_
      /\ Goto(Writer, "run") \/ NotifyDrained("run")
  BY Zenon DEF Account, Holds
<1>2. /\ Constructed /\ Constructed' /\ Labelled' /\ pc'[Writer] = "run"
      /\ pc'[Owner] = pc[Owner]
      /\ \A c \in Clients : /\ pc'[c] \in ClientLabels
                            /\ pc[c] = "released" => pc'[c] = "released"
                            /\ pc[c] = "idle" => pc'[c] = "idle"
  BY <1>1, RunMoves DEF WriterLabels, SinkInv, Building
<1>3. SinkTyped'
  <2>1. write_failures_' \in Nat
    BY <1>1 DEF SinkInv, SinkTyped
  <2>2. writing_' \in BOOLEAN /\ stopping_' \in BOOLEAN
    BY Zenon, <1>1 DEF SinkInv, SinkTyped
  <2> QED BY <1>1, <1>2, <2>1, <2>2 DEF SinkInv, SinkTyped, Labelled, WriterLabels
<1>4. Handled' + InHand' = Handled + InHand
  <2>1. file \in Seq(Nat) /\ write_failures_ \in Nat
    BY DEF SinkInv, SinkTyped
  <2>2. InHand' = 0 /\ InHand = IF output_ = "bad" THEN 1 ELSE 0
    BY <1>1, <1>2 DEF InHand
  <2> QED BY <1>1, <2>1, <2>2 DEF Handled
<1>5. InLine'
  <2>1. Len(queue_) \in Nat /\ InLine
    BY <1>2 DEF SinkInv, SinkTyped
  <2>2. output_ = "good" => write_failures_' = 0
    BY <1>1, <2>1 DEF InLine
  <2> QED BY <1>1, <1>2, <1>4, <2>1, <2>2 DEF InLine
<1>6. Building' /\ Ending'
  BY <1>1, <1>2 DEF SinkInv, Building, Ending, Constructed, Uninitialized
<1> QED BY <1>3, <1>5, <1>6 DEF SinkInv

LEMMA ExitKeeps ==
    ASSUME SinkInv, Exit PROVE SinkInv'
<1>1. /\ UNCHANGED <<queue_, stopping_, write_failures_, output_, file, event, accepted>>
      /\ pc[Writer] = "exit" /\ writing_' = FALSE /\ NotifyDrained("done")
  BY DEF Exit, Holds
<1>2. /\ Constructed' = Constructed /\ Labelled' /\ pc'[Writer] = "done"
      /\ pc'[Owner] = pc[Owner]
      /\ \A c \in Clients : /\ pc'[c] \in ClientLabels
                            /\ pc[c] = "released" => pc'[c] = "released"
                            /\ pc[c] = "idle" => pc'[c] = "idle"
  BY <1>1, RunMoves DEF WriterLabels
<1>3. SinkTyped'
  BY <1>1, <1>2 DEF SinkInv, SinkTyped, Labelled, WriterLabels
<1>4. InHand' = InHand /\ Handled' = Handled
  BY <1>1, <1>2 DEF InHand, Handled
<1>5. Constructed => InLine'
  BY <1>1, <1>2, <1>4 DEF SinkInv, InLine
<1>6. Building' /\ (Constructed => Ending')
  BY <1>1, <1>2 DEF SinkInv, Building, Ending
<1> QED BY <1>2, <1>3, <1>5, <1>6 DEF SinkInv

LEMMA SinkNextInv == SinkInv /\ [SinkNext]_sinkVars => SinkInv'
<1> SUFFICES ASSUME SinkInv, [SinkNext]_sinkVars PROVE SinkInv'
  OBVIOUS
<1>1. CASE (\E t \in Threads : Lock(t)) \/ Stall \/ UNCHANGED sinkVars
  <2>1. Elsewhere /\ pc' = pc
    BY <1>1 DEF Lock, Stall, sinkVars, Elsewhere, memory
  <2> QED BY <2>1, StayingKeeps
<1>2. CASE \E t \in Threads : SpuriousWakeup(t)
  BY <1>2, SpuriousKeeps
<1>3. CASE OwnerStep \/ DropLastReference
  BY <1>3, InitializeKeeps, DestroyKeeps DEF OwnerStep
<1>4. CASE WriterStep
  BY <1>4, StartKeeps, RunKeeps, WriteKeeps, AccountKeeps, ExitKeeps DEF WriterStep
<1>5. CASE \E c \in Clients : Call(c) \/ ClientStep(c)
  BY <1>5, CallKeeps, EmitKeeps DEF ClientStep
<1> QED BY <1>1, <1>2, <1>3, <1>4, <1>5 DEF SinkNext, Finished
-----------------------------------------------------------------------------
(* The sink implements OrderedLog.                                          *)

\* Nobody but the owner moves the owner.
LEMMA OthersLetOwner ==
    ASSUME SinkInv, [SinkNext]_sinkVars, ~(OwnerStep \/ DropLastReference)
    PROVE  pc'[Owner] = pc[Owner]
<1>1. CASE (\E t \in Threads : Lock(t)) \/ Stall \/ UNCHANGED sinkVars
  BY <1>1 DEF Lock, Stall, sinkVars
<1>2. CASE \E t \in Threads : SpuriousWakeup(t)
  <2>1. PICK t \in Threads : SpuriousWakeup(t)
    BY <1>2
  <2>2. t # Owner
    BY <2>1 DEF SpuriousWakeup, SinkInv, SinkTyped, OwnerLabels, Uninitialized
  <2> QED BY <2>1, <2>2, GotoMoves, ThreadsApart
          DEF SpuriousWakeup, ClientLabels, WriterLabels
<1>3. CASE StartThread
  BY <1>3, GotoMoves, ThreadsApart DEF StartThread, WriterLabels
<1>4. CASE Run \/ WriteLine \/ Account \/ Exit
  <2>1. \E label \in WriterLabels : Goto(Writer, label) \/ NotifyDrained(label)
    BY <1>4 DEF Run, Take, WriteLine, Account, Exit, WriterLabels
  <2> QED BY <2>1, RunMoves
<1>5. CASE \E c \in Clients : Call(c) \/ ClientStep(c)
  <2>1. PICK c \in Clients : Call(c) \/ ClientStep(c)
    BY <1>5
  <2>2. \E label \in ClientLabels : Goto(c, label) \/ NotifyWork(c, label)
    BY <2>1 DEF Call, ClientStep, Emit, EmitNotify, Flush, ClientLabels
  <2> QED BY <2>2, GotoMoves, NotifyMoves, ThreadsApart
<1> QED BY <1>1, <1>2, <1>3, <1>4, <1>5 DEF SinkNext, WriterStep, Finished

\* Only its constructor makes a sink, and nothing unmakes it.
LEMMA ConstructedStays ==
    ASSUME SinkInv, [SinkNext]_sinkVars, ~InitializeMember
    PROVE  Constructed' = Constructed
<1>1. CASE DropLastReference \/ Stop \/ StopNotify \/ Join
  <2>1. pc[Owner] \in {"owns", "stop", "stop_notify", "join"}
    BY <1>1 DEF DropLastReference, Stop, StopNotify, Join, Holds
  <2>2. pc'[Owner] \in {"stop", "stop_notify", "join", "destroyed"}
    BY <1>1, GotoMoves, NotifyMoves, ThreadsApart
       DEF DropLastReference, Stop, StopNotify, Join, OwnerLabels
  <2> QED BY <2>1, <2>2 DEF Constructed, Uninitialized
<1>2. CASE ~(OwnerStep \/ DropLastReference)
  BY <1>2, OthersLetOwner DEF Constructed
<1> QED BY <1>1, <1>2 DEF OwnerStep

\* What OrderedLog does not see of a step.
LEMMA SinkUnseen ==
    ASSUME UNCHANGED <<accepted, file, write_failures_>>, Constructed' = Constructed
    PROVE  UNCHANGED Log!logVars
BY DEF Log!logVars

\* Before it is there, the sink reports nothing, and then it reports no failure.
LEMMA InitializeUnseen ==
    ASSUME SinkInv, InitializeMember PROVE UNCHANGED Log!logVars
<1>1. UNCHANGED <<accepted, file>> /\ ~Constructed
  BY DEF InitializeMember, Constructed, Uninitialized
<1>2. Constructed' => write_failures_' = 0
  <2>1. CASE pc[Owner] = "stopping_"
    BY <2>1 DEF InitializeMember, SinkInv, Building
  <2>2. CASE pc[Owner] # "stopping_"
    <3>1. Goto(Owner, "writing_") \/ Goto(Owner, "stopping_")
      BY <2>2 DEF InitializeMember
    <3>2. pc'[Owner] \in Uninitialized
      BY <3>1, GotoMoves, ThreadsApart DEF OwnerLabels, Uninitialized
    <3> QED BY <3>2 DEF Constructed
  <2> QED BY <2>1, <2>2
<1> QED BY <1>1, <1>2 DEF Log!logVars

LEMMA EmitAccepts ==
    ASSUME NEW c \in Clients, Emit(c), Constructed' = Constructed
    PROVE  [Log!LogNext]_(Log!logVars)
<1>1. UNCHANGED <<file, write_failures_>>
  BY DEF Emit, memory
<1>2. CASE accepted' = accepted
  BY <1>1, <1>2, SinkUnseen
<1>3. CASE accepted' = accepted + 1
  BY <1>1, <1>3 DEF Log!Accept, Log!LogNext
<1> QED BY <1>2, <1>3 DEF Emit

\* The line that is written is the next one, and none was lost before.
LEMMA WriteLineWrites ==
    ASSUME SinkInv, WriteLine, Constructed' = Constructed
    PROVE  [Log!LogNext]_(Log!logVars)
<1>1. UNCHANGED <<accepted, write_failures_>> /\ pc[Writer] = "write"
  BY DEF WriteLine, memory
<1>2. CASE file' = file
  BY <1>1, <1>2, SinkUnseen
<1>3. CASE output_ = "good" /\ file' = Append(file, event)
  <2>1. Constructed /\ SinkTyped /\ InLine
    BY <1>1 DEF SinkInv, Building
  <2>2. write_failures_ = 0 /\ event = Len(file) + 1 /\ InHand = 1
    BY <1>1, <1>3, <2>1 DEF InLine, Handled, InHand, SinkTyped
  <2>3. Len(file) < accepted
    BY <2>1, <2>2 DEF InLine, Handled, SinkTyped
  <2>4. Log!Write
    BY <1>1, <1>3, <2>1, <2>2, <2>3 DEF Log!Write
  <2> QED BY <2>4 DEF Log!LogNext
<1> QED BY <1>2, <1>3 DEF WriteLine

\* The event that is counted is one of those accepted and not in the file.
LEMMA AccountFails ==
    ASSUME SinkInv, Account, Constructed' = Constructed
    PROVE  [Log!LogNext]_(Log!logVars)
<1>1. UNCHANGED <<accepted, file>> /\ pc[Writer] = "account"
  BY DEF Account, Holds
<1>2. CASE output_ # "bad"
  <2>1. write_failures_' = write_failures_
    BY <1>2 DEF Account
  <2> QED BY <1>1, <2>1, SinkUnseen
<1>3. CASE output_ = "bad"
  <2>1. Constructed /\ SinkTyped /\ InLine
    BY <1>1 DEF SinkInv, Building
  <2>2. write_failures_' = write_failures_ + 1 /\ InHand = 1
    BY <1>1, <1>3 DEF Account, InHand
  <2>3. Len(file) + write_failures_ < accepted
    BY <2>1, <2>2 DEF InLine, Handled, SinkTyped
  <2>4. Log!Fail
    BY <1>1, <2>1, <2>2, <2>3 DEF Log!Fail
  <2> QED BY <2>4 DEF Log!LogNext
<1> QED BY <1>2, <1>3

LEMMA SinkRefines ==
    SinkInv /\ [SinkNext]_sinkVars => [Log!LogNext]_(Log!logVars)
<1> SUFFICES ASSUME SinkInv, [SinkNext]_sinkVars PROVE [Log!LogNext]_(Log!logVars)
  OBVIOUS
<1>1. CASE InitializeMember
  BY <1>1, InitializeUnseen
<1>2. CASE ~InitializeMember
  <2>1. Constructed' = Constructed
    BY <1>2, ConstructedStays
  <2>2. CASE \E c \in Clients : Emit(c)
    BY <2>1, <2>2, EmitAccepts
  <2>3. CASE WriteLine
    BY <2>1, <2>3, WriteLineWrites
  <2>4. CASE Account
    BY <2>1, <2>4, AccountFails
  <2>5. CASE ~((\E c \in Clients : Emit(c)) \/ WriteLine \/ Account)
    <3>1. UNCHANGED <<accepted, file, write_failures_>>
      BY <1>2, <2>5 DEF SinkNext, Lock, SpuriousWakeup, OwnerStep, Stop, StopNotify, Join,
         DropLastReference, WriterStep, StartThread, Run, Exit, Call, ClientStep, EmitNotify,
         Flush, Stall, Finished, sinkVars, memory
    <3> QED BY <2>1, <3>1, SinkUnseen
  <2> QED BY <2>2, <2>3, <2>4, <2>5
<1> QED BY <1>1, <1>2

\* The file is the accepted events in their order, none twice and none skipped, and
\* every event after the first that was not written is counted: Emit, Run and the
\* constructor of CastTelemetryWriter, also if the thread runs before the constructor
\* has returned.
THEOREM SinkLogsInOrder == SinkSpec => LogsInOrder
<1>1. SinkInit => Log!LogInit
  <2> SUFFICES ASSUME SinkInit PROVE Log!LogInit
    OBVIOUS
  <2>1. pc[Owner] = "write_failures_"
    BY ThreadsApart DEF SinkInit
  <2> QED BY <2>1 DEF SinkInit, Log!LogInit, Constructed, Uninitialized
<1> QED
  BY <1>1, SinkInitInv, SinkNextInv, SinkRefines, PTL
  DEF SinkSpec, LogsInOrder, Log!LogSpec

-----------------------------------------------------------------------------
(* What Flush and the destructor promise.                                   *)

LEMMA NothingLeft ==
    ASSUME ~EarlyThread, SinkInv, SinkInv', [SinkNext]_sinkVars
    PROVE  /\ \A c \in Clients : pc[c] = "flush" /\ pc'[c] = "idle" => Handled = accepted
           /\ pc'[Owner] = "destroyed" => Handled = accepted
<1>1. ASSUME NEW c \in Clients, pc[c] = "flush", pc'[c] = "idle" PROVE Handled = accepted
  <2>1. \A t \in Threads : pc[t] = "flush" => t # Owner /\ t # Writer
    BY DEF SinkInv, SinkTyped, OwnerLabels, Uninitialized, WriterLabels
  <2>2. Constructed
    BY <1>1 DEF SinkInv, Building
  <2>3. Flush(c)
    <3>1. CASE (\E t \in Threads : Lock(t)) \/ Stall \/ UNCHANGED sinkVars
      BY <1>1, <3>1 DEF Lock, Stall, sinkVars
    <3>2. CASE \E t \in Threads : SpuriousWakeup(t)
      <4>1. PICK t \in Threads : SpuriousWakeup(t)
        BY <3>2
      <4>2. t # c
        BY <1>1, <4>1 DEF SpuriousWakeup
      <4> QED BY <1>1, <4>1, <4>2, GotoMoves, ThreadsApart
              DEF SpuriousWakeup, ClientLabels, WriterLabels
    <3>3. CASE OwnerStep \/ DropLastReference
      <4>1. \E label \in OwnerLabels : Goto(Owner, label) \/ NotifyWork(Owner, label)
        BY <3>3 DEF OwnerStep, InitializeMember, Stop, StopNotify, Join,
           DropLastReference, OwnerLabels, Uninitialized
      <4> QED BY <1>1, <4>1, GotoMoves, NotifyMoves, ThreadsApart
    <3>4. CASE WriterStep
      <4>1. \E label \in WriterLabels : Goto(Writer, label) \/ NotifyDrained(label)
        BY <3>4 DEF WriterStep, StartThread, Run, Take, WriteLine, Account, Exit, WriterLabels
      <4> QED BY <1>1, <4>1, GotoMoves, ThreadsApart DEF NotifyDrained
    <3>5. ASSUME NEW d \in Clients, Call(d) \/ ClientStep(d) PROVE Flush(c)
      <4>1. CASE d = c
        BY <1>1, <3>5, <4>1 DEF Call, ClientStep, Emit, EmitNotify, Holds
      <4>2. CASE d # c
        <5>1. \E label \in ClientLabels : Goto(d, label) \/ NotifyWork(d, label)
          BY <3>5 DEF Call, ClientStep, Emit, EmitNotify, Flush, ClientLabels
        <5> QED BY <1>1, <4>2, <5>1, GotoMoves, NotifyMoves, ThreadsApart
      <4> QED BY <4>1, <4>2
    <3> QED BY <3>1, <3>2, <3>3, <3>4, <3>5 DEF SinkNext, Finished
  <2>4. Drained
    BY <1>1, <2>3, GotoMoves, ThreadsApart DEF Flush, ClientLabels
  <2>5. InLine /\ SinkTyped
    BY <2>2 DEF SinkInv
  <2>6. InHand = 0 /\ Len(queue_) = 0
    BY <2>4, <2>5 DEF Drained, InLine, InHand
  <2> QED BY <2>5, <2>6 DEF InLine, SinkTyped, Handled
<1>2. ASSUME pc'[Owner] = "destroyed" PROVE Handled = accepted
  <2>1. pc[Writer] = "done" /\ Constructed
    <3>1. CASE pc[Owner] = "destroyed"
      BY <3>1 DEF SinkInv, Ending, Constructed, Uninitialized
    <3>2. CASE pc[Owner] # "destroyed"
      <4>1. CASE Join
        BY <4>1 DEF Join, Constructed, Uninitialized
      <4>2. CASE ~Join
        <5>1. CASE OwnerStep \/ DropLastReference
          <6>1. \E label \in OwnerLabels \ {"destroyed"} :
                   Goto(Owner, label) \/ NotifyWork(Owner, label)
            BY <4>2, <5>1 DEF OwnerStep, InitializeMember, Stop, StopNotify,
               DropLastReference, OwnerLabels, Uninitialized
          <6> QED BY <1>2, <6>1, GotoMoves, NotifyMoves, ThreadsApart
        <5>2. CASE ~(OwnerStep \/ DropLastReference)
          <6>1. pc'[Owner] = pc[Owner]
            BY <5>2, OthersLetOwner
          <6> QED BY <1>2, <3>2, <6>1
        <5> QED BY <5>1, <5>2
      <4> QED BY <4>1, <4>2
    <3> QED BY <3>1, <3>2
  <2>2. InLine /\ SinkTyped /\ queue_ = <<>>
    BY <2>1 DEF SinkInv, Ending
  <2>3. InHand = 0
    BY <2>1 DEF InHand
  <2> QED BY <2>2, <2>3 DEF InLine, SinkTyped, Handled
<1> QED BY <1>1, <1>2

\* When a Flush or the destructor returns, every event accepted before is in the file
\* or counted as a failure: Flush, Run and ~CastTelemetryWriter, when the thread first
\* runs after the constructor has returned.
THEOREM SinkLeavesNothing ==
    ASSUME ~EarlyThread
    PROVE  SinkSpec => NothingLeftBehind
<1>1. SinkInv /\ SinkInv' /\ [SinkNext]_sinkVars =>
         [ /\ \A c \in Clients : pc[c] = "flush" /\ pc'[c] = "idle" => Handled = accepted
           /\ pc'[Owner] = "destroyed" => Handled = accepted ]_sinkVars
  BY NothingLeft
<1> QED
  BY <1>1, SinkInitInv, SinkNextInv, PTL DEF SinkSpec, NothingLeftBehind

-----------------------------------------------------------------------------
(* CastTuningJson: what the groups of a document contain.                   *)

LEMMA GroupDomains ==
    /\ DOMAIN Groups = {"sender", "transport", "pacing", "encoder", "receiver",
                        "recovery", "telemetry", "experimental"}
    /\ Groups["sender"] = SenderMembers
    /\ Groups["transport"] = TransportMembers
    /\ Groups["pacing"] = PacingMembers
    /\ Groups["encoder"] = EncoderMembers
    /\ Groups["receiver"] = ReceiverMembers
    /\ Groups["recovery"] = RecoveryMembers
    /\ Groups["telemetry"] = TelemetryMembers
    /\ Groups["experimental"] = ExperimentalMembers
  BY DEF Groups

\* A member belongs to one group.
LEMMA GroupsDisjoint ==
    ASSUME NEW g \in DOMAIN Groups, NEW h \in DOMAIN Groups,
           NEW k \in DOMAIN Groups[g] \cap DOMAIN Groups[h]
    PROVE  g = h
<1>1. /\ DOMAIN SenderMembers =
             {"max_width", "max_height", "min_fps", "max_fps", "latest_frame_only",
              "content_mode", "min_bitrate_bps", "start_bitrate_bps",
              "max_bitrate_bps", "degradation_preference", "network_priority"}
      /\ DOMAIN TransportMembers =
             {"relay_only", "disable_tcp_candidates", "screencast_min_bitrate_bps",
              "allow_probe_without_media"}
      /\ DOMAIN PacingMembers = {"screenshare_alr_probing", "factor", "max_queue_ms"}
      /\ DOMAIN EncoderMembers =
             {"hardware_policy", "realtime", "allow_frame_reordering",
              "h264_profile", "h264_level", "periodic_idr_seconds",
              "max_h264_slice_bytes", "data_rate_limit_factor",
              "data_rate_window_ms", "max_frame_delay_count", "max_qp",
              "video_toolbox_low_latency_rate_control",
              "video_toolbox_spatial_adaptive_qp"}
      /\ DOMAIN ReceiverMembers =
             {"jitter_minimum_ms", "prerender_smoothing", "render_lead_ms",
              "android_decoder_low_latency", "stale_decoded_frame_ms"}
      /\ DOMAIN RecoveryMembers =
             {"nack_enabled", "nack_history_ms", "rtx_enabled", "fec_mode",
              "pli_min_interval_ms", "no_decoded_frame_timeout_ms",
              "decoder_recreate_after_failed_pli", "sender_reset_after_failed_pli"}
      /\ DOMAIN TelemetryMembers =
             {"sample_interval_ms", "jsonl_path", "rtc_event_log"}
      /\ DOMAIN ExperimentalMembers = {"allow_raw_field_trials", "raw_field_trials"}
  BY DEF SenderMembers, TransportMembers, PacingMembers, EncoderMembers,
         ReceiverMembers, RecoveryMembers, TelemetryMembers, ExperimentalMembers
<1>2. CASE g = "sender"
  BY <1>1, <1>2, GroupDomains
<1>3. CASE g = "transport"
  BY <1>1, <1>3, GroupDomains
<1>4. CASE g = "pacing"
  BY <1>1, <1>4, GroupDomains
<1>5. CASE g = "encoder"
  BY <1>1, <1>5, GroupDomains
<1>6. CASE g = "receiver"
  BY <1>1, <1>6, GroupDomains
<1>7. CASE g = "recovery"
  BY <1>1, <1>7, GroupDomains
<1>8. CASE g = "telemetry"
  BY <1>1, <1>8, GroupDomains
<1>9. CASE g = "experimental"
  BY <1>1, <1>9, GroupDomains
<1> QED
  BY <1>2, <1>3, <1>4, <1>5, <1>6, <1>7, <1>8, <1>9, GroupDomains

\* The raw trials are the only member that may be an object.
LEMMA OnlyTrialsAreObjects ==
    /\ "raw_field_trials" \in DOMAIN Groups["experimental"]
    /\ Groups["experimental"]["raw_field_trials"] = "strings"
    /\ \A g \in DOMAIN Groups : \A k \in DOMAIN Groups[g] :
          Groups[g][k] = "strings" => k = "raw_field_trials"
<1>1. /\ "raw_field_trials" \in DOMAIN Groups["experimental"]
      /\ Groups["experimental"]["raw_field_trials"] = "strings"
  BY GroupDomains DEF ExperimentalMembers
<1>2. ASSUME NEW g \in DOMAIN Groups, NEW k \in DOMAIN Groups[g],
             Groups[g][k] = "strings"
      PROVE  k = "raw_field_trials"
  <2>1. CASE g = "sender"
    BY <1>2, <2>1, GroupDomains DEF SenderMembers
  <2>2. CASE g = "transport"
    BY <1>2, <2>2, GroupDomains DEF TransportMembers
  <2>3. CASE g = "pacing"
    BY <1>2, <2>3, GroupDomains DEF PacingMembers
  <2>4. CASE g = "encoder"
    BY <1>2, <2>4, GroupDomains DEF EncoderMembers
  <2>5. CASE g = "receiver"
    BY <1>2, <2>5, GroupDomains DEF ReceiverMembers
  <2>6. CASE g = "recovery"
    BY <1>2, <2>6, GroupDomains DEF RecoveryMembers
  <2>7. CASE g = "telemetry"
    BY <1>2, <2>7, GroupDomains DEF TelemetryMembers
  <2>8. CASE g = "experimental"
    BY <1>2, <2>8, GroupDomains DEF ExperimentalMembers
  <2> QED
    BY <2>1, <2>2, <2>3, <2>4, <2>5, <2>6, <2>7, <2>8, GroupDomains
<1> QED
  BY <1>1, <1>2

LEMMA ObjectsConformAsTrials ==
    ASSUME NEW type, NEW v, Conforms(type, v), IsObject(v)
    PROVE  type = "strings"
<1>1. v.kind # "number" /\ v.kind # "bool" /\ v.kind # "string" /\ ~IsInt(v)
  BY DEF IsObject, IsInt
<1> QED
  BY <1>1, Zenon DEF Conforms

LEMMA TrialsConform ==
    ASSUME NEW v, Conforms("strings", v)
    PROVE  /\ IsObject(v)
           /\ Decoded("strings", v) = [k \in DOMAIN v.value |-> v.value[k].value]
<1>1. "strings" # "int" /\ "strings" # "double" /\ "strings" # "bool"
      /\ "strings" # "string" /\ "strings" \notin DOMAIN EnumValues
  BY DEF EnumValues
<1>2. IsObject(v)
  BY <1>1, Zenon DEF Conforms
<1>3. Decoded("strings", v) = [k \in DOMAIN v.value |-> v.value[k].value]
  BY <1>1, Zenon DEF Decoded
<1> QED
  BY <1>2, <1>3

-----------------------------------------------------------------------------
(* The merge, level by level.                                               *)

LEMMA OverlayValues ==
    ASSUME NEW base, NEW over
    PROVE  /\ DOMAIN Overlay(base, over) = DOMAIN base \cup DOMAIN over
           /\ \A f \in DOMAIN over : Overlay(base, over)[f] = over[f]
           /\ \A f \in DOMAIN base \ DOMAIN over : Overlay(base, over)[f] = base[f]
  BY DEF Overlay

\* What becomes of a raw trial that is an object in both documents makes no
\* difference: any merge of the trials that leaves it an object, the recursive
\* MergeObject (cast_tuning_json.cc:22) among them, is refused when MergeTrials is,
\* and else is MergeTrials.
THEOREM MergeStopsAtTrials ==
    ASSUME NEW over, NEW base, NEW merged,
           merged = [k \in DOMAIN over \cup DOMAIN base |-> merged[k]],
           \A k \in ObjectsInBoth(over, base) : IsObject(merged[k]),
           \A k \in DOMAIN merged \ ObjectsInBoth(over, base) :
              merged[k] = MergeTrials(over, base)[k]
    PROVE  /\ Conforms("strings", Object(merged))
                 <=> Conforms("strings", Object(MergeTrials(over, base)))
           /\ Conforms("strings", Object(merged)) => merged = MergeTrials(over, base)
<1> DEFINE trials == MergeTrials(over, base)
<1>1. ASSUME NEW members
      PROVE  Conforms("strings", Object(members))
                <=> \A k \in DOMAIN members : members[k].kind = "string"
  <2>1. /\ Object(members).kind = "object" /\ Object(members).value = members
    BY DEF Object
  <2>2. "strings" # "int" /\ "strings" # "double" /\ "strings" # "bool"
        /\ "strings" # "string"
    OBVIOUS
  <2> QED
    BY <2>1, <2>2, Zenon DEF Conforms, IsObject
<1>2. /\ trials = [k \in DOMAIN over \cup DOMAIN base |->
                     IF k \in DOMAIN over THEN over[k] ELSE base[k]]
      /\ DOMAIN merged = DOMAIN over \cup DOMAIN base
  BY DEF MergeTrials, Overlay
<1> HIDE DEF trials
<1>3. CASE ObjectsInBoth(over, base) = {}
  <2>1. merged = trials
    BY <1>2, <1>3 DEF trials
  <2> QED
    BY <2>1 DEF trials
<1>4. CASE ObjectsInBoth(over, base) # {}
  <2>1. PICK k \in ObjectsInBoth(over, base) : TRUE
    BY <1>4
  <2>2. k \in DOMAIN merged /\ k \in DOMAIN trials
        /\ IsObject(merged[k]) /\ IsObject(trials[k])
    BY <1>2, <2>1 DEF ObjectsInBoth
  <2>3. merged[k].kind # "string" /\ trials[k].kind # "string"
    BY <2>2 DEF IsObject
  <2> QED
    BY <1>1, <2>2, <2>3 DEF trials
<1> QED
  BY <1>3, <1>4

LEMMA GroupLevel ==
    ASSUME NEW over, NEW base
    PROVE  /\ DOMAIN MergeGroup(over, base) = DOMAIN over \cup DOMAIN base
           /\ \A k \in DOMAIN base \ DOMAIN over : MergeGroup(over, base)[k] = base[k]
           /\ \A k \in DOMAIN over \ ObjectsInBoth(over, base) :
                 MergeGroup(over, base)[k] = over[k]
           /\ \A k \in ObjectsInBoth(over, base) :
                 MergeGroup(over, base)[k]
                    = Object(MergeTrials(Members(over[k]), Members(base[k])))
<1> DEFINE both == [k \in ObjectsInBoth(over, base) |->
                      Object(MergeTrials(Members(over[k]), Members(base[k])))]
<1>1. MergeGroup(over, base) = Overlay(Overlay(base, over), both)
  BY DEF MergeGroup
<1>2. DOMAIN both \subseteq DOMAIN over \cap DOMAIN base
  BY DEF ObjectsInBoth
<1>3. /\ DOMAIN both = ObjectsInBoth(over, base)
      /\ \A k \in DOMAIN both :
            both[k] = Object(MergeTrials(Members(over[k]), Members(base[k])))
  OBVIOUS
<1> HIDE DEF both
<1>4. /\ DOMAIN Overlay(base, over) = DOMAIN base \cup DOMAIN over
      /\ \A f \in DOMAIN over : Overlay(base, over)[f] = over[f]
      /\ \A f \in DOMAIN base \ DOMAIN over : Overlay(base, over)[f] = base[f]
  BY OverlayValues
<1>5. /\ DOMAIN MergeGroup(over, base) = DOMAIN Overlay(base, over) \cup DOMAIN both
      /\ \A f \in DOMAIN both : MergeGroup(over, base)[f] = both[f]
      /\ \A f \in DOMAIN Overlay(base, over) \ DOMAIN both :
            MergeGroup(over, base)[f] = Overlay(base, over)[f]
  BY <1>1 DEF Overlay
<1> QED
  BY <1>2, <1>3, <1>4, <1>5

LEMMA RootLevel ==
    ASSUME NEW over, NEW base
    PROVE  /\ DOMAIN MergeRoot(over, base) = DOMAIN over \cup DOMAIN base
           /\ \A k \in DOMAIN base \ DOMAIN over : MergeRoot(over, base)[k] = base[k]
           /\ \A k \in DOMAIN over \ ObjectsInBoth(over, base) :
                 MergeRoot(over, base)[k] = over[k]
           /\ \A k \in ObjectsInBoth(over, base) :
                 MergeRoot(over, base)[k]
                    = Object(MergeGroup(Members(over[k]), Members(base[k])))
<1> DEFINE both == [k \in ObjectsInBoth(over, base) |->
                      Object(MergeGroup(Members(over[k]), Members(base[k])))]
<1>1. MergeRoot(over, base) = Overlay(Overlay(base, over), both)
  BY DEF MergeRoot
<1>2. DOMAIN both \subseteq DOMAIN over \cap DOMAIN base
  BY DEF ObjectsInBoth
<1>3. /\ DOMAIN both = ObjectsInBoth(over, base)
      /\ \A k \in DOMAIN both :
            both[k] = Object(MergeGroup(Members(over[k]), Members(base[k])))
  OBVIOUS
<1> HIDE DEF both
<1>4. /\ DOMAIN Overlay(base, over) = DOMAIN base \cup DOMAIN over
      /\ \A f \in DOMAIN over : Overlay(base, over)[f] = over[f]
      /\ \A f \in DOMAIN base \ DOMAIN over : Overlay(base, over)[f] = base[f]
  BY OverlayValues
<1>5. /\ DOMAIN MergeRoot(over, base) = DOMAIN Overlay(base, over) \cup DOMAIN both
      /\ \A f \in DOMAIN both : MergeRoot(over, base)[f] = both[f]
      /\ \A f \in DOMAIN Overlay(base, over) \ DOMAIN both :
            MergeRoot(over, base)[f] = Overlay(base, over)[f]
  BY <1>1 DEF Overlay
<1> QED
  BY <1>2, <1>3, <1>4, <1>5

LEMMA BaseValues ==
    ASSUME NEW document, NEW profile
    PROVE  /\ profile = "" => Base(document, profile) = document.value
           /\ profile # "" =>
                 /\ DOMAIN Base(document, profile)
                       = DOMAIN document.value \cup {"profile"}
                 /\ Base(document, profile)["profile"] = String(profile)
                 /\ \A m \in DOMAIN document.value \ {"profile"} :
                       Base(document, profile)[m] = document.value[m]
<1>1. CASE profile = ""
  BY <1>1 DEF Base, Members
<1>2. CASE profile # ""
  <2>1. Base(document, profile)
           = Overlay(document.value, [profile |-> String(profile)])
    BY <1>2 DEF Base, Members
  <2> DEFINE named == [profile |-> String(profile)]
  <2>2. DOMAIN named = {"profile"} /\ named["profile"] = String(profile)
    OBVIOUS
  <2>3. Base(document, profile) = Overlay(document.value, named)
    BY <2>1
  <2> HIDE DEF named
  <2>4. /\ DOMAIN Base(document, profile) = DOMAIN document.value \cup DOMAIN named
        /\ \A f \in DOMAIN named : Base(document, profile)[f] = named[f]
        /\ \A f \in DOMAIN document.value \ DOMAIN named :
              Base(document, profile)[f] = document.value[f]
    BY <2>3 DEF Overlay
  <2>5. Base(document, profile)["profile"] = String(profile)
    BY <2>2, <2>4
  <2> QED
    BY <1>2, <2>2, <2>4, <2>5
<1> QED
  BY <1>1, <1>2

-----------------------------------------------------------------------------
(* The root that the inputs of a session are merged into.                   *)

MergedRoot == Root(json, profile_override, overrides_json)
Loadable == ParsesWithOverrides(json, profile_override, overrides_json)
Overridden(m) == IsObject(overrides_json) /\ m \in DOMAIN overrides_json.value
Both(m) ==
    /\ Overridden(m) /\ m \in DOMAIN json.value
    /\ IsObject(overrides_json.value[m]) /\ IsObject(json.value[m])

LEMMA LoadableRoot ==
    ASSUME Loadable
    PROVE  /\ IsObject(json)
           /\ overrides_json = Absent <=> ~IsObject(overrides_json)
           /\ WellFormed(MergedRoot) /\ Validate(Configuration(MergedRoot))
<1>1. ~IsObject(Absent)
  BY DEF IsObject, Absent
<1> QED
  BY <1>1 DEF Loadable, ParsesWithOverrides, ParsesJson, MergedRoot

\* A member of the root is that of the overrides, else that of the document, else
\* what their groups merge into.
LEMMA RootMembers ==
    ASSUME Loadable, NEW m, m # "profile" \/ profile_override = ""
    PROVE  /\ m \in DOMAIN MergedRoot <=> Overridden(m) \/ m \in DOMAIN json.value
           /\ ~Overridden(m) /\ m \in DOMAIN json.value =>
                 MergedRoot[m] = json.value[m]
           /\ Overridden(m) /\ ~Both(m) => MergedRoot[m] = overrides_json.value[m]
           /\ Both(m) =>
                 MergedRoot[m] = Object(MergeGroup(overrides_json.value[m].value,
                                                   json.value[m].value))
<1> DEFINE base == Base(json, profile_override)
           over == overrides_json.value
<1>1. /\ m \in DOMAIN base <=> m \in DOMAIN json.value
      /\ m \in DOMAIN json.value => base[m] = json.value[m]
  <2>1. CASE profile_override = ""
    BY <2>1, BaseValues
  <2>2. CASE profile_override # ""
    BY <2>2, BaseValues
  <2> QED
    BY <2>1, <2>2
<1>2. CASE overrides_json = Absent
  <2>1. MergedRoot = base /\ ~Overridden(m)
    BY <1>2, LoadableRoot DEF MergedRoot, Root, Overridden
  <2> QED
    BY <1>1, <2>1 DEF Both
<1>3. CASE IsObject(overrides_json)
  <2>1. MergedRoot = MergeRoot(over, base)
    BY <1>3, LoadableRoot DEF MergedRoot, Root, Members
  <2>2. Overridden(m) <=> m \in DOMAIN over
    BY <1>3 DEF Overridden
  <2>3. Both(m) <=> m \in ObjectsInBoth(over, base)
    BY <1>1, <2>2 DEF Both, ObjectsInBoth
  <2> HIDE DEF base, over
  <2>4. /\ DOMAIN MergeRoot(over, base) = DOMAIN over \cup DOMAIN base
        /\ \A k \in DOMAIN base \ DOMAIN over : MergeRoot(over, base)[k] = base[k]
        /\ \A k \in DOMAIN over \ ObjectsInBoth(over, base) :
              MergeRoot(over, base)[k] = over[k]
        /\ \A k \in ObjectsInBoth(over, base) :
              MergeRoot(over, base)[k]
                 = Object(MergeGroup(Members(over[k]), Members(base[k])))
    BY RootLevel
  <2>5. Both(m) => m \in DOMAIN json.value
    BY DEF Both
  <2>6. Both(m) => MergedRoot[m] = Object(MergeGroup(over[m].value, json.value[m].value))
    BY <1>1, <2>1, <2>3, <2>4, <2>5 DEF Members
  <2> QED
    BY <1>1, <2>1, <2>2, <2>3, <2>4, <2>6 DEF over
<1> QED
  BY <1>2, <1>3, LoadableRoot

LEMMA RootProfile ==
    ASSUME Loadable
    PROVE  ProfileNamed(MergedRoot).value = Strongest("profile", "UPSTREAM")
<1> DEFINE base == Base(json, profile_override)
           over == overrides_json.value
<1>1. ProfileNamed(MergedRoot).kind = "string"
  BY LoadableRoot DEF WellFormed
<1>2. ~IsObject(ProfileNamed(MergedRoot))
  BY <1>1 DEF IsObject
<1>3. CASE profile_override = ""
  <2>1. ~Both("profile")
    <3>1. SUFFICES ASSUME Both("profile") PROVE FALSE
      OBVIOUS
    <3>2. /\ "profile" \in DOMAIN MergedRoot
          /\ MergedRoot["profile"] =
                Object(MergeGroup(over["profile"].value, json.value["profile"].value))
      BY <1>3, <3>1, RootMembers DEF Both
    <3>3. IsObject(MergedRoot["profile"])
      BY <3>2 DEF Object, IsObject
    <3> QED
      BY <1>2, <3>2, <3>3 DEF ProfileNamed
  <2>2. CASE Overridden("profile")
    <3>1. "profile" \in DOMAIN MergedRoot /\ MergedRoot["profile"] = over["profile"]
      BY <1>3, <2>1, <2>2, RootMembers
    <3> QED
      BY <2>2, <3>1 DEF ProfileNamed, Strongest, Overridden
  <2>3. CASE ~Overridden("profile") /\ "profile" \in DOMAIN json.value
    <3>1. "profile" \in DOMAIN MergedRoot
          /\ MergedRoot["profile"] = json.value["profile"]
      BY <1>3, <2>3, RootMembers
    <3> QED
      BY <1>3, <2>3, <3>1 DEF ProfileNamed, Strongest, Overridden
  <2>4. CASE ~Overridden("profile") /\ "profile" \notin DOMAIN json.value
    <3>1. "profile" \notin DOMAIN MergedRoot
      BY <1>3, <2>4, RootMembers
    <3> QED
      BY <1>3, <2>4, <3>1 DEF ProfileNamed, Strongest, Overridden, String
  <2> QED
    BY <2>2, <2>3, <2>4
<1>4. CASE profile_override # ""
  <2>1. /\ "profile" \in DOMAIN base
        /\ base["profile"].value = profile_override
        /\ ~IsObject(base["profile"])
    <3>1. "profile" \in DOMAIN base /\ base["profile"] = String(profile_override)
      BY <1>4, BaseValues
    <3> QED
      BY <3>1 DEF String, IsObject
  <2>2. CASE overrides_json = Absent
    <3>1. MergedRoot = base /\ ~Overridden("profile")
      BY <2>2, LoadableRoot DEF MergedRoot, Root, Overridden
    <3> QED
      BY <1>4, <2>1, <3>1 DEF ProfileNamed, Strongest, Overridden
  <2>3. CASE IsObject(overrides_json)
    <3>1. MergedRoot = MergeRoot(over, base)
      BY <2>3, LoadableRoot DEF MergedRoot, Root, Members
    <3>2. "profile" \notin ObjectsInBoth(over, base)
      BY <2>1 DEF ObjectsInBoth
    <3> HIDE DEF base, over
    <3>3. /\ DOMAIN MergeRoot(over, base) = DOMAIN over \cup DOMAIN base
          /\ \A k \in DOMAIN base \ DOMAIN over : MergeRoot(over, base)[k] = base[k]
          /\ \A k \in DOMAIN over \ ObjectsInBoth(over, base) :
                MergeRoot(over, base)[k] = over[k]
      BY RootLevel
    <3>4. /\ "profile" \in DOMAIN MergedRoot
          /\ "profile" \in DOMAIN over => MergedRoot["profile"] = over["profile"]
          /\ "profile" \notin DOMAIN over => MergedRoot["profile"] = base["profile"]
      BY <2>1, <3>1, <3>2, <3>3
    <3> QED
      BY <1>4, <2>1, <2>3, <3>4 DEF ProfileNamed, Strongest, over
  <2> QED
    BY <2>2, <2>3, LoadableRoot
<1> QED
  BY <1>3, <1>4

LEMMA RootVersion ==
    ASSUME Loadable
    PROVE  MergedRoot.schema_version.value = Strongest("schema_version", 0)
<1>1. /\ "schema_version" \in DOMAIN MergedRoot
      /\ MergedRoot["schema_version"].kind = "number"
  BY LoadableRoot DEF WellFormed, IsInt
<1>2. ~Both("schema_version")
  <2>1. SUFFICES ASSUME Both("schema_version") PROVE FALSE
    OBVIOUS
  <2>2. MergedRoot["schema_version"] =
           Object(MergeGroup(overrides_json.value["schema_version"].value,
                             json.value["schema_version"].value))
    BY <2>1, RootMembers
  <2>3. MergedRoot["schema_version"].kind = "object"
    BY <2>2 DEF Object
  <2> QED
    BY <1>1, <2>3
<1>3. CASE Overridden("schema_version")
  BY <1>2, <1>3, RootMembers DEF Strongest, Overridden
<1>4. CASE ~Overridden("schema_version")
  <2>1. /\ "schema_version" \in DOMAIN json.value
        /\ MergedRoot["schema_version"] = json.value["schema_version"]
    BY <1>1, <1>4, RootMembers
  <2> QED
    BY <1>4, <2>1 DEF Strongest, Overridden
<1> QED
  BY <1>3, <1>4

\* A group of the root has the members that either document names.
Sets(g, k) == g \in DOMAIN MergedRoot /\ k \in DOMAIN MergedRoot[g].value

BothMembers(g, k) ==
    /\ Names(overrides_json, g, k) /\ Names(json, g, k)
    /\ IsObject(overrides_json.value[g].value[k]) /\ IsObject(json.value[g].value[k])

LEMMA RootGroups ==
    ASSUME Loadable, NEW g \in DOMAIN Groups, g \in DOMAIN MergedRoot
    PROVE  /\ IsObject(MergedRoot[g])
           /\ DOMAIN MergedRoot[g].value \subseteq DOMAIN Groups[g]
           /\ \A k \in DOMAIN MergedRoot[g].value :
                 Conforms(Groups[g][k], MergedRoot[g].value[k])
<1>1. GroupParses(g, MergedRoot[g])
  BY LoadableRoot DEF WellFormed
<1> QED
  BY <1>1 DEF GroupParses

LEMMA MemberMerged ==
    ASSUME Loadable, NEW g \in DOMAIN Groups, NEW k
    PROVE  /\ Sets(g, k) <=> Names(json, g, k) \/ Names(overrides_json, g, k)
           /\ Names(overrides_json, g, k) /\ ~BothMembers(g, k) =>
                 MergedRoot[g].value[k] = overrides_json.value[g].value[k]
           /\ BothMembers(g, k) =>
                 MergedRoot[g].value[k] =
                    Object(MergeTrials(overrides_json.value[g].value[k].value,
                                       json.value[g].value[k].value))
           /\ Names(json, g, k) /\ ~Names(overrides_json, g, k) =>
                 MergedRoot[g].value[k] = json.value[g].value[k]
<1> DEFINE over == overrides_json.value[g].value
           base == json.value[g].value
<1>1. g # "profile"
  BY GroupDomains
<1>2. Names(json, g, k) <=>
         g \in DOMAIN json.value /\ IsObject(json.value[g]) /\ k \in DOMAIN base
  BY LoadableRoot DEF Names
<1>3. Names(overrides_json, g, k) <=>
         Overridden(g) /\ IsObject(overrides_json.value[g]) /\ k \in DOMAIN over
  BY DEF Names, Overridden
<1>4. CASE Both(g)
  <2>1. /\ g \in DOMAIN MergedRoot
        /\ MergedRoot[g] = Object(MergeGroup(over, base))
    BY <1>1, <1>4, RootMembers DEF Both
  <2>2. MergedRoot[g].value = MergeGroup(over, base)
    BY <2>1 DEF Object
  <2> HIDE DEF over, base
  <2>3. /\ DOMAIN MergeGroup(over, base) = DOMAIN over \cup DOMAIN base
        /\ \A m \in DOMAIN base \ DOMAIN over : MergeGroup(over, base)[m] = base[m]
        /\ \A m \in DOMAIN over \ ObjectsInBoth(over, base) :
              MergeGroup(over, base)[m] = over[m]
        /\ \A m \in ObjectsInBoth(over, base) :
              MergeGroup(over, base)[m]
                 = Object(MergeTrials(Members(over[m]), Members(base[m])))
    BY GroupLevel
  <2>4. Names(json, g, k) <=> k \in DOMAIN base
    BY <1>2, <1>4 DEF Both
  <2>5. Names(overrides_json, g, k) <=> k \in DOMAIN over
    BY <1>3, <1>4 DEF Both
  <2>6. Sets(g, k) <=> k \in DOMAIN over \cup DOMAIN base
    BY <2>1, <2>2, <2>3 DEF Sets
  <2>7. BothMembers(g, k) <=> k \in ObjectsInBoth(over, base)
    BY <2>4, <2>5 DEF BothMembers, ObjectsInBoth, over, base
  <2>8. k \in DOMAIN over /\ ~BothMembers(g, k) => MergedRoot[g].value[k] = over[k]
    BY <2>2, <2>3, <2>7
  <2>9. k \in DOMAIN base \ DOMAIN over => MergedRoot[g].value[k] = base[k]
    BY <2>2, <2>3
  <2>10. BothMembers(g, k) =>
            MergedRoot[g].value[k] = Object(MergeTrials(over[k].value, base[k].value))
    BY <2>2, <2>3, <2>7 DEF Members
  <2> QED
    BY <2>4, <2>5, <2>6, <2>8, <2>9, <2>10 DEF over, base
<1>5. CASE Overridden(g) /\ ~Both(g)
  <2>1. g \in DOMAIN MergedRoot /\ MergedRoot[g] = overrides_json.value[g]
    BY <1>1, <1>5, RootMembers
  <2>2. IsObject(overrides_json.value[g])
    BY <2>1, RootGroups
  <2>3. ~(g \in DOMAIN json.value /\ IsObject(json.value[g]))
    BY <1>5, <2>2 DEF Both
  <2> QED
    BY <1>2, <1>3, <1>5, <2>1, <2>2, <2>3 DEF Sets, BothMembers
<1>6. CASE ~Overridden(g) /\ g \in DOMAIN json.value
  <2>1. g \in DOMAIN MergedRoot /\ MergedRoot[g] = json.value[g]
    BY <1>1, <1>6, RootMembers
  <2>2. IsObject(json.value[g])
    BY <2>1, RootGroups
  <2> QED
    BY <1>2, <1>3, <1>6, <2>1, <2>2 DEF Sets, BothMembers
<1>7. CASE ~Overridden(g) /\ g \notin DOMAIN json.value
  <2>1. g \notin DOMAIN MergedRoot
    BY <1>1, <1>7, RootMembers
  <2> QED
    BY <1>2, <1>3, <1>7, <2>1 DEF Sets, BothMembers
<1> QED
  BY <1>4, <1>5, <1>6, <1>7

\* Only the raw trials are merged further.
LEMMA OnlyTrialsMerge ==
    ASSUME Loadable, NEW g \in DOMAIN Groups, NEW k, BothMembers(g, k)
    PROVE  k = "raw_field_trials"
<1>1. g \in DOMAIN MergedRoot /\ k \in DOMAIN MergedRoot[g].value
  BY MemberMerged DEF BothMembers, Sets
<1>2. IsObject(MergedRoot[g].value[k])
  <2>1. MergedRoot[g].value[k] =
           Object(MergeTrials(overrides_json.value[g].value[k].value,
                              json.value[g].value[k].value))
    BY MemberMerged
  <2> QED
    BY <2>1 DEF Object, IsObject
<1>3. k \in DOMAIN Groups[g] /\ Conforms(Groups[g][k], MergedRoot[g].value[k])
  BY <1>1, RootGroups
<1>4. Groups[g][k] = "strings"
  BY <1>2, <1>3, ObjectsConformAsTrials
<1> QED
  BY <1>3, <1>4, OnlyTrialsAreObjects

\* Nothing that the schema does not know is hidden by the overrides.
LEMMA NothingUnknown ==
    ASSUME Loadable
    PROVE  ~Unknown(json) /\ ~Unknown(overrides_json)
<1> DEFINE known == {"schema_version", "profile"} \cup DOMAIN Groups
<1>1. DOMAIN MergedRoot \subseteq known
  BY LoadableRoot DEF WellFormed
<1>2. ASSUME NEW m, m \in DOMAIN json.value \/ Overridden(m)
      PROVE  m \in known
  BY <1>1, <1>2, RootMembers
<1>3. ASSUME NEW g \in DOMAIN Groups, NEW k,
             Names(json, g, k) \/ Names(overrides_json, g, k)
      PROVE  k \in DOMAIN Groups[g]
  <2>1. g \in DOMAIN MergedRoot /\ k \in DOMAIN MergedRoot[g].value
    BY <1>3, MemberMerged DEF Sets
  <2> QED
    BY <2>1, RootGroups
<1> HIDE DEF known
<1>4. ~Unknown(json)
  <2>1. SUFFICES ASSUME NEW m \in DOMAIN json.value,
                        \/ m \notin known
                        \/ /\ m \in DOMAIN Groups /\ IsObject(json.value[m])
                           /\ \E k \in DOMAIN json.value[m].value :
                                 k \notin DOMAIN Groups[m]
                 PROVE  FALSE
    BY DEF Unknown, known
  <2>2. PICK k \in DOMAIN json.value[m].value :
           m \in DOMAIN Groups /\ IsObject(json.value[m]) /\ k \notin DOMAIN Groups[m]
    BY <1>2, <2>1
  <2>3. Names(json, m, k)
    BY <2>2, LoadableRoot DEF Names
  <2> QED
    BY <1>3, <2>2, <2>3
<1>5. ~Unknown(overrides_json)
  <2>1. SUFFICES ASSUME IsObject(overrides_json),
                        NEW m \in DOMAIN overrides_json.value,
                        \/ m \notin known
                        \/ /\ m \in DOMAIN Groups /\ IsObject(overrides_json.value[m])
                           /\ \E k \in DOMAIN overrides_json.value[m].value :
                                 k \notin DOMAIN Groups[m]
                 PROVE  FALSE
    BY DEF Unknown, known
  <2>2. PICK k \in DOMAIN overrides_json.value[m].value :
           /\ m \in DOMAIN Groups /\ IsObject(overrides_json.value[m])
           /\ k \notin DOMAIN Groups[m]
    BY <1>2, <2>1 DEF Overridden
  <2>3. Names(overrides_json, m, k)
    BY <2>1, <2>2 DEF Names
  <2> QED
    BY <1>3, <2>2, <2>3
<1> QED
  BY <1>4, <1>5

\* Raw trials are merged one by one.
MergedTrials == Overlay(TrialsOf(json), TrialsOf(overrides_json))

LEMMA TrialsMerged ==
    ASSUME Loadable, Sets("experimental", "raw_field_trials")
    PROVE  Decoded("strings", MergedRoot["experimental"].value["raw_field_trials"])
              = [k \in DOMAIN MergedTrials |-> MergedTrials[k].value]
<1> DEFINE trials == MergedRoot["experimental"].value["raw_field_trials"]
           over == overrides_json.value["experimental"].value
           base == json.value["experimental"].value
           NamedBy(document) == Names(document, "experimental", "raw_field_trials")
<1>1. "experimental" \in DOMAIN Groups /\ "experimental" # "profile"
  BY GroupDomains
<1>2. /\ IsObject(trials)
      /\ Decoded("strings", trials)
            = [k \in DOMAIN trials.value |-> trials.value[k].value]
  <2>1. Conforms("strings", trials)
    BY <1>1, RootGroups, OnlyTrialsAreObjects DEF Sets
  <2> QED
    BY <2>1, TrialsConform
<1>3. SUFFICES /\ DOMAIN trials.value = DOMAIN MergedTrials
               /\ \A k \in DOMAIN trials.value : trials.value[k] = MergedTrials[k]
  BY <1>2
<1>4. TrialsOf(json) = IF NamedBy(json) /\ IsObject(base["raw_field_trials"])
                       THEN base["raw_field_trials"].value ELSE Empty
  BY DEF TrialsOf
<1>5. TrialsOf(overrides_json) =
         IF NamedBy(overrides_json) /\ IsObject(over["raw_field_trials"])
         THEN over["raw_field_trials"].value ELSE Empty
  BY DEF TrialsOf
<1>6. NamedBy(json) \/ NamedBy(overrides_json)
  BY <1>1, MemberMerged
<1>7. DOMAIN Empty = {}
  BY DEF Empty
<1>8. CASE ~NamedBy(overrides_json)
  <2>1. trials = base["raw_field_trials"] /\ NamedBy(json)
    BY <1>1, <1>6, <1>8, MemberMerged
  <2>2. TrialsOf(json) = trials.value /\ TrialsOf(overrides_json) = Empty
    BY <1>2, <1>4, <1>5, <1>8, <2>1
  <2> HIDE DEF trials
  <2> QED
    BY <1>7, <2>2 DEF MergedTrials, Overlay
<1>9. CASE NamedBy(overrides_json) /\ ~BothMembers("experimental", "raw_field_trials")
  <2>1. trials = over["raw_field_trials"]
    BY <1>1, <1>9, MemberMerged
  <2>2. TrialsOf(overrides_json) = trials.value /\ TrialsOf(json) = Empty
    BY <1>2, <1>4, <1>5, <1>9, <2>1 DEF BothMembers
  <2> HIDE DEF trials
  <2> QED
    BY <1>7, <2>2 DEF MergedTrials, Overlay
<1>10. CASE BothMembers("experimental", "raw_field_trials")
  <2>1. trials = Object(MergeTrials(over["raw_field_trials"].value,
                                    base["raw_field_trials"].value))
    BY <1>1, <1>10, MemberMerged
  <2>2. /\ TrialsOf(overrides_json) = over["raw_field_trials"].value
        /\ TrialsOf(json) = base["raw_field_trials"].value
    BY <1>4, <1>5, <1>10 DEF BothMembers
  <2>3. trials.value = MergedTrials
    BY <2>1, <2>2 DEF Object, MergeTrials, MergedTrials
  <2> QED
    BY <2>3
<1> QED
  BY <1>8, <1>9, <1>10

LEMMA NoTrials ==
    ASSUME Loadable, ~Sets("experimental", "raw_field_trials")
    PROVE  [k \in DOMAIN MergedTrials |-> MergedTrials[k].value] = Empty
<1>1. "experimental" \in DOMAIN Groups
  BY GroupDomains
<1>2. TrialsOf(json) = Empty /\ TrialsOf(overrides_json) = Empty
  BY <1>1, MemberMerged DEF TrialsOf
<1>3. DOMAIN MergedTrials = {}
  BY <1>2 DEF MergedTrials, Overlay, Empty
<1> QED
  BY <1>3 DEF Empty

-----------------------------------------------------------------------------
(* The configuration that is loaded.                                        *)

LEMMA SettingsValues ==
    ASSUME Loadable, NEW g \in DOMAIN Groups, NEW k \in DOMAIN Groups[g]
    PROVE  /\ k \in DOMAIN Settings(MergedRoot) <=> Sets(g, k)
           /\ Sets(g, k) => Settings(MergedRoot)[k]
                              = Decoded(Groups[g][k], MergedRoot[g].value[k])
<1> DEFINE present == DOMAIN MergedRoot \cap DOMAIN Groups
           members(h) == DOMAIN MergedRoot[h].value \cap DOMAIN Groups[h]
           all == UNION {members(h) : h \in present}
           group(m) == CHOOSE h \in present : m \in members(h)
<1>1. Settings(MergedRoot) =
         [m \in all |-> Decoded(Groups[group(m)][m], MergedRoot[group(m)].value[m])]
  BY DEF Settings
<1>2. ASSUME NEW h \in present, k \in members(h)
      PROVE  h = g
  BY <1>2, GroupsDisjoint
<1>3. k \in all <=> Sets(g, k)
  BY <1>2 DEF Sets
<1>4. ASSUME Sets(g, k) PROVE group(k) = g
  <2>1. g \in present /\ k \in members(g)
    BY <1>4 DEF Sets
  <2>2. group(k) \in present /\ k \in members(group(k))
    BY <2>1
  <2> HIDE DEF group, members, present
  <2> QED
    BY <1>2, <2>2
<1> HIDE DEF group, all, members, present
<1> QED
  BY <1>1, <1>3, <1>4

\* No profile sets raw trials.
LEMMA ProfilesSetNoTrials ==
    ASSUME NEW profile \in Profiles, NEW version
    PROVE  "raw_field_trials" \notin DOMAIN ForProfile(profile, version).set
<1>1. ForProfile(profile, version).set =
         IF profile = "UPSTREAM" THEN Empty
         ELSE Overlay(ProfileBase(version), ProfileSpecific[profile])
  BY DEF ForProfile
<1>2. "raw_field_trials" \notin DOMAIN Empty
  BY DEF Empty
<1>3. "raw_field_trials" \notin DOMAIN ProfileBase(version)
  BY DEF ProfileBase, Overlay
<1>4. ASSUME profile # "UPSTREAM"
      PROVE  "raw_field_trials" \notin DOMAIN ProfileSpecific[profile]
  BY <1>4 DEF ProfileSpecific, Profiles
<1>5. CASE profile = "UPSTREAM"
  BY <1>1, <1>2, <1>5
<1>6. CASE profile # "UPSTREAM"
  BY <1>1, <1>3, <1>4, <1>6 DEF Overlay
<1> QED
  BY <1>5, <1>6

LEMMA LoadedConfiguration ==
    ASSUME Loadable
    PROVE  LET loaded == Configuration(MergedRoot)
           IN  /\ loaded.profile = Strongest("profile", "UPSTREAM")
               /\ loaded.profile \in Profiles
               /\ loaded.set = Overlay(ProfileDefaults, Settings(MergedRoot))
               /\ loaded.enabled \in BOOLEAN
               /\ loaded = [ schema_version |-> loaded.schema_version,
                             profile |-> loaded.profile,
                             enabled |-> loaded.enabled, set |-> loaded.set ]
<1> DEFINE root == MergedRoot
           version == root.schema_version.value \div 10
           profile == ProfileNamed(root).value
<1>1. version = Strongest("schema_version", 0) \div 10
  BY RootVersion
<1>2. profile = Strongest("profile", "UPSTREAM") /\ profile \in Profiles
  BY RootProfile, LoadableRoot DEF WellFormed
<1>3. ForProfile(profile, version).set = ProfileDefaults
  BY <1>1, <1>2 DEF ProfileDefaults
<1>4. Configuration(root) =
         [ schema_version |-> version, profile |-> profile,
           enabled |-> profile # "UPSTREAM" \/ Cardinality(DOMAIN root) > 2,
           set |-> Overlay(ForProfile(profile, version).set, Settings(root)) ]
  BY DEF Configuration
<1> HIDE DEF version, profile, root
<1>5. (profile # "UPSTREAM" \/ Cardinality(DOMAIN root) > 2) \in BOOLEAN
  OBVIOUS
<1> QED
  BY <1>2, <1>3, <1>4, <1>5 DEF root

\* What the configuration has of a scalar member.
LEMMA LoadedMember ==
    ASSUME Loadable, NEW g \in DOMAIN Groups,
           NEW k \in DOMAIN Groups[g], k # "raw_field_trials"
    PROVE  LET loaded == Configuration(MergedRoot)
           IN  /\ Has(loaded, k) <=> \/ k \in DOMAIN ProfileDefaults
                                     \/ Names(json, g, k)
                                     \/ Names(overrides_json, g, k)
               /\ Names(overrides_json, g, k) =>
                     loaded.set[k] =
                        Decoded(Groups[g][k], overrides_json.value[g].value[k])
               /\ ~Names(overrides_json, g, k) /\ Names(json, g, k) =>
                     loaded.set[k] = Decoded(Groups[g][k], json.value[g].value[k])
               /\ ~Names(overrides_json, g, k) /\ ~Names(json, g, k) /\ Has(loaded, k) =>
                     loaded.set[k] = ProfileDefaults[k]
<1> DEFINE set == Configuration(MergedRoot).set
           settings == Settings(MergedRoot)
<1>1. set = Overlay(ProfileDefaults, settings)
  BY LoadedConfiguration
<1>2. /\ k \in DOMAIN settings <=> Sets(g, k)
      /\ Sets(g, k) => settings[k] = Decoded(Groups[g][k], MergedRoot[g].value[k])
  BY SettingsValues
<1>3. /\ Sets(g, k) <=> Names(json, g, k) \/ Names(overrides_json, g, k)
      /\ Names(overrides_json, g, k) =>
            MergedRoot[g].value[k] = overrides_json.value[g].value[k]
      /\ Names(json, g, k) /\ ~Names(overrides_json, g, k) =>
            MergedRoot[g].value[k] = json.value[g].value[k]
  BY MemberMerged, OnlyTrialsMerge
<1>4. Has(Configuration(MergedRoot), k) <=> k \in DOMAIN set
  BY DEF Has
<1> HIDE DEF settings
<1>5. /\ k \in DOMAIN set <=> k \in DOMAIN ProfileDefaults \/ k \in DOMAIN settings
      /\ k \in DOMAIN settings => set[k] = settings[k]
      /\ k \in DOMAIN ProfileDefaults \ DOMAIN settings => set[k] = ProfileDefaults[k]
  BY <1>1 DEF Overlay
<1> HIDE DEF set
<1>6. Names(overrides_json, g, k) =>
         set[k] = Decoded(Groups[g][k], overrides_json.value[g].value[k])
  BY <1>2, <1>3, <1>5
<1>7. ~Names(overrides_json, g, k) /\ Names(json, g, k) =>
         set[k] = Decoded(Groups[g][k], json.value[g].value[k])
  BY <1>2, <1>3, <1>5
<1> QED
  BY <1>2, <1>3, <1>4, <1>5, <1>6, <1>7 DEF set

LEMMA LoadedTrials ==
    ASSUME Loadable
    PROVE  RawTrials(Configuration(MergedRoot))
              = [k \in DOMAIN MergedTrials |-> MergedTrials[k].value]
<1> DEFINE set == Configuration(MergedRoot).set
           settings == Settings(MergedRoot)
           sets == Sets("experimental", "raw_field_trials")
<1>1. /\ "experimental" \in DOMAIN Groups
      /\ "raw_field_trials" \in DOMAIN Groups["experimental"]
      /\ Groups["experimental"]["raw_field_trials"] = "strings"
  BY GroupDomains, OnlyTrialsAreObjects
<1>2. "raw_field_trials" \notin DOMAIN ProfileDefaults
  BY LoadedConfiguration, ProfilesSetNoTrials DEF ProfileDefaults
<1>3. /\ "raw_field_trials" \in DOMAIN settings <=> sets
      /\ sets => settings["raw_field_trials"]
                    = Decoded("strings",
                              MergedRoot["experimental"].value["raw_field_trials"])
  BY <1>1, SettingsValues
<1>4. set = Overlay(ProfileDefaults, settings)
  BY LoadedConfiguration
<1>5. RawTrials(Configuration(MergedRoot)) =
         IF "raw_field_trials" \in DOMAIN set THEN set["raw_field_trials"] ELSE Empty
  BY DEF RawTrials, ValueOr, Has
<1> HIDE DEF settings, sets
<1>6. /\ "raw_field_trials" \in DOMAIN set <=> sets
      /\ sets => set["raw_field_trials"] = settings["raw_field_trials"]
  BY <1>2, <1>3, <1>4 DEF Overlay
<1> HIDE DEF set
<1>7. CASE sets
  BY <1>3, <1>5, <1>6, <1>7, TrialsMerged DEF sets
<1>8. CASE ~sets
  BY <1>5, <1>6, <1>8, NoTrials DEF sets
<1> QED
  BY <1>7, <1>8

-----------------------------------------------------------------------------
(* The invariant of a session.                                              *)

\* The configuration is a CastTuningConfig, and valid from the time it is enabled.
ValidWhenEnabled ==
    /\ config = [ schema_version |-> config.schema_version,
                  profile |-> config.profile,
                  enabled |-> config.enabled, set |-> config.set ]
    /\ config.enabled \in BOOLEAN
    /\ status = "loaded" /\ config.enabled => Validate(config)

\* Of the patches that name a field there is a last one.
PatchesInOrder ==
    /\ patches \in Seq(LivePatches)
    /\ status # "loaded" => patches = <<>>
    /\ \A k \in PatchFields :
          Patched(k) # {} => \E i \in Patched(k) : \A j \in Patched(k) : j <= i

JsonInv == PrecedenceHolds /\ ValidWhenEnabled /\ PatchesInOrder

LEMMA JsonInitInv == JsonInit => JsonInv
<1>1. SUFFICES ASSUME JsonInit PROVE JsonInv
  OBVIOUS
<1>2. PrecedenceHolds
  BY <1>1 DEF JsonInit, PrecedenceHolds
<1>3. ValidWhenEnabled
  BY <1>1 DEF JsonInit, ForProfile, ValidWhenEnabled
<1>4. PatchesInOrder
  <2>1. patches = <<>> /\ patches \in Seq(LivePatches)
    BY <1>1 DEF JsonInit
  <2>2. \A k : Patched(k) = {}
    BY <2>1 DEF Patched
  <2> QED
    BY <2>1, <2>2 DEF PatchesInOrder
<1> QED
  BY <1>2, <1>3, <1>4 DEF JsonInv

\* A configuration is loaded with the precedence of its inputs.
LEMMA LoadInv == JsonInv /\ Load => JsonInv'
<1>1. SUFFICES ASSUME JsonInv, Load PROVE JsonInv'
  OBVIOUS
<1>2. /\ json' = json /\ profile_override' = profile_override
      /\ overrides_json' = overrides_json
      /\ patches' = <<>> /\ status = "unloaded"
  BY <1>1 DEF Load, inputs, JsonInv, PatchesInOrder
<1>3. \A k : Patched(k)' = {}
  BY <1>2 DEF Patched
<1>4. PatchesInOrder'
  BY <1>2, <1>3 DEF PatchesInOrder
<1>5. CASE ~Loadable
  <2>1. status' = "refused" /\ config' = config
    BY <1>1, <1>5 DEF Load, Loadable
  <2>2. PrecedenceHolds'
    BY <2>1 DEF PrecedenceHolds
  <2>3. ValidWhenEnabled'
    BY <1>1, <2>1 DEF JsonInv, ValidWhenEnabled
  <2> QED
    BY <1>4, <2>2, <2>3 DEF JsonInv
<1>6. CASE Loadable
  <2> DEFINE loaded == Configuration(MergedRoot)
  <2>1. status' = "loaded" /\ config' = loaded
    BY <1>1, <1>6 DEF Load, Loadable, MergedRoot
  <2>2. ValidWhenEnabled'
    BY <1>6, <2>1, LoadableRoot, LoadedConfiguration DEF ValidWhenEnabled
  <2>3. /\ Strongest("profile", "UPSTREAM")' = Strongest("profile", "UPSTREAM")
        /\ ProfileDefaults' = ProfileDefaults
        /\ \A g, k : /\ Names(json, g, k)' = Names(json, g, k)
                     /\ Names(overrides_json, g, k)' = Names(overrides_json, g, k)
        /\ MergedTrials' = MergedTrials
        /\ Unknown(json)' = Unknown(json)
        /\ Unknown(overrides_json)' = Unknown(overrides_json)
    BY <1>2 DEF Strongest, ProfileDefaults, MergedTrials
  <2>4. ASSUME NEW g \in DOMAIN Groups,
               NEW k \in DOMAIN Groups[g] \ {"raw_field_trials"}
        PROVE  /\ Has(config', k) = Given(g, k)'
               /\ Has(config', k) => config'.set[k] = Expected(g, k)'
    <3>1. /\ Given(g, k)' <=> \/ k \in DOMAIN ProfileDefaults
                              \/ Names(json, g, k) \/ Names(overrides_json, g, k)
          /\ Given(g, k)' \in BOOLEAN /\ Has(config', k) \in BOOLEAN
      BY <1>3, <2>3 DEF Given, Has
    <3>2. Expected(g, k)' =
             IF Names(overrides_json, g, k)
             THEN Decoded(Groups[g][k], overrides_json.value[g].value[k])
             ELSE IF Names(json, g, k)
             THEN Decoded(Groups[g][k], json.value[g].value[k])
             ELSE ProfileDefaults[k]
      BY <1>2, <1>3, <2>3 DEF Expected
    <3> QED
      BY <1>6, <2>1, <3>1, <3>2, LoadedMember
  <2>5. PrecedenceHolds'
    BY <1>6, <2>1, <2>3, <2>4, LoadedConfiguration, LoadedTrials, NothingUnknown
    DEF PrecedenceHolds, MergedTrials
  <2> QED
    BY <1>4, <2>2, <2>5 DEF JsonInv
<1> QED
  BY <1>5, <1>6

-----------------------------------------------------------------------------
(* A live patch.                                                            *)

LEMMA LivePatchFields ==
    ASSUME NEW p \in LivePatches, RequiredScope(p) = "LIVE"
    PROVE  DOMAIN p \subseteq LiveFields
  BY PatchesHaveThePatchFields DEF RequiredScope, PatchFields

LEMMA PatchedAfter ==
    ASSUME JsonInv, NEW p \in LivePatches, patches' = Append(patches, p)
    PROVE  /\ patches' \in Seq(LivePatches)
           /\ \A k : Patched(k) \subseteq 1..Len(patches)
           /\ \A i \in 1..Len(patches) : patches'[i] = patches[i]
           /\ patches'[Len(patches) + 1] = p
           /\ \A k : Patched(k)' = IF k \in DOMAIN p
                                   THEN Patched(k) \cup {Len(patches) + 1}
                                   ELSE Patched(k)
<1>1. patches \in Seq(LivePatches) /\ Len(patches) \in Nat
  BY DEF JsonInv, PatchesInOrder
<1>2. /\ DOMAIN patches = 1..Len(patches)
      /\ patches' \in Seq(LivePatches)
      /\ DOMAIN patches' = 1..(Len(patches) + 1)
      /\ \A i \in 1..Len(patches) : patches'[i] = patches[i]
      /\ patches'[Len(patches) + 1] = p
  BY <1>1
<1>3. \A k : Patched(k) \subseteq 1..Len(patches)
  BY <1>2 DEF Patched
<1>4. ASSUME NEW k
      PROVE  Patched(k)' = IF k \in DOMAIN p
                           THEN Patched(k) \cup {Len(patches) + 1} ELSE Patched(k)
  <2>1. Patched(k)' = {i \in 1..(Len(patches) + 1) : k \in DOMAIN patches'[i]}
    BY <1>2 DEF Patched
  <2>2. Patched(k) = {i \in 1..Len(patches) : k \in DOMAIN patches[i]}
    BY <1>2 DEF Patched
  <2>3. \A i : i \in 1..(Len(patches) + 1)
                 <=> i \in 1..Len(patches) \/ i = Len(patches) + 1
    BY <1>1
  <2>4. Len(patches) + 1 \notin 1..Len(patches)
    BY <1>1
  <2> QED
    BY <1>2, <2>1, <2>2, <2>3, <2>4
<1> QED
  BY <1>2, <1>3, <1>4

LEMMA PatchesInOrderAfter ==
    ASSUME JsonInv, NEW p \in LivePatches, patches' = Append(patches, p),
           status' = "loaded"
    PROVE  PatchesInOrder'
<1>1. Len(patches) \in Nat
  BY DEF JsonInv, PatchesInOrder
<1>2. ASSUME NEW k \in PatchFields, Patched(k)' # {}
      PROVE  \E i \in Patched(k)' : \A j \in Patched(k)' : j <= i
  <2>1. CASE k \in DOMAIN p
    <3>1. Patched(k)' = Patched(k) \cup {Len(patches) + 1}
          /\ Patched(k) \subseteq 1..Len(patches)
      BY <2>1, PatchedAfter
    <3>2. \A j \in Patched(k)' : j <= Len(patches) + 1
      BY <1>1, <3>1
    <3> QED
      BY <3>1, <3>2
  <2>2. CASE k \notin DOMAIN p
    <3>1. Patched(k)' = Patched(k)
      BY <2>2, PatchedAfter
    <3> QED
      BY <1>2, <3>1 DEF JsonInv, PatchesInOrder
  <2> QED
    BY <2>1, <2>2
<1>3. patches' \in Seq(LivePatches)
  BY PatchedAfter
<1> QED
  BY <1>2, <1>3 DEF PatchesInOrder

\* The member a patch names has its value, the others keep theirs.
LEMMA ExpectedAfter ==
    ASSUME JsonInv, NEW p \in LivePatches, patches' = Append(patches, p),
           UNCHANGED inputs, NEW g, NEW k
    PROVE  /\ k \in DOMAIN p => Expected(g, k)' = p[k] /\ Given(g, k)'
           /\ k \notin DOMAIN p =>
                 Expected(g, k)' = Expected(g, k) /\ Given(g, k)' = Given(g, k)
<1>1. Len(patches) \in Nat
  BY DEF JsonInv, PatchesInOrder
<1>2. /\ json' = json /\ overrides_json' = overrides_json
      /\ profile_override' = profile_override
  BY DEF inputs
<1>3. ProfileDefaults' = ProfileDefaults
  BY <1>2 DEF ProfileDefaults, Strongest
<1>4. ASSUME k \in DOMAIN p PROVE Expected(g, k)' = p[k] /\ Given(g, k)'
  <2> DEFINE named == Patched(k)'
             latest == CHOOSE i \in named : \A j \in named : j <= i
  <2>1. named = Patched(k) \cup {Len(patches) + 1} /\ Patched(k) \subseteq 1..Len(patches)
    BY <1>4, PatchedAfter
  <2>2. Expected(g, k)' = patches'[latest][k] /\ Given(g, k)'
    BY <2>1 DEF Expected, Given
  <2> HIDE DEF named
  <2>3. Len(patches) + 1 \in named /\ \A j \in named : j <= Len(patches) + 1
    BY <1>1, <2>1
  <2>4. latest \in named /\ \A j \in named : j <= latest
    BY <2>3
  <2> HIDE DEF latest
  <2>5. latest = Len(patches) + 1
    BY <1>1, <2>1, <2>3, <2>4
  <2> QED
    BY <2>2, <2>5, PatchedAfter
<1>5. ASSUME k \notin DOMAIN p
      PROVE  Expected(g, k)' = Expected(g, k) /\ Given(g, k)' = Given(g, k)
  <2> DEFINE latest == CHOOSE i \in Patched(k) : \A j \in Patched(k) : j <= i
  <2>1. Patched(k)' = Patched(k) /\ Patched(k) \subseteq 1..Len(patches)
    BY <1>5, PatchedAfter
  <2>2. Given(g, k)' = Given(g, k)
    BY <1>2, <1>3, <2>1 DEF Given
  <2>3. CASE Patched(k) = {}
    <3> DEFINE unpatched ==
                 IF Names(overrides_json, g, k)
                 THEN Decoded(Groups[g][k], overrides_json.value[g].value[k])
                 ELSE IF Names(json, g, k)
                 THEN Decoded(Groups[g][k], json.value[g].value[k])
                 ELSE ProfileDefaults[k]
    <3>1. unpatched' = unpatched
      BY <1>2, <1>3
    <3>2. Expected(g, k) = unpatched
      BY <2>3 DEF Expected
    <3>3. Expected(g, k)' = unpatched'
      BY <2>1, <2>3 DEF Expected
    <3> QED
      BY <2>2, <3>1, <3>2, <3>3
  <2>4. CASE Patched(k) # {}
    <3>1. Expected(g, k)' = patches'[latest][k] /\ Expected(g, k) = patches[latest][k]
      BY <2>1, <2>4 DEF Expected
    <3>2. k \in PatchFields
      <4>1. PICK i \in Patched(k) : TRUE
        BY <2>4
      <4>2. patches[i] \in LivePatches /\ k \in DOMAIN patches[i]
        BY <2>1, <4>1 DEF Patched, JsonInv, PatchesInOrder
      <4> QED
        BY <4>2, PatchesHaveThePatchFields
    <3>3. \E i \in Patched(k) : \A j \in Patched(k) : j <= i
      BY <2>4, <3>2 DEF JsonInv, PatchesInOrder
    <3>4. latest \in 1..Len(patches)
      BY <2>1, <3>3
    <3> HIDE DEF latest
    <3>5. patches'[latest] = patches[latest]
      BY <3>4, PatchedAfter
    <3> QED
      BY <2>2, <3>1, <3>5
  <2> QED
    BY <2>2, <2>3, <2>4
<1> QED
  BY <1>4, <1>5

LEMMA PatchInv ==
    ASSUME JsonInv, NEW p \in LivePatches, Patch(p)
    PROVE  JsonInv'
<1>1. /\ status = "loaded" /\ status' = "loaded"
      /\ Accepts(config, p) /\ config' = MergeConfig(config, p)
      /\ patches' = Append(patches, p) /\ UNCHANGED inputs
  BY DEF Patch
<1>2. /\ json' = json /\ overrides_json' = overrides_json
      /\ profile_override' = profile_override
  BY <1>1 DEF inputs
<1>3. DOMAIN p \subseteq LiveFields
  BY <1>1, LivePatchFields DEF Accepts
<1>4. /\ config'.schema_version = config.schema_version
      /\ config'.profile = config.profile /\ config'.enabled = TRUE
      /\ config'.set = Overlay(config.set, LivePart(p))
      /\ config' = [ schema_version |-> config.schema_version,
                     profile |-> config.profile, enabled |-> TRUE,
                     set |-> Overlay(config.set, LivePart(p)) ]
  BY <1>1 DEF MergeConfig
<1>5. ASSUME NEW k
      PROVE  /\ k \in DOMAIN config'.set <=> k \in DOMAIN config.set \/ k \in DOMAIN p
             /\ k \in DOMAIN p => config'.set[k] = p[k]
             /\ k \in DOMAIN config.set \ DOMAIN p => config'.set[k] = config.set[k]
  BY <1>3, <1>4 DEF Overlay, LivePart
<1>6. ValidWhenEnabled'
  <2>1. Validate(config')
    BY <1>1 DEF Accepts
  <2> QED
    BY <1>4, <2>1 DEF ValidWhenEnabled
<1>7. PrecedenceHolds'
  <2>1. /\ ~Unknown(json) /\ ~Unknown(overrides_json)
        /\ config.profile = Strongest("profile", "UPSTREAM")
        /\ RawTrials(config) = [k \in DOMAIN MergedTrials |-> MergedTrials[k].value]
    BY <1>1 DEF JsonInv, PrecedenceHolds, MergedTrials
  <2>2. \A g \in DOMAIN Groups : \A k \in DOMAIN Groups[g] \ {"raw_field_trials"} :
           /\ Has(config, k) = Given(g, k)
           /\ Has(config, k) => config.set[k] = Expected(g, k)
    BY <1>1 DEF JsonInv, PrecedenceHolds
  <2>3. Strongest("profile", "UPSTREAM")' = Strongest("profile", "UPSTREAM")
        /\ MergedTrials' = MergedTrials
    BY <1>2 DEF Strongest, MergedTrials
  <2>4. RawTrials(config') = RawTrials(config)
    <3>1. "raw_field_trials" \notin DOMAIN p
      BY <1>3 DEF LiveFields
    <3>2. /\ "raw_field_trials" \in DOMAIN config'.set
                <=> "raw_field_trials" \in DOMAIN config.set
          /\ "raw_field_trials" \in DOMAIN config.set =>
                config'.set["raw_field_trials"] = config.set["raw_field_trials"]
      BY <1>5, <3>1
    <3> QED
      BY <3>2 DEF RawTrials, ValueOr, Has
  <2>5. ASSUME NEW g \in DOMAIN Groups,
               NEW k \in DOMAIN Groups[g] \ {"raw_field_trials"}
        PROVE  /\ Has(config', k) = Given(g, k)'
               /\ Has(config', k) => config'.set[k] = Expected(g, k)'
    <3>1. CASE k \in DOMAIN p
      <4>1. Expected(g, k)' = p[k] /\ Given(g, k)'
        BY <1>1, <3>1, ExpectedAfter
      <4>2. Has(config', k) /\ config'.set[k] = p[k]
        BY <1>5, <3>1 DEF Has
      <4>3. Given(g, k)' = TRUE
        BY <4>1 DEF Given
      <4> QED
        BY <4>1, <4>2, <4>3 DEF Has
    <3>2. CASE k \notin DOMAIN p
      <4>1. Expected(g, k)' = Expected(g, k) /\ Given(g, k)' = Given(g, k)
        BY <1>1, <3>2, ExpectedAfter
      <4>2. /\ Has(config', k) = Has(config, k)
            /\ Has(config, k) => config'.set[k] = config.set[k]
        BY <1>5, <3>2 DEF Has
      <4>3. /\ Has(config, k) = Given(g, k)
            /\ Has(config, k) => config.set[k] = Expected(g, k)
        BY <2>2
      <4> QED
        BY <4>1, <4>2, <4>3
    <3> QED
      BY <3>1, <3>2
  <2>6. /\ ~Unknown(json') /\ ~Unknown(overrides_json')
        /\ config'.profile = Strongest("profile", "UPSTREAM")'
        /\ RawTrials(config') = [k \in DOMAIN MergedTrials' |-> MergedTrials'[k].value]
    BY <1>2, <1>4, <2>1, <2>3, <2>4
  <2> QED
    BY <2>5, <2>6 DEF PrecedenceHolds, MergedTrials
<1>8. PatchesInOrder'
  BY <1>1, PatchesInOrderAfter
<1> QED
  BY <1>6, <1>7, <1>8 DEF JsonInv

LEMMA JsonStutterInv == JsonInv /\ UNCHANGED jsonVars => JsonInv'
<1>1. SUFFICES ASSUME JsonInv, UNCHANGED jsonVars PROVE JsonInv'
  OBVIOUS
<1>2. /\ json' = json /\ overrides_json' = overrides_json
      /\ profile_override' = profile_override
      /\ status' = status /\ config' = config /\ patches' = patches
  BY <1>1 DEF jsonVars, inputs
<1>3. PrecedenceHolds'
  <2>1. /\ \A k : Patched(k)' = Patched(k)
        /\ Strongest("profile", "UPSTREAM")' = Strongest("profile", "UPSTREAM")
        /\ ProfileDefaults' = ProfileDefaults
    BY <1>2 DEF Patched, Strongest, ProfileDefaults
  <2>2. ASSUME NEW g, NEW k
        PROVE  Expected(g, k)' = Expected(g, k) /\ Given(g, k)' = Given(g, k)
    <3> DEFINE latest == CHOOSE i \in Patched(k) : \A j \in Patched(k) : j <= i
               unpatched ==
                 IF Names(overrides_json, g, k)
                 THEN Decoded(Groups[g][k], overrides_json.value[g].value[k])
                 ELSE IF Names(json, g, k)
                 THEN Decoded(Groups[g][k], json.value[g].value[k])
                 ELSE ProfileDefaults[k]
    <3>1. unpatched' = unpatched
      BY <1>2, <2>1
    <3>2. Given(g, k)' = Given(g, k)
      BY <1>2, <2>1 DEF Given
    <3>3. CASE Patched(k) = {}
      <4>1. Expected(g, k) = unpatched
        BY <3>3 DEF Expected
      <4>2. Expected(g, k)' = unpatched'
        BY <2>1, <3>3 DEF Expected
      <4> QED
        BY <3>1, <3>2, <4>1, <4>2
    <3>4. CASE Patched(k) # {}
      <4>1. Expected(g, k) = patches[latest][k]
        BY <3>4 DEF Expected
      <4>2. Expected(g, k)' = patches[latest][k]
        BY <1>2, <2>1, <3>4 DEF Expected
      <4> QED
        BY <3>2, <4>1, <4>2
    <3> QED
      BY <3>3, <3>4
  <2> QED
    BY <1>1, <1>2, <2>1, <2>2, Zenon DEF JsonInv, PrecedenceHolds
<1>4. ValidWhenEnabled'
  BY <1>1, <1>2 DEF JsonInv, ValidWhenEnabled
<1>5. PatchesInOrder'
  BY <1>1, <1>2 DEF JsonInv, PatchesInOrder, Patched
<1> QED
  BY <1>3, <1>4, <1>5 DEF JsonInv

LEMMA SpecJsonInv == JsonSpec => []JsonInv
<1>1. JsonInv /\ [JsonNext]_jsonVars => JsonInv'
  BY LoadInv, PatchInv, JsonStutterInv DEF JsonNext
<1> QED
  BY JsonInitInv, <1>1, PTL DEF JsonSpec

\* Precedence is fixed (shim design, 21-27): whatever the texts and the live patches
\* of a session, each member of its configuration is that of the strongest layer that
\* names it, and a member that the schema does not know refuses them
\* (cast_tuning_json.cc:22, 405-488, cast_tuning_controller.cc:216).
THEOREM SpecPrecedenceHolds == JsonSpec => []PrecedenceHolds
<1>1. JsonInv => PrecedenceHolds
  BY DEF JsonInv
<1> QED
  BY <1>1, SpecJsonInv, PTL

-----------------------------------------------------------------------------
(* The trials of the factory.                                               *)

\* Two configurations with the same members but for the live ones.
SameButLive(a, b) ==
    /\ a.schema_version = b.schema_version /\ a.profile = b.profile
    /\ \A f : f \notin LiveFields =>
          /\ f \in DOMAIN a.set <=> f \in DOMAIN b.set
          /\ f \in DOMAIN a.set => a.set[f] = b.set[f]
    /\ "max_qp" \notin DOMAIN a.set /\ "max_qp" \notin DOMAIN b.set

LEMMA SameValues ==
    ASSUME NEW a, NEW b, SameButLive(a, b), NEW f,
           f \notin LiveFields \/ f = "max_qp"
    PROVE  /\ Has(a, f) <=> Has(b, f)
           /\ ValueOr(a, f, TRUE) = ValueOr(b, f, TRUE)
           /\ ValueOr(a, f, FALSE) = ValueOr(b, f, FALSE)
           /\ ValueOr(a, f, Empty) = ValueOr(b, f, Empty)
           /\ \A n \in Int : ValueOr(a, f, n) = ValueOr(b, f, n)
<1>1. /\ Has(a, f) <=> Has(b, f)
      /\ Has(a, f) => a.set[f] = b.set[f]
  BY DEF SameButLive, Has
<1>2. CASE Has(a, f)
  BY <1>1, <1>2, Zenon DEF ValueOr
<1>3. CASE ~Has(a, f)
  BY <1>1, <1>3, Zenon DEF ValueOr
<1> QED
  BY <1>1, <1>2, <1>3, Zenon

LEMMA SameTrials ==
    ASSUME NEW a, NEW b, SameButLive(a, b)
    PROVE  /\ ProbingTrial(a) = ProbingTrial(b)
           /\ PacingTrial(a) = PacingTrial(b)
           /\ RecoveryTrial(a) = RecoveryTrial(b)
           /\ VideoToolboxTrial(a) = VideoToolboxTrial(b)
           /\ RawTrials(a) = RawTrials(b)
<1> DEFINE fields == {"factor", "max_queue_ms", "raw_field_trials", "nack_enabled",
                      "nack_history_ms", "rtx_enabled", "fec_mode",
                      "pli_min_interval_ms"} \cup VideoToolboxKeys
<1>1. \A f \in fields : f \notin LiveFields \/ f = "max_qp"
  BY DEF VideoToolboxKeys, LiveFields
<1>2. /\ \A f \in fields : ValueOr(a, f, TRUE) = ValueOr(b, f, TRUE)
      /\ \A f \in fields : ValueOr(a, f, FALSE) = ValueOr(b, f, FALSE)
      /\ \A f \in fields : ValueOr(a, f, Empty) = ValueOr(b, f, Empty)
      /\ \A f \in fields : \A n \in Int : ValueOr(a, f, n) = ValueOr(b, f, n)
  <2>1. ASSUME NEW f \in fields
        PROVE  /\ ValueOr(a, f, TRUE) = ValueOr(b, f, TRUE)
               /\ ValueOr(a, f, FALSE) = ValueOr(b, f, FALSE)
               /\ ValueOr(a, f, Empty) = ValueOr(b, f, Empty)
               /\ \A n \in Int : ValueOr(a, f, n) = ValueOr(b, f, n)
    <3>1. f \notin LiveFields \/ f = "max_qp"
      BY <1>1
    <3> HIDE DEF fields
    <3> QED
      BY <3>1, SameValues, Zenon
  <2> HIDE DEF fields
  <2> QED
    BY <2>1, Zenon
<1>3. /\ ValueOr(a, "factor", 11) = ValueOr(b, "factor", 11)
      /\ ValueOr(a, "max_queue_ms", 100) = ValueOr(b, "max_queue_ms", 100)
      /\ ValueOr(a, "nack_history_ms", 1000) = ValueOr(b, "nack_history_ms", 1000)
      /\ ValueOr(a, "fec_mode", 0) = ValueOr(b, "fec_mode", 0)
      /\ ValueOr(a, "pli_min_interval_ms", 500) = ValueOr(b, "pli_min_interval_ms", 500)
  BY <1>2
<1>4. /\ ValueOr(a, "periodic_idr_seconds", 0) = ValueOr(b, "periodic_idr_seconds", 0)
      /\ ValueOr(a, "max_h264_slice_bytes", 0) = ValueOr(b, "max_h264_slice_bytes", 0)
      /\ ValueOr(a, "data_rate_limit_factor", 15)
            = ValueOr(b, "data_rate_limit_factor", 15)
      /\ ValueOr(a, "data_rate_window_ms", 1000) = ValueOr(b, "data_rate_window_ms", 1000)
      /\ ValueOr(a, "max_frame_delay_count", -1) = ValueOr(b, "max_frame_delay_count", -1)
      /\ ValueOr(a, "max_qp", -1) = ValueOr(b, "max_qp", -1)
      /\ ValueOr(a, "video_toolbox_spatial_adaptive_qp", -1)
            = ValueOr(b, "video_toolbox_spatial_adaptive_qp", -1)
  BY <1>2 DEF VideoToolboxKeys
<1>5. /\ ValueOr(a, "nack_enabled", TRUE) = ValueOr(b, "nack_enabled", TRUE)
      /\ ValueOr(a, "rtx_enabled", TRUE) = ValueOr(b, "rtx_enabled", TRUE)
      /\ ValueOr(a, "realtime", TRUE) = ValueOr(b, "realtime", TRUE)
      /\ ValueOr(a, "allow_frame_reordering", FALSE)
            = ValueOr(b, "allow_frame_reordering", FALSE)
      /\ ValueOr(a, "video_toolbox_low_latency_rate_control", FALSE)
            = ValueOr(b, "video_toolbox_low_latency_rate_control", FALSE)
      /\ ValueOr(a, "raw_field_trials", Empty) = ValueOr(b, "raw_field_trials", Empty)
  BY <1>2, Zenon DEF VideoToolboxKeys
<1>6. ProbingTrial(a) = ProbingTrial(b) /\ PacingTrial(a) = PacingTrial(b)
  BY <1>3, SMT DEF ProbingTrial, PacingTrial
<1>7. RecoveryTrial(a) = RecoveryTrial(b)
  <2> DEFINE nack(c) == ValueOr(c, "nack_enabled", TRUE)
             history(c) == ValueOr(c, "nack_history_ms", 1000)
             rtx(c) == ValueOr(c, "rtx_enabled", TRUE)
             fec(c) == ValueOr(c, "fec_mode", 0)
             interval(c) == ValueOr(c, "pli_min_interval_ms", 500)
             trial(c) == [ nack |-> nack(c), nack_history_ms |-> history(c),
                           rtx |-> rtx(c), fec |-> fec(c),
                           pli_min_interval_ms |-> interval(c) ]
  <2>1. /\ nack(a) = nack(b) /\ history(a) = history(b) /\ rtx(a) = rtx(b)
        /\ fec(a) = fec(b) /\ interval(a) = interval(b)
    BY <1>3, <1>5
  <2>2. RecoveryTrial(a) = trial(a) /\ RecoveryTrial(b) = trial(b)
    BY Zenon DEF RecoveryTrial
  <2> HIDE DEF nack, history, rtx, fec, interval
  <2>3. trial(a) = trial(b)
    BY <2>1, Zenon
  <2> HIDE DEF trial
  <2> QED
    BY <2>2, <2>3
<1>8. VideoToolboxTrial(a) = VideoToolboxTrial(b)
  <2> DEFINE realtime(c) == ValueOr(c, "realtime", TRUE)
             reorder(c) == ValueOr(c, "allow_frame_reordering", FALSE)
             idr(c) == ValueOr(c, "periodic_idr_seconds", 0)
             slice(c) == ValueOr(c, "max_h264_slice_bytes", 0)
             rate(c) == ValueOr(c, "data_rate_limit_factor", 15)
             window(c) == ValueOr(c, "data_rate_window_ms", 1000)
             delay(c) == ValueOr(c, "max_frame_delay_count", -1)
             qp(c) == ValueOr(c, "max_qp", -1)
             latency(c) ==
                ValueOr(c, "video_toolbox_low_latency_rate_control", FALSE)
             adaptive(c) == ValueOr(c, "video_toolbox_spatial_adaptive_qp", -1)
             trial(c) == [ realtime |-> realtime(c), reorder |-> reorder(c),
                           idr_s |-> idr(c), slice_bytes |-> slice(c),
                           rate_factor |-> rate(c), rate_window_ms |-> window(c),
                           frame_delay |-> delay(c), max_qp |-> qp(c),
                           low_latency_rate_control |-> latency(c),
                           spatial_adaptive_qp |-> adaptive(c) ]
  <2>1. /\ realtime(a) = realtime(b) /\ reorder(a) = reorder(b)
        /\ latency(a) = latency(b)
    BY <1>5
  <2>2. /\ idr(a) = idr(b) /\ slice(a) = slice(b) /\ rate(a) = rate(b)
        /\ window(a) = window(b) /\ delay(a) = delay(b) /\ qp(a) = qp(b)
        /\ adaptive(a) = adaptive(b)
    BY <1>4
  <2>3. VideoToolboxTrial(a) = trial(a) /\ VideoToolboxTrial(b) = trial(b)
    BY Zenon DEF VideoToolboxTrial
  <2> HIDE DEF realtime, reorder, idr, slice, rate, window, delay, qp, latency,
               adaptive
  <2>4. trial(a) = trial(b)
    BY <2>1, <2>2, Zenon
  <2> HIDE DEF trial
  <2> QED
    BY <2>3, <2>4
<1>9. RawTrials(a) = RawTrials(b)
  BY <1>5 DEF RawTrials
<1> QED
  BY <1>6, <1>7, <1>8, <1>9

LEMMA SameTrialsOn ==
    ASSUME NEW a, NEW b, SameButLive(a, b), NEW trial \in TypedTrials
    PROVE  TrialOn(a, trial) <=> TrialOn(b, trial)
<1>1. /\ \A f \in VideoToolboxKeys : Has(a, f) <=> Has(b, f)
      /\ \A f \in {"nack_enabled", "rtx_enabled", "fec_mode"} : Has(a, f) <=> Has(b, f)
      /\ Has(a, "factor") <=> Has(b, "factor")
      /\ Has(a, "max_queue_ms") <=> Has(b, "max_queue_ms")
  BY SameValues DEF VideoToolboxKeys, LiveFields
<1>2. ValueOr(a, "screenshare_alr_probing", FALSE)
         = ValueOr(b, "screenshare_alr_probing", FALSE)
  <2>1. "screenshare_alr_probing" \notin LiveFields
    BY DEF LiveFields
  <2> QED
    BY <2>1, SameValues, Zenon
<1>3. /\ "WebRTC-ProbingScreenshareBwe" # "WebRTC-Video-Pacing"
      /\ "WebRTC-ProbingScreenshareBwe" # "WebRTC-CastTuning-Recovery"
      /\ "WebRTC-ProbingScreenshareBwe" # "WebRTC-CastTuning-VideoToolbox"
      /\ "WebRTC-Video-Pacing" # "WebRTC-CastTuning-Recovery"
      /\ "WebRTC-Video-Pacing" # "WebRTC-CastTuning-VideoToolbox"
      /\ "WebRTC-CastTuning-Recovery" # "WebRTC-CastTuning-VideoToolbox"
  OBVIOUS
<1>4. CASE trial = "WebRTC-ProbingScreenshareBwe"
  BY <1>2, <1>3, <1>4, Zenon DEF TrialOn
<1>5. CASE trial = "WebRTC-Video-Pacing"
  BY <1>1, <1>3, <1>5, Zenon DEF TrialOn
<1>6. CASE trial = "WebRTC-CastTuning-Recovery"
  BY <1>1, <1>3, <1>6, Zenon DEF TrialOn
<1>7. CASE trial = "WebRTC-CastTuning-VideoToolbox"
  BY <1>1, <1>3, <1>7, Zenon DEF TrialOn
<1> QED
  BY <1>4, <1>5, <1>6, <1>7 DEF TypedTrials

LEMMA SameFieldTrials ==
    ASSUME NEW a, NEW b, SameButLive(a, b),
           a.enabled = TRUE, b.enabled = TRUE, Validate(a), Validate(b)
    PROVE  FieldTrials(a) = FieldTrials(b)
<1> DEFINE on(c) == {t \in TypedTrials : TrialOn(c, t)} \cup DOMAIN RawTrials(c)
           value(c, trial) ==
             CASE trial = "WebRTC-ProbingScreenshareBwe" -> ProbingTrial(c)
               [] trial = "WebRTC-Video-Pacing" -> PacingTrial(c)
               [] trial = "WebRTC-CastTuning-Recovery" -> RecoveryTrial(c)
               [] trial = "WebRTC-CastTuning-VideoToolbox" -> VideoToolboxTrial(c)
               [] OTHER -> RawTrials(c)[trial]
<1>1. ~IsUpstream(a) /\ ~IsUpstream(b)
  BY DEF IsUpstream
<1>2. FieldTrials(a) = [trial \in on(a) |-> value(a, trial)]
  BY <1>1, Zenon DEF FieldTrials
<1>3. FieldTrials(b) = [trial \in on(b) |-> value(b, trial)]
  BY <1>1, Zenon DEF FieldTrials
<1>4. on(a) = on(b)
  BY SameTrials, SameTrialsOn
<1>5. ASSUME NEW trial PROVE value(a, trial) = value(b, trial)
  BY SameTrials, Zenon
<1> HIDE DEF on, value
<1> QED
  BY <1>2, <1>3, <1>4, <1>5

\* Without its QP cap a valid configuration is valid.
LEMMA ValidWithoutQp ==
    ASSUME NEW c, Validate(c), c.enabled = TRUE,
           c = [ schema_version |-> c.schema_version, profile |-> c.profile,
                 enabled |-> c.enabled, set |-> c.set ]
    PROVE  /\ Validate(WithoutQp(c))
           /\ WithoutQp(c).schema_version = c.schema_version
           /\ WithoutQp(c).profile = c.profile
           /\ WithoutQp(c).enabled = TRUE
           /\ WithoutQp(c).set = [f \in DOMAIN c.set \ {"max_qp"} |-> c.set[f]]
<1> DEFINE w == WithoutQp(c)
<1>1. w = [ schema_version |-> c.schema_version, profile |-> c.profile,
            enabled |-> c.enabled,
            set |-> [f \in DOMAIN c.set \ {"max_qp"} |-> c.set[f]] ]
  BY DEF WithoutQp
<1> HIDE DEF w
<1>2. /\ w.schema_version = c.schema_version /\ w.profile = c.profile
      /\ w.enabled = TRUE
      /\ DOMAIN w.set = DOMAIN c.set \ {"max_qp"}
      /\ \A f \in DOMAIN w.set : w.set[f] = c.set[f]
  BY <1>1
<1>3. ASSUME NEW f, f # "max_qp"
      PROVE  /\ Has(w, f) = Has(c, f)
             /\ \A default : ValueOr(w, f, default) = ValueOr(c, f, default)
             /\ Has(c, f) => w.set[f] = c.set[f]
  BY <1>2, <1>3 DEF Has, ValueOr
<1>4. /\ c.schema_version \in kMinimumTuningSchemaVersion..kTuningSchemaVersion
      /\ InRange(c) /\ FpsOrdered(c) /\ BitratesOrdered(c) /\ H264Known(c)
      /\ VideoToolboxConsistent(c) /\ RecoveryConsistent(c) /\ RawTrialsAllowed(c)
  BY DEF Validate, IsUpstream
<1>5. InRange(w)
  BY <1>2, <1>4 DEF InRange
<1>6. FpsOrdered(w)
  BY <1>3, <1>4 DEF FpsOrdered
<1>7. BitratesOrdered(w)
  BY <1>3, <1>4 DEF BitratesOrdered
<1>8. H264Known(w)
  BY <1>3, <1>4 DEF H264Known
<1>9. VideoToolboxConsistent(w)
  BY <1>2, <1>3, <1>4 DEF VideoToolboxConsistent
<1>10. RecoveryConsistent(w)
  BY <1>3, <1>4 DEF RecoveryConsistent
<1>11. RawTrialsAllowed(w)
  BY <1>3, <1>4 DEF RawTrialsAllowed, RawTrials
<1>12. Validate(w)
  BY <1>2, <1>4, <1>5, <1>6, <1>7, <1>8, <1>9, <1>10, <1>11 DEF Validate
<1> QED
  BY <1>1, <1>2, <1>12 DEF w

\* README.md:88-92, a live patch does not touch the trials of the factory, whatever
\* the documents and the patches (cast_tuning_config.cc:327, 470).
THEOREM SpecPatchesKeepTrials == JsonSpec => PatchesKeepTrials
<1>1. ASSUME JsonInv, [JsonNext]_jsonVars, status = "loaded" /\ config.enabled,
             config' # config
      PROVE  FieldTrials(WithoutQp(config')) = FieldTrials(WithoutQp(config))
  <2>1. PICK p \in LivePatches : Patch(p)
    BY <1>1 DEF JsonNext, Load, jsonVars
  <2>2. JsonInv'
    BY <1>1, <2>1, PatchInv
  <2>3. /\ DOMAIN p \subseteq LiveFields /\ status' = "loaded"
        /\ config' = MergeConfig(config, p)
    BY <2>1, LivePatchFields DEF Patch, Accepts
  <2>4. /\ config.enabled = TRUE /\ Validate(config)
        /\ config = [ schema_version |-> config.schema_version,
                      profile |-> config.profile,
                      enabled |-> config.enabled, set |-> config.set ]
    BY <1>1 DEF JsonInv, ValidWhenEnabled
  <2>5. /\ config'.schema_version = config.schema_version
        /\ config'.profile = config.profile /\ config'.enabled = TRUE
        /\ config'.set = Overlay(config.set, LivePart(p))
    BY <2>3 DEF MergeConfig
  <2>6. /\ Validate(config')
        /\ config' = [ schema_version |-> config'.schema_version,
                       profile |-> config'.profile,
                       enabled |-> config'.enabled, set |-> config'.set ]
    BY <2>2, <2>3, <2>5 DEF JsonInv, ValidWhenEnabled
  <2>7. ASSUME NEW f, f \notin LiveFields
        PROVE  /\ f \in DOMAIN config'.set <=> f \in DOMAIN config.set
               /\ f \in DOMAIN config.set => config'.set[f] = config.set[f]
    BY <2>5, <2>7 DEF Overlay, LivePart
  <2> DEFINE before == WithoutQp(config)
             after == WithoutQp(config')
  <2>8. /\ Validate(before) /\ before.enabled = TRUE
        /\ before.schema_version = config.schema_version
        /\ before.profile = config.profile
        /\ before.set = [f \in DOMAIN config.set \ {"max_qp"} |-> config.set[f]]
    BY <2>4, ValidWithoutQp
  <2>9. /\ Validate(after) /\ after.enabled = TRUE
        /\ after.schema_version = config.schema_version
        /\ after.profile = config.profile
        /\ after.set = [f \in DOMAIN config'.set \ {"max_qp"} |-> config'.set[f]]
    BY <2>5, <2>6, ValidWithoutQp
  <2> HIDE DEF before, after
  <2>10. SameButLive(after, before)
    BY <2>7, <2>8, <2>9 DEF SameButLive, LiveFields
  <2>11. FieldTrials(after) = FieldTrials(before)
    BY <2>8, <2>9, <2>10, SameFieldTrials
  <2> QED
    BY <2>11 DEF before, after
<1>2. JsonInv /\ [JsonNext]_jsonVars
         => [ status = "loaded" /\ config.enabled =>
                FieldTrials(WithoutQp(config')) = FieldTrials(WithoutQp(config)) ]_jsonVars
  <2>1. SUFFICES ASSUME JsonInv, [JsonNext]_jsonVars, status = "loaded" /\ config.enabled
                 PROVE  FieldTrials(WithoutQp(config')) = FieldTrials(WithoutQp(config))
    OBVIOUS
  <2>2. CASE config' = config
    BY <2>2
  <2> QED
    BY <1>1, <2>1, <2>2
<1> QED
  BY <1>2, SpecJsonInv, PTL DEF JsonSpec, PatchesKeepTrials
=============================================================================
