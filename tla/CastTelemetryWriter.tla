-------------------------- MODULE CastTelemetryWriter --------------------------
(***************************************************************************)
(* cast_tuning_telemetry.{h,cc}: the JSONL sink.  Client threads put       *)
(* events in a queue, one writer thread appends them to a file; both sides *)
(* share a mutex and two condition variables.  The owner constructs the    *)
(* sink, and destroys it when the last client has given up its reference   *)
(* (the controller and the encoder evidence hold it by shared_ptr).        *)
(*                                                                         *)
(* A step is one critical section, or one statement outside of one.  A     *)
(* thread whose pc is in Contending needs mutex_ for its next step.        *)
(***************************************************************************)
EXTENDS Naturals, Sequences

CONSTANTS
    Clients,      \* threads that emit and flush
    Owner,        \* the thread that constructs and destroys the sink
    Writer,       \* writer_thread_
    MaxEvents,    \* bound on the calls of Emit
    EarlyThread   \* whether the new thread may run before the constructor of
                  \* the sink has returned

ASSUME ThreadsDistinct ==
    Owner \notin Clients /\ Writer \notin Clients /\ Owner # Writer
ASSUME BoundsTyped == MaxEvents \in Nat /\ EarlyThread \in BOOLEAN

Threads == Clients \cup {Owner, Writer}
Nobody == "nobody"

VARIABLES
    mutex_, queue_, stopping_, writing_, write_failures_,
    output_,    \* state of the ofstream: "good", or "bad" for ever
    disk,       \* "answers", or "stalled" for ever: a write does not return
    file,       \* the lines of the JSONL file
    event,      \* the event in the hands of Run
    pc,
    emits,      \* calls of Emit
    accepted    \* events put in the queue; an event is its number

sinkVars == <<mutex_, queue_, stopping_, writing_, write_failures_, output_, disk,
          file, event, pc, emits, accepted>>
memory == <<stopping_, writing_, write_failures_>>

\* The default member initialisers that run after writer_thread_ exists, in
\* their order of declaration.
Uninitialized == {"write_failures_", "writing_", "stopping_"}
Contending == {"emit", "flush", "stop", "run", "account", "exit"}

Constructed == pc[Owner] \notin Uninitialized

\* mutex_, output_ and the queue are declared before the thread.  The members
\* declared after it hold whatever the memory held.
SinkInit ==
    /\ mutex_ = Nobody /\ queue_ = <<>>
    /\ stopping_ \in BOOLEAN /\ writing_ \in BOOLEAN
    /\ write_failures_ \in {0, MaxEvents}
    /\ output_ \in {"good", "bad"}       \* "bad": the path cannot be opened
    /\ disk = "answers" /\ file = <<>> /\ event = 0
    /\ pc = [t \in Threads |-> CASE t = Owner  -> "write_failures_"
                                 [] t = Writer -> "start"
                                 [] OTHER      -> "idle"]
    /\ emits = 0 /\ accepted = 0

Goto(t, label) == pc' = [pc EXCEPT ![t] = label]

-----------------------------------------------------------------------------
(* The mutex and the condition variables.                                   *)

Lock(t) ==
    /\ pc[t] \in Contending
    /\ mutex_ = Nobody
    /\ mutex_' = t
    /\ UNCHANGED <<queue_, memory, output_, disk, file, event, pc, emits,
                   accepted>>

Holds(t, label) == pc[t] = label /\ mutex_ = t
Unlock == mutex_' = Nobody

\* notify_all on drained_: every thread in Flush takes the mutex again.
NotifyDrained(label) ==
    pc' = [t \in Threads |-> IF t = Writer THEN label
                             ELSE IF pc[t] = "flush_wait" THEN "flush"
                             ELSE pc[t]]

\* notify_one on work_available_: only the writer thread waits there.
NotifyWork(t, label) ==
    pc' = [pc EXCEPT ![t] = label,
                     ![Writer] = IF @ = "run_wait" THEN "run" ELSE @]

SpuriousWakeup(t) ==
    /\ pc[t] \in {"flush_wait", "run_wait"}
    /\ Goto(t, IF t = Writer THEN "run" ELSE "flush")
    /\ UNCHANGED <<mutex_, queue_, memory, output_, disk, file, event, emits,
                   accepted>>

-----------------------------------------------------------------------------
(* The constructor and the destructor.                                      *)

InitializeMember ==
    /\ \/ /\ pc[Owner] = "write_failures_" /\ Goto(Owner, "writing_")
          /\ write_failures_' = 0 /\ UNCHANGED <<writing_, stopping_>>
       \/ /\ pc[Owner] = "writing_" /\ Goto(Owner, "stopping_")
          /\ writing_' = FALSE /\ UNCHANGED <<write_failures_, stopping_>>
       \/ /\ pc[Owner] = "stopping_" /\ Goto(Owner, "owns")
          /\ stopping_' = FALSE /\ UNCHANGED <<write_failures_, writing_>>
    /\ UNCHANGED <<mutex_, queue_, output_, disk, file, event, emits, accepted>>

DropLastReference ==
    /\ pc[Owner] = "owns"
    /\ \A c \in Clients : pc[c] = "released"
    /\ Goto(Owner, "stop")
    /\ UNCHANGED <<mutex_, queue_, memory, output_, disk, file, event, emits,
                   accepted>>

Stop ==
    /\ Holds(Owner, "stop") /\ Unlock
    /\ stopping_' = TRUE
    /\ Goto(Owner, "stop_notify")
    /\ UNCHANGED <<queue_, writing_, write_failures_, output_, disk, file,
                   event, emits, accepted>>

StopNotify ==
    /\ pc[Owner] = "stop_notify"
    /\ NotifyWork(Owner, "join")
    /\ UNCHANGED <<mutex_, queue_, memory, output_, disk, file, event, emits,
                   accepted>>

Join ==
    /\ pc[Owner] = "join" /\ pc[Writer] = "done"
    /\ Goto(Owner, "destroyed")
    /\ UNCHANGED <<mutex_, queue_, memory, output_, disk, file, event, emits,
                   accepted>>

-----------------------------------------------------------------------------
(* Emit and Flush.                                                          *)

Call(c) ==
    /\ pc[c] = "idle" /\ Constructed
    /\ \/ emits < MaxEvents /\ Goto(c, "emit") /\ emits' = emits + 1
       \/ Goto(c, "flush") /\ UNCHANGED emits
       \/ Goto(c, "released") /\ UNCHANGED emits
    /\ UNCHANGED <<mutex_, queue_, memory, output_, disk, file, event, accepted>>

Emit(c) ==
    /\ Holds(c, "emit") /\ Unlock
    /\ IF stopping_
       THEN Goto(c, "idle") /\ UNCHANGED <<queue_, accepted>>
       ELSE /\ queue_' = Append(queue_, accepted + 1)
            /\ accepted' = accepted + 1
            /\ Goto(c, "emit_notify")
    /\ UNCHANGED <<memory, output_, disk, file, event, emits>>

\* An Emit that tells nobody, and one that wakes the writer thread.
EmitNotifyNobody(c) ==
    /\ pc[c] = "emit_notify"
    /\ Goto(c, "idle")
    /\ UNCHANGED <<mutex_, queue_, memory, output_, disk, file, event, emits,
                   accepted>>
EmitNotify(c) ==
    /\ pc[c] = "emit_notify"
    /\ NotifyWork(c, "idle")
    /\ UNCHANGED <<mutex_, queue_, memory, output_, disk, file, event, emits,
                   accepted>>

\* A Flush that looks at the queue alone.
QueueEmpty == queue_ = <<>>
Drained == queue_ = <<>> /\ ~writing_

Flush(c) ==
    /\ Holds(c, "flush") /\ Unlock
    /\ Goto(c, IF Drained THEN "idle" ELSE "flush_wait")
    /\ UNCHANGED <<queue_, memory, output_, disk, file, event, emits, accepted>>

-----------------------------------------------------------------------------
(* Run, the writer thread.                                                  *)

StartThread ==
    /\ pc[Writer] = "start" /\ (EarlyThread \/ Constructed)
    /\ Goto(Writer, "run")
    /\ UNCHANGED <<mutex_, queue_, memory, output_, disk, file, event, emits,
                   accepted>>

\* Taking the newest event, or taking one without letting go of the mutex: mutants.
TakeNewest ==
    /\ queue_ # <<>>
    /\ event' = queue_[Len(queue_)]
    /\ queue_' = SubSeq(queue_, 1, Len(queue_) - 1)
    /\ writing_' = TRUE
    /\ Goto(Writer, "write") /\ Unlock

TakeAndKeepLock ==
    /\ queue_ # <<>>
    /\ event' = Head(queue_) /\ queue_' = Tail(queue_)
    /\ writing_' = TRUE
    /\ Goto(Writer, "write") /\ UNCHANGED mutex_

\* The writer thread takes the oldest event and lets go of the mutex.
Take ==
    /\ queue_ # <<>>
    /\ event' = Head(queue_) /\ queue_' = Tail(queue_)
    /\ writing_' = TRUE
    /\ Goto(Writer, "write") /\ Unlock

Stops == stopping_ /\ queue_ = <<>>

Run ==
    /\ Holds(Writer, "run")
    /\ \/ Stops
          /\ Goto(Writer, "exit") /\ Unlock
          /\ UNCHANGED <<queue_, event, writing_>>
       \/ ~Stops /\ Take
       \/ ~stopping_ /\ queue_ = <<>>
          /\ Goto(Writer, "run_wait") /\ Unlock
          /\ UNCHANGED <<queue_, event, writing_>>
    /\ UNCHANGED <<stopping_, write_failures_, output_, disk, file, emits,
                   accepted>>

\* output_ << line, output_.flush().  A stream that failed once stays bad, so
\* what it left of a line counts as not written.
WriteLine ==
    /\ pc[Writer] = "write" /\ disk = "answers"
    /\ \/ /\ output_ = "good"
          /\ file' = Append(file, event)
          /\ UNCHANGED output_
       \/ output_' = "bad" /\ UNCHANGED file
    /\ Goto(Writer, "account")
    /\ UNCHANGED <<mutex_, queue_, memory, disk, event, emits, accepted>>

Account ==
    /\ Holds(Writer, "account") /\ Unlock
    /\ write_failures_' = IF output_ = "bad" THEN write_failures_ + 1
                                             ELSE write_failures_
    /\ writing_' = FALSE
    /\ IF queue_ = <<>> THEN NotifyDrained("run") ELSE Goto(Writer, "run")
    /\ UNCHANGED <<queue_, stopping_, output_, disk, file, event, emits,
                   accepted>>

Exit ==
    /\ Holds(Writer, "exit") /\ Unlock
    /\ writing_' = FALSE
    /\ NotifyDrained("done")
    /\ UNCHANGED <<queue_, stopping_, write_failures_, output_, disk, file,
                   event, emits, accepted>>

\* The disk stops answering.
Stall ==
    /\ disk = "answers"
    /\ disk' = "stalled"
    /\ UNCHANGED <<mutex_, queue_, memory, output_, file, event, pc, emits,
                   accepted>>

\* Not a step of the code: nothing need be left to run after the destructor, or
\* when the writer thread never returns from the disk.
Finished ==
    /\ pc[Owner] = "destroyed" \/ (pc[Writer] = "write" /\ disk = "stalled")
    /\ UNCHANGED sinkVars

-----------------------------------------------------------------------------
OwnerStep  == InitializeMember \/ Stop \/ StopNotify \/ Join
WriterStep == StartThread \/ Run \/ WriteLine \/ Account \/ Exit
ClientStep(c) == Emit(c) \/ EmitNotify(c) \/ Flush(c)

SinkNext ==
    \/ \E t \in Threads : Lock(t) \/ SpuriousWakeup(t)
    \/ OwnerStep \/ DropLastReference
    \/ WriterStep
    \/ \E c \in Clients : Call(c) \/ ClientStep(c)
    \/ Stall
    \/ Finished

\* A thread that can run does, and one that wants the mutex gets it in the end
\* although others want it too.  Nobody has to call anything, and the disk may
\* stall.
Fairness ==
    /\ WF_sinkVars(OwnerStep) /\ WF_sinkVars(WriterStep)
    /\ \A c \in Clients : WF_sinkVars(ClientStep(c))
    /\ \A t \in Threads : SF_sinkVars(Lock(t))

SinkSpec == SinkInit /\ [][SinkNext]_sinkVars /\ Fairness
-----------------------------------------------------------------------------
(* Properties.                                                              *)

Handled == Len(file) + write_failures_

\* Events are logged in the order they were accepted, none twice, none
\* skipped, and every event that did not reach the file is counted in
\* write_failures_ ("Disk telemetry failure is observable").
Log == INSTANCE OrderedLog
         WITH log <- file,
              failures <- IF Constructed THEN write_failures_ ELSE 0

LogsInOrder == Log!LogSpec

\* When Flush or the destructor returns, every event accepted before is in the file or
\* counted: the queue alone being empty would not do, the last event may still be on
\* its way to the disk.
NothingLeftBehind ==
    [][ /\ \A c \in Clients : pc[c] = "flush" /\ pc'[c] = "idle" => Handled = accepted
        /\ pc'[Owner] = "destroyed" => Handled = accepted ]_sinkVars

\* "Emit only enqueues", "must never block media processing": a call of Emit returns,
\* also when the disk never answers again.  Unless it stalls, every Flush returns once
\* the emitting has come to its end (MaxEvents), and the destructor, which joins the
\* writer thread.
CallsReturn ==
    /\ \A c \in Clients :
          /\ pc[c] \in {"emit", "emit_notify"} ~> pc[c] = "idle"
          /\ pc[c] \in {"flush", "flush_wait"} ~> pc[c] = "idle" \/ disk = "stalled"
    /\ pc[Owner] = "stop" ~> pc[Owner] = "destroyed" \/ disk = "stalled"

\* cast_tuning_telemetry.h:24-25, "Emit only enqueues; disk I/O is performed by
\* the writer thread": every accepted event reaches the file, or is counted as
\* failed, unless the disk stalls; without any call of Flush.
EventsAreHandled ==
    \A n \in 1..MaxEvents :
        accepted >= n ~> Handled >= n \/ disk = "stalled"
================================================================================
