------------------------------ MODULE OrderedLog ------------------------------
(***************************************************************************)
(* What the telemetry sink promises: the events it accepts come to the log *)
(* in the order of their acceptance, each once, until the output fails;    *)
(* every one after that is counted as a failure.                           *)
(*                                                                         *)
(* An event is the number of events accepted up to and including it.       *)
(***************************************************************************)
EXTENDS Naturals, Sequences

VARIABLES accepted,   \* number of events accepted
          log,        \* the events in the log
          failures    \* number of events reported as not written

logVars == <<accepted, log, failures>>

LogInit == accepted = 0 /\ log = <<>> /\ failures = 0

Accept ==
    /\ accepted' = accepted + 1
    /\ UNCHANGED <<log, failures>>

Write ==
    /\ failures = 0 /\ Len(log) < accepted
    /\ log' = Append(log, Len(log) + 1)
    /\ UNCHANGED <<accepted, failures>>

Fail ==
    /\ Len(log) + failures < accepted
    /\ failures' = failures + 1
    /\ UNCHANGED <<accepted, log>>

LogNext == Accept \/ Write \/ Fail

LogSpec == LogInit /\ [][LogNext]_logVars
===============================================================================
