------------------------------- MODULE FlowLog ------------------------------
(***************************************************************************)
(* What FlowEventStore promises about one flow: an append-only log, whose  *)
(* entries are numbered from 1, and a projection that always reflects its  *)
(* last entry.  append() is one atomic step.                               *)
(***************************************************************************)
EXTENDS Naturals, Sequences

CONSTANT Entries                   \* the events that may be appended

VARIABLES
  log,                             \* flow_events of the flow, by seq
  tip                              \* flows.last_event_seq

LogInit == log = <<>> /\ tip = 0

LogAppend(e) ==
  /\ log' = Append(log, e)
  /\ tip' = Len(log) + 1

LogNext == \E e \in Entries : LogAppend(e)

LogSpec == LogInit /\ [][LogNext]_<<log, tip>>
=============================================================================
