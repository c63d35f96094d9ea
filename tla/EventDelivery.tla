---------------------------- MODULE EventDelivery ----------------------------
(***************************************************************************)
(* What becomes of a domain event between the service that commits it and   *)
(* the line the event logger writes: it is logged only if it happened; once *)
(* publish has accepted it, it stays in the queue until it was logged; and  *)
(* as long as the consumer is undisturbed it is logged at most twice, and   *)
(* after every event that publish had accepted before it happened.          *)
(* EventPipeline, the publishers, the broker and the consumer, implements   *)
(* this specification.                                                      *)
(***************************************************************************)
EXTENDS Naturals

CONSTANT Event       \* the commits that have an event to publish

VARIABLES fate,      \* fate[e]: how far e's publish has come
          logs,      \* logs[e]: how often e's line was logged
          before,    \* before[e]: the events accepted when e happened
          queued,    \* the events of which the broker has a copy to hand out
          disturbed  \* the consumer lost its connection or its place, or died

delivery == <<fate, logs, before, queued, disturbed>>

Fate == {"none", "happened", "accepted", "gaveUp"}

Init == /\ fate = [e \in Event |-> "none"]
        /\ logs = [e \in Event |-> 0]
        /\ before = [e \in Event |-> {}]
        /\ queued = {}
        /\ disturbed = FALSE

Accepted == {e \in Event : fate[e] = "accepted"}

Happen(e) ==
  /\ fate[e] = "none"
  /\ fate' = [fate EXCEPT ![e] = "happened"]
  /\ before' = [before EXCEPT ![e] = Accepted]
  /\ UNCHANGED <<logs, queued, disturbed>>

Enqueue(e) ==
  /\ fate[e] = "happened" /\ e \notin queued
  /\ queued' = queued \cup {e}
  /\ UNCHANGED <<fate, logs, before, disturbed>>

\* What was accepted is in the queue, unless it was logged already.
Accept(e) ==
  /\ fate[e] = "happened" /\ (e \in queued \/ logs[e] > 0)
  /\ fate' = [fate EXCEPT ![e] = "accepted"]
  /\ UNCHANGED <<logs, before, queued, disturbed>>

\* The event is not promised to anybody, and may be logged all the same.
GiveUp(e) ==
  /\ fate[e] = "happened"
  /\ fate' = [fate EXCEPT ![e] = "gaveUp"]
  /\ UNCHANGED <<logs, before, queued, disturbed>>

Log(e) ==
  /\ fate[e] # "none"
  /\ disturbed \/ (e \in queued /\ logs[e] < 2 /\ \A f \in before[e] : logs[f] > 0)
  /\ logs' = [logs EXCEPT ![e] = @ + 1]
  /\ UNCHANGED <<fate, before, queued, disturbed>>

\* Events leave the queue that were logged, or that were never accepted.
Leave ==
  /\ \E events \in SUBSET queued :
       /\ \A e \in events : logs[e] > 0 \/ fate[e] # "accepted"
       /\ queued' = queued \ events
  /\ UNCHANGED <<fate, logs, before, disturbed>>

Disturb == /\ ~disturbed /\ disturbed' = TRUE
           /\ UNCHANGED <<fate, logs, before, queued>>

Next == \/ \E e \in Event : Happen(e) \/ Enqueue(e) \/ Accept(e) \/ GiveUp(e) \/ Log(e)
        \/ Leave \/ Disturb

Spec == Init /\ [][Next]_delivery

\* What it comes to: the log never tells of what did not happen; what publish
\* returned for is in the log or still in the queue, from then on; and as long as
\* nothing was disturbed whoever reads the log at any moment finds no event without
\* those that were accepted before it happened, and none more than twice.
Promised ==
  /\ \A e \in Event : logs[e] > 0 => fate[e] # "none"
  /\ \A e \in Accepted : logs[e] > 0 \/ e \in queued
  /\ ~disturbed => \A e \in Event :
       /\ logs[e] <= 2
       /\ logs[e] > 0 => \A f \in before[e] : logs[f] > 0
============================================================================
