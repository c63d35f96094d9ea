------------------------- MODULE PublisherContract -------------------------
(***************************************************************************)
(* What publish promises its callers, whatever becomes of the connection:   *)
(* it returns only when the broker has the event in a queue, it raises when *)
(* it does not know, and it leaves at most two copies of the event behind.  *)
(* EventPublisher implements this specification; EventPipeline builds on it.*)
(***************************************************************************)
EXTENDS Naturals

CONSTANT Caller   \* whoever may call publish, one event at a time

VARIABLES stage,  \* stage[t]: where t's call of publish stands
          copies  \* copies[t]: how often its event was put into a queue

Stage == {"idle", "publishing", "ok", "failed"}

Init == /\ stage = [t \in Caller |-> "idle"]
        /\ copies = [t \in Caller |-> 0]

Call(t) ==
  /\ stage[t] = "idle"
  /\ stage' = [stage EXCEPT ![t] = "publishing"]
  /\ UNCHANGED copies

Put(t) ==
  /\ stage[t] = "publishing" /\ copies[t] < 2
  /\ copies' = [copies EXCEPT ![t] = @ + 1]
  /\ UNCHANGED stage

Return(t) ==
  /\ stage[t] = "publishing" /\ copies[t] > 0
  /\ stage' = [stage EXCEPT ![t] = "ok"]
  /\ UNCHANGED copies

\* The caller logs it and goes on: the event may be in the queue all the same.
Raise(t) ==
  /\ stage[t] = "publishing"
  /\ stage' = [stage EXCEPT ![t] = "failed"]
  /\ UNCHANGED copies

\* The caller is free to publish another event.
Forget(t) ==
  /\ stage[t] \in {"ok", "failed"}
  /\ stage' = [stage EXCEPT ![t] = "idle"]
  /\ copies' = [copies EXCEPT ![t] = 0]

Next == \E t \in Caller : Call(t) \/ Put(t) \/ Return(t) \/ Raise(t) \/ Forget(t)

Spec == Init /\ [][Next]_<<stage, copies>>
============================================================================
