---------------------------- MODULE EventPipeline ----------------------------
(***************************************************************************)
(* A domain event's way from the service that committed it to the line in   *)
(* the event logger: the publishers, as PublisherContract promises them,    *)
(* the broker's durable queue, and the consumer process.                    *)
(*                                                                         *)
(* A service publishes after its commit, and after the locks of the         *)
(* transaction are gone, so the events of two requests are on their way at  *)
(* once.  An event is a message twice if the publisher lost the broker's    *)
(* confirmation and tried again.                                            *)
(***************************************************************************)
EXTENDS EventConsumer

CONSTANTS Event,       \* the commits that have an event to publish
          MaxRetries   \* bound: the events put into the queue twice

Copy == Event \X {1, 2}

\* build_envelope writes every key that _parse_event requires.
ASSUME PipelineAssumption == Message = Copy /\ Malformed = {} /\ MaxRetries \in Nat

VARIABLES stage,    \* stage[e]: how far the publish of e has come
          copies,   \* copies[e]: how often e was put into the queue
          before    \* history: the events accepted when e was committed

Pub == INSTANCE PublisherContract WITH Caller <- Event

consumer == <<main, where, arrival, logged, faults>>
pvars == <<consumer, stage, copies, before>>

PTypeOK ==
  /\ TypeOK
  /\ stage \in [Event -> Pub!Stage]
  /\ copies \in [Event -> 0..2]
  /\ before \in [Event -> SUBSET Event]

PInit == Init /\ Pub!Init /\ before = [e \in Event |-> {}]

----------------------------------------------------------------------------
(* The publishers. *)

Accepted == {e \in Event : stage[e] = "ok"}

\* A service has committed, and calls _publish.
Commit(e) ==
  /\ Pub!Call(e)
  /\ before' = [before EXCEPT ![e] = Accepted]
  /\ UNCHANGED consumer

\* An unroutable event is not put anywhere: mandatory=True.
Put(e) ==
  /\ Pub!Put(e)
  /\ Cardinality({f \in Event : copies'[f] = 2}) <= MaxRetries
  /\ Route(<<e, copies'[e]>>)
  /\ UNCHANGED before

\* Mutant: publish returns without the broker's confirmation.
ReturnUnconfirmed(e) ==
  /\ stage[e] = "publishing"
  /\ stage' = [stage EXCEPT ![e] = "ok"]
  /\ UNCHANGED <<copies, before, consumer>>

\* The broker confirms what it has on disk.
Return(e) ==
  /\ Pub!Return(e) /\ where[<<e, copies[e]>>] # "lost"
  /\ UNCHANGED <<before, consumer>>

\* _publish logs the error; the request succeeds.
Raise(e) == Pub!Raise(e) /\ UNCHANGED <<before, consumer>>

\* Mutant: delivery_mode=1, and the queue's messages are in memory only.
BrokerForgetsAny(m) ==
  /\ ~(linked /\ consuming) /\ where[m] \in {"ready", "stranded"}
  /\ where' = [where EXCEPT ![m] = "lost"]
  /\ UNCHANGED <<main, arrival, logged, faults, stage, copies, before>>

\* The broker, or its queue, goes down before a copy it has not confirmed is on
\* disk; the consumer does not stay with it.
BrokerForgets(m) ==
  /\ ~(linked /\ consuming) /\ where[m] \in {"ready", "stranded"}
  /\ stage[m[1]] # "ok"
  /\ where' = [where EXCEPT ![m] = "lost"]
  /\ UNCHANGED <<main, arrival, logged, faults, stage, copies, before>>

----------------------------------------------------------------------------
Publishing(e) == Commit(e) \/ Put(e) \/ Return(e) \/ Raise(e)

Consuming ==
  /\ \/ Main \/ ConnectFails \/ Signal \/ Die \/ Restart
     \/ LoseConnection \/ BrokerCancels \/ Requeue
     \/ \E m \in Message : Broker(m)
  /\ UNCHANGED <<stage, copies, before>>

PNext == \/ Consuming
         \/ \E e \in Event : Publishing(e)
         \/ \E m \in Message : BrokerForgets(m)

PSpec == PInit /\ [][PNext]_pvars

----------------------------------------------------------------------------
(* Properties. *)

Fate(e) ==
  CASE stage[e] = "idle"       -> "none"
    [] stage[e] = "publishing" -> "happened"
    [] stage[e] = "ok"         -> "accepted"
    [] stage[e] = "failed"     -> "gaveUp"

\* The events of which the broker has a copy that it did not see settled, or lose.
Queued ==
  {e \in Event : \E i \in {1, 2} :
     where[<<e, i>>] \in {"ready", "delivered", "settling", "stranded"}}

Delivery == INSTANCE EventDelivery
              WITH fate <- [e \in Event |-> Fate(e)],
                   logs <- [e \in Event |-> logged[<<e, 1>>] + logged[<<e, 2>>]],
                   queued <- Queued,
                   disturbed <- (faults > 0)

\* From commit to log line: nothing is logged that did not happen, what publish
\* returned for does not leave the queue unlogged, and only a disturbed consumer
\* logs an event a third time, or before an event that was accepted before it
\* happened; two events in flight at once may swap.
DeliverySpec == Delivery!Spec

\* What EventDelivery comes to.
DeliveryPromised == Delivery!Promised

\* Every line of the log is paid for: a copy that a publisher put into the queue has
\* one, and one more for each fault of the consumer; what was not put has none.
LinesArePaidFor ==
  \A e \in Event, i \in {1, 2} :
    logged[<<e, i>>] <= IF i <= copies[e] THEN 1 + faults ELSE 0

\* What publish returned for is not lost, whatever the broker's restarts and the
\* consumer's deaths since: it was logged, or the broker still has a copy, which
\* the consumer handles (EveryMessageHandled).
AcceptedIsKept ==
  \A e \in Accepted : e \in Queued \/ \E i \in {1, 2} : logged[<<e, i>>] > 0
============================================================================
