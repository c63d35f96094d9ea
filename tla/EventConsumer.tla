---------------------------- MODULE EventConsumer ----------------------------
(***************************************************************************)
(* The event-logging consumer process, app.messaging.consumer, and the part *)
(* of the broker it talks to: its durable queue, and the deliveries it has  *)
(* not settled yet.                                                         *)
(*                                                                         *)
(* The main thread runs main and _consume_once; a signal's handler runs     *)
(* between any two of its steps.  The broker may drop the connection, or    *)
(* refuse it, or cancel the consumer, or the process may die, at any        *)
(* moment; what was delivered and not settled then goes back to the queue.  *)
(***************************************************************************)
EXTENDS Naturals, FiniteSets

CONSTANTS Message,    \* the messages that may reach the queue
          Malformed,  \* those of them that are no well-formed envelope
          Prefetch,   \* how many deliveries may be unsettled
          MaxFaults,  \* bound: connections lost or refused, consumers cancelled,
                      \* processes killed
          NULL        \* Python's None

ASSUME ConsumerAssumption ==
  /\ Malformed \subseteq Message /\ NULL \notin Message
  /\ Prefetch \in Nat \ {0} /\ MaxFaults \in Nat

VARIABLES pc,         \* what the main thread does next
          shutdown,   \* _shutdown is set
          active,     \* _active_channel is not None
          consuming,  \* the channel has its consumer
          linked,     \* the broker still serves the connection
          bound,      \* the queue exists and is bound to the exchange
          where,      \* where[m]: the message's place in the broker
          arrival,    \* arrival[m]: m was the arrival[m]-th to reach the queue, or 0
          current,    \* the message the callback works on, or NULL
          logged,     \* logged[m]: how often m's line was logged
          faults      \* connections lost or refused, cancels, and deaths, so far

main == <<pc, shutdown, active, consuming, linked, bound, current>>
vars == <<main, where, arrival, logged, faults>>

PC == {"loop", "connect", "declare", "activate", "consume", "callback", "ack", "nack",
       "closeStopped", "closeFailed", "failed", "backoff", "exited", "crashed"}

\* "settling": the ack or nack is on its way to the broker; "stranded": delivered
\* to a consumer that is no more, which the broker has not noticed yet; "lost": a
\* broker that had not written it to disk went down.
Place == {"unsent", "ready", "delivered", "settling", "stranded", "gone", "lost"}

\* _active_channel is set while a connection is being consumed from, and the
\* callback works on one message.
TypeOK ==
  /\ pc \in PC
  /\ active => pc \in {"consume", "callback", "ack", "nack", "closeStopped", "closeFailed"}
  /\ current # NULL <=> pc \in {"callback", "ack", "nack"}
  /\ shutdown \in BOOLEAN /\ active \in BOOLEAN /\ consuming \in BOOLEAN
  /\ linked \in BOOLEAN /\ bound \in BOOLEAN
  /\ where \in [Message -> Place]
  /\ arrival \in [Message -> Nat]
  /\ current \in Message \cup {NULL}
  /\ logged \in [Message -> Nat]
  /\ faults \in 0..MaxFaults

Init ==
  /\ pc = "loop"
  /\ shutdown = FALSE /\ active = FALSE /\ consuming = FALSE
  /\ linked = FALSE /\ bound = FALSE
  /\ where = [m \in Message |-> "unsent"] /\ arrival = [m \in Message |-> 0]
  /\ current = NULL
  /\ logged = [m \in Message |-> 0]
  /\ faults = 0

----------------------------------------------------------------------------
(* The broker.  Its queue keeps the order of arrival: a message that is       *)
(* queued again goes back to its own place.                                 *)

Arrived == {m \in Message : arrival[m] > 0}

\* The first of a set of messages to have reached the queue.
IsFirst(m, S) == m \in S /\ \A n \in S : arrival[m] <= arrival[n]

\* An event reaches the queue; before the queue is bound it is unroutable.
Route(m) ==
  /\ bound /\ where[m] = "unsent"
  /\ where' = [where EXCEPT ![m] = "ready"]
  /\ arrival' = [arrival EXCEPT ![m] = Cardinality(Arrived) + 1]
  /\ UNCHANGED <<main, logged, faults>>

Ready == {m \in Message : where[m] = "ready"}
Unsettled == {m \in Message : where[m] = "delivered"}

Deliver(m) ==
  /\ linked /\ consuming /\ IsFirst(m, Ready)
  /\ Cardinality(Unsettled) < Prefetch
  /\ where' = [where EXCEPT ![m] = "delivered"]
  /\ UNCHANGED <<main, arrival, logged, faults>>

Settle(m) ==
  /\ where[m] = "settling"
  /\ where' = [where EXCEPT ![m] = "gone"]
  /\ UNCHANGED <<main, arrival, logged, faults>>

\* What the consumer had not settled, or its ack had not reached the broker yet,
\* when the broker lost it.
Strand ==
  /\ where' = [m \in Message |->
       IF where[m] \in {"delivered", "settling"} THEN "stranded" ELSE where[m]]
  /\ UNCHANGED arrival

\* The main thread learns of it at its next use of the connection.
LoseConnection ==
  /\ linked /\ faults < MaxFaults
  /\ linked' = FALSE
  /\ Strand
  /\ faults' = faults + 1
  /\ UNCHANGED <<pc, shutdown, active, consuming, bound, current, logged>>

\* The queue's process fails and starts again: the broker cancels the consumer on
\* a connection that lives on.
BrokerCancels ==
  /\ linked /\ consuming /\ faults < MaxFaults
  /\ consuming' = FALSE
  /\ Strand
  /\ faults' = faults + 1
  /\ UNCHANGED <<pc, shutdown, active, linked, bound, current, logged>>

\* The broker notices a lost connection, at once or when its heartbeats have
\* stopped, maybe long after the consumer is back: what it held is queued again.
Requeue ==
  /\ \E held \in SUBSET {m \in Message : where[m] = "stranded"} :
       /\ held # {}
       /\ where' = [m \in Message |-> IF m \in held THEN "ready" ELSE where[m]]
  /\ UNCHANGED <<main, arrival, logged, faults>>

----------------------------------------------------------------------------
(* main and _consume_once. *)

Goto(next) == pc' = next
SameBroker == UNCHANGED <<linked, bound, where, arrival>>

\* Mutant: the loop does not look at _shutdown.
LoopForEver ==
  /\ pc = "loop"
  /\ Goto("connect")
  /\ SameBroker /\ UNCHANGED <<shutdown, active, consuming, current, logged, faults>>

Loop ==
  /\ pc = "loop"
  /\ Goto(IF shutdown THEN "exited" ELSE "connect")
  /\ SameBroker /\ UNCHANGED <<shutdown, active, consuming, current, logged, faults>>

Connect ==
  /\ pc = "connect"
  /\ linked' = TRUE
  /\ Goto("declare")
  /\ UNCHANGED <<shutdown, active, consuming, bound, where, arrival, current, logged, faults>>

ConnectFails ==
  /\ pc = "connect" /\ faults < MaxFaults
  /\ faults' = faults + 1
  /\ Goto("failed")
  /\ SameBroker /\ UNCHANGED <<shutdown, active, consuming, current, logged>>

\* channel, exchange_declare, queue_declare, queue_bind, basic_qos, basic_consume.
Declare ==
  /\ pc = "declare" /\ linked
  /\ bound' = TRUE
  /\ consuming' = TRUE
  /\ Goto("activate")
  /\ UNCHANGED <<shutdown, active, linked, where, arrival, current, logged, faults>>

Activate ==
  /\ pc = "activate"
  /\ active' = TRUE
  /\ Goto("consume")
  /\ SameBroker /\ UNCHANGED <<shutdown, consuming, current, logged, faults>>

\* Mutant: the deliveries are worked off in no order.
DispatchAny ==
  /\ pc = "consume" /\ consuming /\ linked
  /\ current' \in Unsettled
  /\ Goto("callback")
  /\ SameBroker /\ UNCHANGED <<shutdown, active, consuming, logged, faults>>

\* start_consuming calls back for one delivery after the other ...
Dispatch ==
  /\ pc = "consume" /\ consuming /\ linked
  /\ \E m \in Message : IsFirst(m, Unsettled) /\ current' = m
  /\ Goto("callback")
  /\ SameBroker /\ UNCHANGED <<shutdown, active, consuming, logged, faults>>

\* ... and returns once the consumer is gone: after stop_consuming, which main
\* takes it for, and after the broker's cancel.
Stopped ==
  /\ pc = "consume" /\ ~consuming
  /\ Goto("closeStopped")
  /\ SameBroker /\ UNCHANGED <<shutdown, active, consuming, current, logged, faults>>

\* The connection is found lost: AMQPConnectionError.
Lost ==
  /\ pc \in {"declare", "ack", "nack"} \/ (pc = "consume" /\ consuming)
  /\ ~linked
  /\ Goto("closeFailed")
  /\ current' = NULL
  /\ SameBroker /\ UNCHANGED <<shutdown, active, consuming, logged, faults>>

\* Mutant: the message is acknowledged, and logged by nobody.
OnMessageUnlogged ==
  /\ pc = "callback"
  /\ Goto(IF current \in Malformed THEN "nack" ELSE "ack")
  /\ SameBroker /\ UNCHANGED <<shutdown, active, consuming, current, logged, faults>>

\* _on_message: parse, then log the event, or drop it.
OnMessage ==
  /\ pc = "callback"
  /\ IF current \in Malformed
     THEN Goto("nack") /\ UNCHANGED logged
     ELSE Goto("ack") /\ logged' = [logged EXCEPT ![current] = @ + 1]
  /\ SameBroker /\ UNCHANGED <<shutdown, active, consuming, current, faults>>

\* The broker takes no notice of the ack or nack of what it took back.
SettleCurrent ==
  where' = IF where[current] = "delivered" THEN [where EXCEPT ![current] = "settling"]
                                           ELSE where

\* Mutant: the ack is forgotten, and the broker asked for the message again.
AckRequeueing ==
  /\ pc = "ack" /\ linked
  /\ where' = [where EXCEPT ![current] = "ready"]
  /\ current' = NULL
  /\ Goto("consume")
  /\ UNCHANGED <<shutdown, active, consuming, linked, bound, arrival, logged, faults>>

Ack ==
  /\ pc = "ack" /\ linked
  /\ SettleCurrent
  /\ current' = NULL
  /\ Goto("consume")
  /\ UNCHANGED <<shutdown, active, consuming, linked, bound, arrival, logged, faults>>

\* basic_nack(requeue=False).
Nack ==
  /\ pc = "nack" /\ linked
  /\ SettleCurrent
  /\ current' = NULL
  /\ Goto("consume")
  /\ UNCHANGED <<shutdown, active, consuming, linked, bound, arrival, logged, faults>>

\* Mutant: the finally block leaves _active_channel set.
CloseKeepingActive ==
  /\ pc \in {"closeStopped", "closeFailed"}
  /\ consuming' = FALSE /\ linked' = FALSE
  /\ where' = [m \in Message |-> CASE where[m] = "delivered" -> "ready"
                                 [] where[m] = "settling"  -> "gone"
                                 [] OTHER                  -> where[m]]
  /\ Goto(IF pc = "closeStopped" THEN "exited" ELSE "failed")
  /\ UNCHANGED <<shutdown, active, bound, arrival, current, logged, faults>>

\* The finally block: no active channel, the connection closed.  The broker
\* has handled every ack sent before the close.
CloseConnection ==
  /\ pc \in {"closeStopped", "closeFailed"}
  /\ active' = FALSE /\ consuming' = FALSE /\ linked' = FALSE
  /\ where' = [m \in Message |-> CASE where[m] = "delivered" -> "ready"
                                 [] where[m] = "settling"  -> "gone"
                                 [] OTHER                  -> where[m]]
  /\ Goto(IF pc = "closeStopped" THEN "exited" ELSE "failed")
  /\ UNCHANGED <<shutdown, bound, arrival, current, logged, faults>>

Failed ==
  /\ pc = "failed"
  /\ Goto(IF shutdown THEN "exited" ELSE "backoff")
  /\ SameBroker /\ UNCHANGED <<shutdown, active, consuming, current, logged, faults>>

\* _shutdown.wait returns, after its timeout or because it is set.
WakeUp ==
  /\ pc = "backoff"
  /\ Goto("loop")
  /\ SameBroker /\ UNCHANGED <<shutdown, active, consuming, current, logged, faults>>

----------------------------------------------------------------------------
(* Signals, deaths and restarts. *)

Running == pc \notin {"exited", "crashed"}

\* SIGTERM or SIGINT.  stop_consuming on a dead connection raises, suppressed.
Signal ==
  /\ Running
  /\ shutdown' = TRUE
  /\ consuming' = IF active /\ linked THEN FALSE ELSE consuming
  /\ SameBroker /\ UNCHANGED <<pc, active, current, logged, faults>>

\* The process is killed, or raises what main does not catch (an
\* AMQPChannelError).
Die ==
  /\ Running /\ faults < MaxFaults
  /\ Goto("crashed")
  /\ faults' = faults + 1
  /\ active' = FALSE /\ consuming' = FALSE /\ linked' = FALSE
  /\ Strand
  /\ current' = NULL
  /\ UNCHANGED <<shutdown, bound, logged>>

\* Mutant: restart: on-failure.  A process that ended by itself stays down.
RestartOnFailure ==
  /\ pc = "crashed"
  /\ Goto("loop")
  /\ shutdown' = FALSE
  /\ SameBroker /\ UNCHANGED <<active, consuming, current, logged, faults>>

\* restart: unless-stopped.  Nobody asked a process to stop that ended without a
\* shutdown, its consumer cancelled.
Restart ==
  /\ pc = "crashed" \/ (pc = "exited" /\ ~shutdown)
  /\ Goto("loop")
  /\ shutdown' = FALSE
  /\ SameBroker /\ UNCHANGED <<active, consuming, current, logged, faults>>

----------------------------------------------------------------------------
Main == \/ Loop \/ Connect \/ Declare \/ Activate \/ Dispatch \/ Stopped \/ Lost
        \/ OnMessage \/ Ack \/ Nack \/ CloseConnection \/ Failed \/ WakeUp

Broker(m) == Deliver(m) \/ Settle(m)

Next == \/ Main \/ ConnectFails \/ Signal \/ Die \/ Restart
        \/ LoseConnection \/ BrokerCancels \/ Requeue
        \/ \E m \in Message : Route(m) \/ Broker(m)

Spec == Init /\ [][Next]_vars

\* The main thread and the broker keep running, and the supervisor restarts a
\* process that ended unasked.  Nobody has to publish, to send a signal, or to fail.
FairSpec == /\ Spec
            /\ WF_vars(Main) /\ WF_vars(Restart) /\ WF_vars(Requeue)
            /\ \A m \in Message : WF_vars(Broker(m))

----------------------------------------------------------------------------
(* Properties. *)

\* At least once: a message leaves the broker only after its line was logged,
\* or because it is malformed, whatever connection or process was lost.
NothingDroppedUnlogged ==
  \A m \in Message : where[m] \in {"settling", "gone"} => logged[m] > 0 \/ m \in Malformed

\* A malformed message is never logged as an event.
PoisonNeverLogged == \A m \in Malformed : logged[m] = 0

\* An event is logged again only after a lost connection, a cancel or a death: with
\* no fault its delivery is exactly once.
DuplicatesNeedFaults == \A m \in Message : logged[m] <= 1 + faults

\* Events are logged in the order in which they reached the queue; only a lost
\* connection, a cancel or a death lets a later one overtake an earlier one.
OvertakingNeedsFaults ==
  faults = 0 => \A m, n \in Message \ Malformed :
                  m \in Arrived /\ arrival[m] < arrival[n] /\ logged[n] > 0 => logged[m] > 0

\* Every message that reaches the queue is logged, or dropped as malformed,
\* over all reconnects and restarts, unless a shutdown was asked for: a consumer
\* that the broker cancelled, which main takes for a shutdown, comes back too.
EveryMessageHandled ==
  \A m \in Message : where[m] = "ready" ~> where[m] \in {"gone", "lost"} \/ shutdown

\* The safety half of it: what was delivered goes back to the queue for a fault, or
\* a shutdown, and for nothing else; what was settled never does.  So a message is
\* redelivered at most once for each fault, until somebody asks for a shutdown.
SetbacksNeedFaults ==
  [][\A m \in Message :
       /\ where[m] \in {"delivered", "settling"} /\ where'[m] \in {"ready", "stranded"}
            => faults' > faults \/ (shutdown /\ where[m] = "delivered")
       /\ where[m] = "gone" => where'[m] = "gone"]_vars

\* Who listens to a shutdown: a main thread on its way out of a connection, in the
\* backoff or at the loop, and one whose channel has lost its consumer.
Heard ==
  /\ shutdown
  /\ \/ pc \in {"closeStopped", "closeFailed", "failed", "backoff", "loop"}
     \/ ~consuming /\ pc \in {"consume", "callback", "ack", "nack"}

\* A shutdown requested while consuming, or while the broker is down, ends the
\* process: in the backoff it does not reconnect.
ShutdownHeard == Heard ~> ~Running

\* How many steps the main thread still takes once it has heard a shutdown.
StepsToExit ==
  CASE pc = "callback"                       -> 7
    [] pc \in {"ack", "nack"}                -> 6
    [] pc = "consume"                        -> 5
    [] pc \in {"closeStopped", "closeFailed"} -> 4
    [] pc = "failed"                         -> 3
    [] pc = "backoff"                        -> 2
    [] pc = "loop"                           -> 1
    [] OTHER                                 -> 0

\* What was heard is not forgotten, whatever connection is lost on the way and
\* however many signals follow: the message in hand is the last, no connection is
\* opened again, and every step of the main thread is one towards its exit.
HeardForGood ==
  [][Heard => /\ Heard' \/ ~Running'
              /\ pc' # pc => StepsToExit' < StepsToExit]_vars

\* The same without the exception: consumer.py:12 says a signal stops it.
ShutdownStops == shutdown ~> ~Running
============================================================================
