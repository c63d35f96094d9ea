------------------------ MODULE EventConsumer_proofs ------------------------
(***************************************************************************)
(* What the consumer keeps to, for any number of messages, any prefetch and *)
(* any number of faults.  ConsumerInv relates where a message is in the     *)
(* broker, what the main thread does with it, and how often it was logged.  *)
(***************************************************************************)
EXTENDS EventConsumer, FiniteSetTheorems, TLAPS

Up == {"declare", "activate", "consume", "callback", "ack", "nack", "closeStopped",
       "closeFailed"}
Settled == {"settling", "gone"}

\* Messages are numbered as they arrive.
Numbered ==
  /\ IsFiniteSet(Arrived)
  /\ \A m \in Message : arrival[m] <= Cardinality(Arrived)
  /\ \A m \in Message : arrival[m] > 0 <=> where[m] # "unsent"

\* What is delivered, is delivered on the connection that there is, to a consumer
\* whom only a shutdown has taken away since.
Linked ==
  /\ linked => pc \in Up \ {"closeFailed"}
  /\ pc = "closeStopped" => ~consuming
  /\ \A m \in Message : where[m] = "delivered" => linked /\ (consuming \/ shutdown)
  /\ current # NULL => where[current] # "unsent"
  /\ \A m \in Message : where[m] # "unsent" => bound

\* Before the first fault there is one connection, and only a shutdown ends it.
Undisturbed ==
  faults = 0 =>
    /\ pc \notin {"closeFailed", "failed", "backoff", "crashed"}
    /\ pc \in Up => linked
    /\ pc \in {"loop", "connect", "declare"} => ~bound
    /\ current # NULL => where[current] = "delivered"
    /\ pc \in {"closeStopped", "exited"} => shutdown
    /\ pc \in Up \ {"declare"} /\ ~consuming => shutdown
    /\ \A m \in Message :
         where[m] # "stranded" /\ (where[m] = "lost" => ~(linked /\ consuming))

\* A message is settled for a reason.
Settling ==
  /\ NothingDroppedUnlogged /\ PoisonNeverLogged
  /\ pc = "ack" => logged[current] > 0
  /\ pc = "nack" => current \in Malformed

\* A line is paid for by the message being settled, or by a fault.
Paid ==
  \A m \in Message :
    /\ where[m] = "unsent" => logged[m] = 0
    /\ logged[m] <= faults + 1
    /\ logged[m] <= faults
         \/ where[m] \in Settled \/ (current = m /\ where[m] = "delivered" /\ pc = "ack")
    /\ current = m /\ pc = "callback" /\ where[m] # "delivered" => logged[m] < faults

\* Messages leave the queue, and are logged, in the order of arrival.
Ordered ==
  /\ \A m \in Message : logged[m] > 0 => where[m] \in Settled \/ current = m
  /\ \A m, n \in Message :
       m \in Arrived /\ arrival[m] < arrival[n] =>
         /\ where[n] \in Settled \cup {"delivered"} => where[m] \in Settled \cup {"delivered"}
         /\ where[n] \in Settled \/ n = current => where[m] \in Settled

InOrder == faults = 0 => Ordered

ConsumerInv ==
  TypeOK /\ Numbered /\ Linked /\ Undisturbed /\ Settling /\ Paid /\ InOrder

\* What happens in the consumer process, or to its deliveries.
ConsumerStep ==
  \/ Main \/ ConnectFails \/ Signal \/ Die \/ Restart
  \/ LoseConnection \/ BrokerCancels \/ Requeue
  \/ \E m \in Message : Broker(m)

----------------------------------------------------------------------------
\* The consumer starts before any message.
LEMMA InitConsumer == Init => ConsumerInv
<1> SUFFICES ASSUME Init PROVE ConsumerInv
  OBVIOUS
<1>0. TypeOK
  <2>1. /\ where \in [Message -> Place] /\ arrival \in [Message -> Nat]
        /\ logged \in [Message -> Nat]
    BY DEF Init, Place
  <2>2. faults \in 0..MaxFaults /\ current \in Message \cup {NULL}
    BY ConsumerAssumption DEF Init
  <2> QED BY <2>1, <2>2 DEF Init, TypeOK, PC
<1>1. Linked /\ Undisturbed
  BY ConsumerAssumption DEF Init, TypeOK, PC, Place, Linked, Up, Undisturbed
<1>4. Settling /\ Paid /\ InOrder
  BY ConsumerAssumption
     DEF Init, Settling, NothingDroppedUnlogged, PoisonNeverLogged, Paid, InOrder, Ordered, Arrived
<1>2. Arrived = {}
  BY DEF Init, Arrived
<1>3. Numbered
  BY <1>2, FS_EmptySet DEF Numbered, Init
<1> QED BY <1>0, <1>1, <1>3, <1>4 DEF ConsumerInv

\* The steps that leave every message where it is, but for the ack or the nack.
LEMMA MainTypes == ASSUME TypeOK, Main PROVE TypeOK'
<1> USE ConsumerAssumption DEF Goto, SameBroker, TypeOK, PC
<1>1. CASE Loop \/ Connect \/ Declare \/ Activate \/ Stopped \/ Failed \/ WakeUp
  <2>1. CASE Loop
    BY <2>1 DEF Loop
  <2>2. CASE Connect
    BY <2>2 DEF Connect
  <2>3. CASE Declare
    BY <2>3 DEF Declare
  <2>4. CASE Activate
    BY <2>4 DEF Activate
  <2>5. CASE Stopped
    BY <2>5 DEF Stopped
  <2>6. CASE Failed
    BY <2>6 DEF Failed
  <2>7. CASE WakeUp
    BY <2>7 DEF WakeUp
  <2> QED BY <1>1, <2>1, <2>2, <2>3, <2>4, <2>5, <2>6, <2>7
<1>2. CASE Dispatch
  <2>1. current' \in Message
    BY <1>2 DEF Dispatch
  <2> QED BY <1>2, <2>1 DEF Dispatch
<1>3. CASE Lost
  BY <1>3 DEF Lost
<1>4. CASE OnMessage
  BY <1>4 DEF OnMessage
<1>5. CASE Ack \/ Nack
  BY <1>5 DEF Ack, Nack, SettleCurrent, Place
<1>6. CASE CloseConnection
  BY <1>6 DEF CloseConnection, Place
<1> QED BY <1>1, <1>2, <1>3, <1>4, <1>5, <1>6 DEF Main

\* Types are kept by whatever happens to the consumer and its deliveries.
LEMMA StepTypes == ASSUME TypeOK, ConsumerStep PROVE TypeOK'
<1> USE ConsumerAssumption DEF Goto, SameBroker, TypeOK, PC, main
<1>1. CASE ConnectFails \/ Signal \/ Restart
  <2>1. CASE ConnectFails
    BY <2>1 DEF ConnectFails
  <2>2. CASE Signal
    BY <2>2 DEF Signal, Running
  <2>3. CASE Restart
    BY <2>3 DEF Restart
  <2> QED BY <1>1, <2>1, <2>2, <2>3
<1>2. CASE Die \/ LoseConnection \/ BrokerCancels
  <2>1. where' \in [Message -> Place] /\ arrival' = arrival
    BY <1>2 DEF Die, LoseConnection, BrokerCancels, Strand, Place
  <2>2. faults' \in 0..MaxFaults
    BY <1>2 DEF Die, LoseConnection, BrokerCancels
  <2>3. CASE Die
    BY <2>1, <2>2, <2>3 DEF Die, Running
  <2>4. CASE LoseConnection
    BY <2>1, <2>2, <2>4 DEF LoseConnection
  <2>5. CASE BrokerCancels
    BY <2>1, <2>2, <2>5 DEF BrokerCancels
  <2> QED BY <1>2, <2>3, <2>4, <2>5
<1>3. CASE Requeue
  <2>1. where' \in [Message -> Place]
    BY <1>3 DEF Requeue, Place
  <2> QED BY <1>3, <2>1 DEF Requeue
<1>4. CASE \E m \in Message : Broker(m)
  BY <1>4 DEF Broker, Deliver, Settle, Place
<1> QED BY <1>1, <1>2, <1>3, <1>4, MainTypes DEF ConsumerStep

\* No message arrives or is forgotten in these steps.
LEMMA StepPlaces ==
  ASSUME TypeOK, Linked, ConsumerStep
  PROVE  /\ arrival' = arrival
         /\ \A m \in Message : where'[m] = "unsent" <=> where[m] = "unsent"
         /\ \A m \in Message : where'[m] = "lost" => where[m] = "lost"
<1> USE DEF SameBroker, TypeOK, main
<1>1. CASE Main
  <2>1. CASE Loop \/ Connect \/ Declare \/ Activate \/ Stopped \/ Failed \/ WakeUp \/ Dispatch
               \/ Lost \/ OnMessage
    BY <2>1 DEF Loop, Connect, Declare, Activate, Stopped, Failed, WakeUp, Dispatch, Lost,
                OnMessage
  <2>2. CASE Ack \/ Nack
    BY <2>2 DEF Ack, Nack, SettleCurrent, Linked
  <2>3. CASE CloseConnection
    BY <2>3 DEF CloseConnection
  <2> QED BY <1>1, <2>1, <2>2, <2>3 DEF Main
<1>2. CASE ConnectFails \/ Signal \/ Restart
  BY <1>2 DEF ConnectFails, Signal, Restart
<1>3. CASE Die \/ LoseConnection \/ BrokerCancels
  BY <1>3 DEF Die, LoseConnection, BrokerCancels, Strand
<1>4. CASE Requeue
  BY <1>4 DEF Requeue
<1>5. CASE \E m \in Message : Broker(m)
  BY <1>5 DEF Broker, Deliver, Settle, IsFirst, Ready
<1> QED BY <1>1, <1>2, <1>3, <1>4, <1>5 DEF ConsumerStep

\* The numbers stay.
LEMMA StepNumbers == ASSUME TypeOK, Linked, Numbered, ConsumerStep PROVE Numbered'
<1>1. Arrived' = Arrived
  BY StepPlaces DEF Arrived
<1> QED BY <1>1, StepPlaces DEF Numbered

\* The connection, and what is delivered on it.
LEMMA StepLinks == ASSUME TypeOK, Linked, ConsumerStep PROVE Linked'
<1> USE DEF Goto, SameBroker, Up, main
<1>0. NULL \notin Message
  BY ConsumerAssumption
<1>1. CASE Loop \/ Connect \/ Activate \/ Stopped \/ Failed \/ WakeUp \/ OnMessage
  <2>1. UNCHANGED <<where, current, bound, consuming, shutdown>>
        /\ (pc' = "closeStopped" => ~consuming)
    BY <1>1 DEF Loop, Connect, Activate, Stopped, Failed, WakeUp, OnMessage
  <2>2. linked => linked'
    BY <1>1 DEF Loop, Connect, Activate, Stopped, Failed, WakeUp, OnMessage
  <2>3. linked' => pc' \in Up \ {"closeFailed"}
    BY <1>1 DEF Loop, Connect, Activate, Stopped, Failed, WakeUp, OnMessage, Linked
  <2>4. current # NULL /\ linked' => linked
    BY <1>1 DEF Loop, Connect, Activate, Stopped, Failed, WakeUp, OnMessage, TypeOK
  <2> QED BY <2>1, <2>2, <2>3, <2>4 DEF Linked
<1>2. CASE Declare
  BY <1>2 DEF Declare, Linked, TypeOK
<1>3. CASE Dispatch
  <2>1. PICK m \in Message : IsFirst(m, Unsettled) /\ current' = m
    BY <1>3 DEF Dispatch
  <2>2. where[m] = "delivered"
    BY <2>1 DEF IsFirst, Unsettled
  <2> QED BY <1>3, <2>1, <2>2 DEF Dispatch, Linked
<1>4. CASE Lost
  BY <1>4 DEF Lost, Linked
<1>5. CASE Ack \/ Nack
  BY <1>5 DEF Ack, Nack, SettleCurrent, Linked, TypeOK
<1>6. CASE CloseConnection
  BY <1>6 DEF CloseConnection, Linked, TypeOK
<1>7. CASE ConnectFails \/ Signal \/ Restart
  <2>1. UNCHANGED <<where, current, bound, linked>> /\ (consuming' = consuming \/ ~consuming')
    BY <1>7 DEF ConnectFails, Signal, Restart
  <2>2. /\ linked => pc' = pc
        /\ pc' = "closeStopped" => pc = pc'
        /\ linked => (consuming /\ consuming') \/ shutdown' \/ (~consuming /\ ~shutdown)
    BY <1>7 DEF ConnectFails, Signal, Restart, Linked
  <2> QED BY <2>1, <2>2 DEF Linked
<1>8. CASE Die \/ LoseConnection \/ BrokerCancels
  BY <1>8 DEF Die, LoseConnection, BrokerCancels, Strand, Linked, TypeOK
<1>9. CASE Requeue
  BY <1>9 DEF Requeue, Linked, TypeOK
<1>10. ASSUME NEW m \in Message, Deliver(m) PROVE Linked'
  BY <1>10, <1>0 DEF Deliver, IsFirst, Ready, Linked, TypeOK
<1>11. ASSUME NEW m \in Message, Settle(m) PROVE Linked'
  BY <1>11 DEF Settle, Linked, TypeOK
<1> QED BY <1>1, <1>2, <1>3, <1>4, <1>5, <1>6, <1>7, <1>8, <1>9, <1>10, <1>11
        DEF ConsumerStep, Main, Broker

\* Nothing but a fault ends the first connection, or a shutdown.
LEMMA StepUndisturbed == ASSUME TypeOK, Linked, Undisturbed, ConsumerStep PROVE Undisturbed'
<1> USE DEF Goto, SameBroker, Up, main
<1>1. CASE Loop \/ Connect \/ Declare \/ Activate \/ Dispatch \/ Stopped \/ OnMessage
  <2>1. CASE Loop
    BY <2>1 DEF Loop, Undisturbed, TypeOK
  <2>2. CASE Connect
    BY <2>2 DEF Connect, Undisturbed, Linked, TypeOK
  <2>3. CASE Declare
    <3>1. faults = 0 => \A m \in Message : where[m] # "lost"
      BY <2>3 DEF Declare, Undisturbed, Linked
    <3> QED BY <2>3, <3>1 DEF Declare, Undisturbed, TypeOK
  <2>4. CASE Activate \/ Stopped
    BY <2>4 DEF Activate, Stopped, Undisturbed
  <2>5. CASE Dispatch
    BY <2>5 DEF Dispatch, IsFirst, Unsettled, Undisturbed
  <2>6. CASE OnMessage
    BY <2>6 DEF OnMessage, Undisturbed
  <2> QED BY <1>1, <2>1, <2>2, <2>3, <2>4, <2>5, <2>6
<1>2. CASE Failed \/ WakeUp \/ Lost \/ Restart
  BY <1>2 DEF Failed, WakeUp, Lost, Restart, Undisturbed
<1>3. CASE Ack \/ Nack
  BY <1>3 DEF Ack, Nack, SettleCurrent, Undisturbed, TypeOK
<1>4. CASE CloseConnection
  BY <1>4 DEF CloseConnection, Undisturbed, TypeOK
<1>5. CASE ConnectFails \/ Die \/ LoseConnection \/ BrokerCancels
  <2>1. faults' # 0
    BY <1>5 DEF ConnectFails, Die, LoseConnection, BrokerCancels, TypeOK
  <2> QED BY <2>1 DEF Undisturbed
<1>6. CASE Signal
  BY <1>6 DEF Signal, Undisturbed
<1>7. CASE Requeue
  BY <1>7 DEF Requeue, Undisturbed, TypeOK
<1>8. ASSUME NEW m \in Message, Deliver(m) \/ Settle(m) PROVE Undisturbed'
  BY <1>8 DEF Deliver, Settle, Undisturbed, TypeOK
<1> QED BY <1>1, <1>2, <1>3, <1>4, <1>5, <1>6, <1>7, <1>8 DEF ConsumerStep, Main, Broker

\* What is settled is logged, or malformed; what is malformed is not logged.
LEMMA StepSettles == ASSUME TypeOK, Linked, Settling, ConsumerStep PROVE Settling'
<1> USE DEF Goto, SameBroker, main, Settling, NothingDroppedUnlogged, PoisonNeverLogged
<1>1. CASE Loop \/ Connect \/ Declare \/ Activate \/ Stopped \/ Failed \/ WakeUp \/ Dispatch
             \/ Lost
  <2>1. UNCHANGED <<where, logged>> /\ pc' \notin {"ack", "nack"}
    BY <1>1 DEF Loop, Connect, Declare, Activate, Stopped, Failed, WakeUp, Dispatch, Lost
  <2> QED BY <2>1
<1>2. CASE OnMessage
  <2>1. current \in Message
    BY <1>2 DEF OnMessage, TypeOK
  <2>2. CASE current \in Malformed
    BY <1>2, <2>2 DEF OnMessage
  <2>3. CASE current \notin Malformed
    <3>1. /\ logged' = [logged EXCEPT ![current] = @ + 1] /\ pc' = "ack"
          /\ UNCHANGED <<where, current>>
      BY <1>2, <2>3 DEF OnMessage
    <3>2. logged'[current] > 0 /\ \A m \in Message : logged[m] > 0 => logged'[m] > 0
      BY <2>1, <3>1 DEF TypeOK
    <3>3. \A m \in Malformed : logged'[m] = logged[m]
      BY <2>3, <3>1, ConsumerAssumption DEF TypeOK
    <3> QED BY <3>1, <3>2, <3>3
  <2> QED BY <2>2, <2>3
<1>3. CASE Ack \/ Nack
  BY <1>3 DEF Ack, Nack, SettleCurrent, TypeOK
<1>4. CASE CloseConnection
  BY <1>4 DEF CloseConnection, TypeOK
<1>5. CASE ConnectFails \/ Signal \/ Restart
  BY <1>5 DEF ConnectFails, Signal, Restart
<1>6. CASE Die \/ LoseConnection \/ BrokerCancels
  BY <1>6 DEF Die, LoseConnection, BrokerCancels, Strand, TypeOK
<1>7. CASE Requeue
  BY <1>7 DEF Requeue, TypeOK
<1>8. ASSUME NEW m \in Message, Deliver(m) \/ Settle(m) PROVE Settling'
  BY <1>8 DEF Deliver, Settle, TypeOK
<1> QED BY <1>1, <1>2, <1>3, <1>4, <1>5, <1>6, <1>7, <1>8 DEF ConsumerStep, Main, Broker

\* A message is logged once for being settled, and once more for a fault each.
LEMMA StepPays == ASSUME TypeOK, Linked, Paid, ConsumerStep PROVE Paid'
<1> USE DEF Goto, SameBroker, main, Settled
<1>0. NULL \notin Message /\ faults \in Nat /\ \A m \in Message : logged[m] \in Nat
  BY ConsumerAssumption DEF TypeOK
<1>1. CASE Loop \/ Connect \/ Declare \/ Activate \/ Stopped \/ Failed \/ WakeUp
  <2>1. UNCHANGED <<where, logged, faults, current>> /\ current = NULL
    BY <1>1 DEF Loop, Connect, Declare, Activate, Stopped, Failed, WakeUp, TypeOK
  <2> QED BY <1>0, <2>1 DEF Paid
<1>2. CASE Dispatch
  BY <1>2 DEF Dispatch, IsFirst, Unsettled, Paid, TypeOK
<1>3. CASE Lost
  BY <1>0, <1>3 DEF Lost, Linked, Paid
<1>4. CASE OnMessage
  <2>1. /\ current \in Message /\ pc = "callback" /\ UNCHANGED <<where, faults, current>>
        /\ where[current] # "unsent"
    BY <1>0, <1>4 DEF OnMessage, TypeOK, Linked
  <2>2. IF where[current] = "delivered" THEN logged[current] <= faults
                                        ELSE logged[current] < faults
    BY <1>0, <2>1 DEF Paid
  <2>3. pc' \in {"ack", "nack"}
    BY <1>4 DEF OnMessage
  <2>4. \A m \in Message \ {current} : logged'[m] = logged[m]
    BY <1>4, <2>1 DEF OnMessage, TypeOK
  <2>5. /\ logged'[current] \in {logged[current], logged[current] + 1}
        /\ pc' = "nack" => logged'[current] = logged[current]
    BY <1>4, <2>1 DEF OnMessage, TypeOK
  <2>6. \A m \in Message \ {current} : logged[m] <= faults \/ where[m] \in Settled
    BY <2>1 DEF Paid
  <2> QED BY <1>0, <2>1, <2>2, <2>3, <2>4, <2>5, <2>6 DEF Paid
<1>5. CASE Ack \/ Nack
  BY <1>0, <1>5 DEF Ack, Nack, SettleCurrent, Paid, TypeOK
<1>6. CASE CloseConnection
  BY <1>0, <1>6 DEF CloseConnection, Paid, TypeOK
<1>7. CASE ConnectFails \/ Restart
  BY <1>0, <1>7 DEF ConnectFails, Restart, Paid, TypeOK
<1>8. CASE Signal
  BY <1>8 DEF Signal, Paid
<1>9. CASE Die
  BY <1>0, <1>9 DEF Die, Strand, Paid, TypeOK
<1>10. CASE LoseConnection \/ BrokerCancels
  <2>1. \A m \in Message : where'[m] \in Settled \cup {"unsent"} => where[m] = where'[m]
    BY <1>10 DEF LoseConnection, BrokerCancels, Strand, TypeOK
  <2>2. /\ faults' = faults + 1 /\ UNCHANGED <<pc, current, logged>>
    BY <1>10 DEF LoseConnection, BrokerCancels
  <2>3. \A m \in Message : current = m /\ pc = "callback" => logged[m] <= faults
    BY <1>0, <2>2 DEF Paid
  <2> QED BY <1>0, <2>1, <2>2, <2>3 DEF Paid
<1>11. CASE Requeue
  BY <1>11 DEF Requeue, Paid, TypeOK
<1>12. ASSUME NEW m \in Message, Deliver(m) PROVE Paid'
  BY <1>0, <1>12 DEF Deliver, IsFirst, Ready, Paid, TypeOK
<1>13. ASSUME NEW m \in Message, Settle(m) PROVE Paid'
  BY <1>13 DEF Settle, Paid, TypeOK
<1> QED BY <1>1, <1>2, <1>3, <1>4, <1>5, <1>6, <1>7, <1>8, <1>9, <1>10, <1>11, <1>12, <1>13
        DEF ConsumerStep, Main, Broker

\* Before the first fault each step of the consumer, or of its deliveries, takes
\* the message whose turn it is.
LEMMA StepKeepsOrder ==
  ASSUME TypeOK, Linked, Undisturbed, Numbered, Ordered, ConsumerStep, faults = 0, faults' = 0
  PROVE  Ordered'
<1> USE DEF Goto, SameBroker, main, Settled
<1>0. /\ NULL \notin Message
      /\ \A m \in Message : logged[m] \in Nat /\ arrival[m] \in Nat /\ where[m] # "stranded"
      /\ pc \in Up => linked
      /\ current # NULL => where[current] = "delivered"
      /\ \A m \in Arrived : where[m] # "unsent" /\ (where[m] = "lost" => ~(linked /\ consuming))
  BY ConsumerAssumption DEF TypeOK, Undisturbed, Numbered, Arrived
<1>1. CASE Loop \/ Connect \/ Declare \/ Activate \/ Stopped \/ Failed \/ WakeUp \/ Signal
             \/ Restart
  BY <1>1 DEF Loop, Connect, Declare, Activate, Stopped, Failed, WakeUp, Signal, Restart,
              Ordered, Arrived
<1>2. CASE Dispatch
  <2>1. PICK n \in Message : IsFirst(n, Unsettled) /\ current' = n
    BY <1>2 DEF Dispatch
  <2>2. UNCHANGED <<where, arrival, logged>> /\ current = NULL
    BY <1>2 DEF Dispatch, TypeOK
  <2>3. where[n] = "delivered"
    BY <2>1 DEF IsFirst, Unsettled
  <2>4. \A m \in Message : arrival[m] < arrival[n] => where[m] # "delivered"
    BY <1>0, <2>1 DEF IsFirst, Unsettled
  <2> QED BY <1>0, <2>1, <2>2, <2>3, <2>4 DEF Ordered, Arrived
<1>3. CASE Lost
  BY <1>0, <1>3 DEF Lost, Up
<1>4. CASE OnMessage
  <2>1. \A m \in Message : logged'[m] > 0 => logged[m] > 0 \/ m = current
    BY <1>4 DEF OnMessage, TypeOK
  <2>2. UNCHANGED <<where, arrival, current>>
    BY <1>4 DEF OnMessage
  <2> QED BY <2>1, <2>2 DEF Ordered, Arrived
<1>5. CASE Ack \/ Nack
  <2>1. /\ current \in Message /\ where' = [where EXCEPT ![current] = "settling"]
        /\ current' = NULL /\ UNCHANGED <<arrival, logged>>
    BY <1>0, <1>5 DEF Ack, Nack, SettleCurrent, TypeOK
  <2>2. /\ where'[current] = "settling"
        /\ \A m \in Message \ {current} : where'[m] = where[m]
    BY <2>1 DEF TypeOK
  <2> QED BY <1>0, <2>1, <2>2 DEF Ordered, Arrived
<1>6. CASE CloseConnection
  <2>1. current = NULL /\ current' = NULL /\ UNCHANGED <<arrival, logged>>
    BY <1>6 DEF CloseConnection, TypeOK
  <2>2. \A m \in Message :
          /\ where[m] \in Settled <=> where'[m] \in Settled
          /\ where'[m] # "delivered"
    BY <1>6 DEF CloseConnection, TypeOK
  <2> QED BY <1>0, <2>1, <2>2 DEF Ordered, Arrived
<1>7. CASE ConnectFails \/ Die \/ LoseConnection \/ BrokerCancels
  BY <1>7 DEF ConnectFails, Die, LoseConnection, BrokerCancels
<1>8. CASE Requeue
  BY <1>0, <1>8 DEF Requeue
<1>9. ASSUME NEW n \in Message, Deliver(n) PROVE Ordered'
  <2>1. /\ where[n] = "ready" /\ where'[n] = "delivered"
        /\ \A m \in Message \ {n} : where'[m] = where[m]
        /\ UNCHANGED <<arrival, logged, current>>
    BY <1>9 DEF Deliver, IsFirst, Ready, TypeOK
  <2>2. \A m \in Message : arrival[m] < arrival[n] => where[m] # "ready"
    BY <1>0, <1>9 DEF Deliver, IsFirst, Ready
  <2>3. linked /\ consuming
    BY <1>9 DEF Deliver
  <2>4. \A m \in Arrived : arrival[m] < arrival[n] => where[m] \in Settled \cup {"delivered"}
    BY <1>0, <2>2, <2>3 DEF TypeOK, Place, Arrived
  <2>5. current # n
    BY <1>0, <2>1
  <2> QED BY <1>0, <2>1, <2>4, <2>5 DEF Ordered, Arrived
<1>10. ASSUME NEW n \in Message, Settle(n) PROVE Ordered'
  <2>1. /\ where[n] = "settling" /\ where'[n] = "gone"
        /\ \A m \in Message \ {n} : where'[m] = where[m]
        /\ UNCHANGED <<arrival, logged, current>>
    BY <1>10 DEF Settle, TypeOK
  <2> QED BY <1>0, <2>1 DEF Ordered, Arrived
<1> QED BY <1>1, <1>2, <1>3, <1>4, <1>5, <1>6, <1>7, <1>8, <1>9, <1>10
        DEF ConsumerStep, Main, Broker

\* Every step of the consumer and of its deliveries keeps ConsumerInv.
LEMMA StepKeepsInv == ConsumerInv /\ ConsumerStep => ConsumerInv'
<1> SUFFICES ASSUME ConsumerInv, ConsumerStep PROVE ConsumerInv'
  OBVIOUS
<1>1. TypeOK /\ Numbered /\ Linked /\ Undisturbed /\ Settling /\ Paid /\ InOrder
  BY DEF ConsumerInv
<1>2. faults' = 0 => faults = 0
  <2>1. CASE Main
    BY <2>1 DEF Main, SameBroker, Loop, Connect, Declare, Activate, Dispatch, Stopped, Lost,
       OnMessage, Ack, Nack, CloseConnection, Failed, WakeUp
  <2>2. CASE ConnectFails \/ Die \/ LoseConnection \/ BrokerCancels
    BY <1>1, <2>2 DEF TypeOK, ConnectFails, Die, LoseConnection, BrokerCancels
  <2>3. CASE Signal \/ Restart \/ Requeue \/ \E m \in Message : Broker(m)
    BY <2>3 DEF Signal, Restart, Requeue, Broker, Deliver, Settle
  <2> QED BY <2>1, <2>2, <2>3 DEF ConsumerStep
<1>3. InOrder'
  BY <1>1, <1>2, StepKeepsOrder DEF InOrder
<1> QED BY <1>1, <1>3, StepTypes, StepNumbers, StepLinks, StepUndisturbed, StepSettles, StepPays
        DEF ConsumerInv

\* A message that arrives is the last in the order.
LEMMA RouteKeepsInv ==
  ASSUME ConsumerInv, NEW n \in Message, Route(n)
  PROVE  ConsumerInv'
<1> USE DEF main
<1>0. /\ TypeOK /\ Numbered /\ Linked /\ Undisturbed /\ Settling /\ Paid /\ InOrder
      /\ NULL \notin Message
  BY ConsumerAssumption DEF ConsumerInv
<1>1. Cardinality(Arrived) \in Nat
  BY <1>0, FS_CardinalityType DEF Numbered
<1>2. /\ where[n] = "unsent" /\ where'[n] = "ready"
      /\ arrival[n] = 0 /\ arrival'[n] = Cardinality(Arrived) + 1
      /\ \A m \in Message \ {n} : where'[m] = where[m] /\ arrival'[m] = arrival[m]
      /\ UNCHANGED <<pc, linked, bound, current, logged, faults>> /\ bound
  BY <1>0 DEF Route, TypeOK, Numbered
<1>3. TypeOK'
  <2>1. where' \in [Message -> Place] /\ arrival' \in [Message -> Nat]
    BY <1>0, <1>1 DEF Route, TypeOK, Place
  <2> QED BY <1>0, <2>1 DEF Route, TypeOK
<1>4. Numbered'
  <2>1. Arrived' = Arrived \cup {n} /\ n \notin Arrived
    BY <1>1, <1>2 DEF Arrived
  <2>2. IsFiniteSet(Arrived') /\ Cardinality(Arrived') = Cardinality(Arrived) + 1
    BY <1>0, <2>1, FS_AddElement DEF Numbered
  <2>3. \A m \in Message : arrival[m] \in Nat
    BY <1>0 DEF TypeOK
  <2>4. \A m \in Message : arrival'[m] <= Cardinality(Arrived')
    BY <1>0, <1>1, <1>2, <2>2, <2>3 DEF Numbered
  <2>5. \A m \in Message : arrival'[m] > 0 <=> where'[m] # "unsent"
    BY <1>0, <1>1, <1>2 DEF Numbered
  <2> QED BY <2>2, <2>4, <2>5 DEF Numbered
<1>5. Linked' /\ Undisturbed'
  <2>1. Linked'
    <3>1. current \in Message \cup {NULL} /\ UNCHANGED <<consuming, shutdown>>
      BY <1>0 DEF TypeOK, Route
    <3> QED BY <1>0, <1>2, <3>1 DEF Linked
  <2>2. Undisturbed'
    <3>1. UNCHANGED <<pc, linked, bound, current, faults, shutdown, consuming>>
      BY <1>2 DEF Route
    <3>2. current # n \/ where[current] # "delivered"
      BY <1>2
    <3>3. faults = 0 => (current # NULL => where'[current] = "delivered")
      BY <1>0, <1>2, <3>2 DEF Undisturbed, TypeOK
    <3> QED BY <1>0, <1>2, <3>1, <3>3 DEF Undisturbed
  <2> QED BY <2>1, <2>2
<1>6. Settling' /\ Paid'
  <2>1. Settling'
    BY <1>0, <1>2 DEF Settling, NothingDroppedUnlogged, PoisonNeverLogged
  <2>2. Paid'
    BY <1>0, <1>2 DEF Paid, Settled
  <2> QED BY <2>1, <2>2
<1>7. InOrder'
  <2>1. SUFFICES ASSUME faults = 0, Ordered PROVE Ordered'
    BY <1>0, <1>2 DEF InOrder
  <2>2. current # n
    <3>1. current # NULL => where[current] = "delivered"
      BY <1>0, <2>1 DEF Undisturbed
    <3> QED BY <1>0, <1>2, <3>1
  <2>3. \A m \in Message \ {n} : ~(arrival'[n] < arrival'[m])
    BY <1>0, <1>1, <1>2 DEF Numbered, TypeOK
  <2>4. \A m \in Message \ {n} : m \in Arrived' => m \in Arrived
    BY <1>2 DEF Arrived
  <2>5. ~(arrival'[n] < arrival'[n])
    BY <1>1, <1>2
  <2> QED BY <1>2, <2>1, <2>2, <2>3, <2>4, <2>5 DEF Ordered, Settled
<1> QED BY <1>3, <1>4, <1>5, <1>6, <1>7 DEF ConsumerInv

----------------------------------------------------------------------------
\* ConsumerInv is an invariant of the consumer and its broker.
THEOREM ConsumerInvariant == Spec => []ConsumerInv
<1>1. ConsumerInv /\ [Next]_vars => ConsumerInv'
  <2> SUFFICES ASSUME ConsumerInv, [Next]_vars PROVE ConsumerInv'
    OBVIOUS
  <2>1. CASE UNCHANGED vars
    BY <2>1 DEF ConsumerInv, vars, main, TypeOK, Numbered, Arrived, Linked, Undisturbed, Settling,
       NothingDroppedUnlogged, PoisonNeverLogged, Paid, InOrder, Ordered
  <2> QED BY <2>1, StepKeepsInv, RouteKeepsInv DEF Next, ConsumerStep
<1> QED BY <1>1, InitConsumer, PTL DEF Spec

\* Type correctness, for any number of messages and faults.
THEOREM ConsumerTypes == Spec => []TypeOK
BY ConsumerInvariant, PTL DEF ConsumerInv

\* At least once: whatever is lost, a message leaves the broker after its line.
THEOREM ConsumerDropsNothingUnlogged == Spec => []NothingDroppedUnlogged
BY ConsumerInvariant, PTL DEF ConsumerInv, Settling

\* What is no well-formed envelope is never logged as an event.
THEOREM ConsumerNeverLogsPoison == Spec => []PoisonNeverLogged
BY ConsumerInvariant, PTL DEF ConsumerInv, Settling

\* Each further line of a message has cost a fault.
THEOREM ConsumerDuplicatesNeedFaults == Spec => []DuplicatesNeedFaults
<1>1. ConsumerInv => DuplicatesNeedFaults
  BY DEF ConsumerInv, TypeOK, Paid, DuplicatesNeedFaults
<1> QED BY <1>1, ConsumerInvariant, PTL

\* Undisturbed, the consumer logs in the order of arrival.
THEOREM ConsumerOvertakingNeedsFaults == Spec => []OvertakingNeedsFaults
<1>1. ConsumerInv => OvertakingNeedsFaults
  <2> SUFFICES ASSUME ConsumerInv, faults = 0, NEW m \in Message \ Malformed,
                      NEW n \in Message \ Malformed,
                      m \in Arrived, arrival[m] < arrival[n], logged[n] > 0
               PROVE  logged[m] > 0
    BY DEF OvertakingNeedsFaults
  <2>1. where[m] \in Settled
    BY DEF ConsumerInv, InOrder, Ordered
  <2> QED BY <2>1 DEF ConsumerInv, Settling, NothingDroppedUnlogged, Settled
<1> QED BY <1>1, ConsumerInvariant, PTL

\* A message goes back to the queue for a fault, or for a shutdown: not for its
\* content, nor because the consumer came back.
THEOREM ConsumerSetbacksNeedFaults == Spec => SetbacksNeedFaults
<1> DEFINE Forth(m) ==
      /\ where[m] \in {"delivered", "settling"} /\ where'[m] \in {"ready", "stranded"}
           => faults' > faults \/ (shutdown /\ where[m] = "delivered")
      /\ where[m] = "gone" => where'[m] = "gone"
<1>1. ASSUME ConsumerInv, Next, NEW m \in Message PROVE Forth(m)
  <2>0. TypeOK /\ Linked /\ faults \in Nat
    BY <1>1 DEF ConsumerInv, TypeOK
  <2>1. CASE Ack \/ Nack
    BY <2>0, <2>1 DEF Ack, Nack, SettleCurrent, TypeOK
  <2>2. CASE CloseConnection
    <3>1. where[m] = "delivered" => shutdown
      BY <2>0, <2>2 DEF CloseConnection, Linked
    <3> QED BY <2>0, <2>2, <3>1 DEF CloseConnection, TypeOK
  <2>3. CASE Die \/ LoseConnection \/ BrokerCancels
    BY <2>0, <2>3 DEF Die, LoseConnection, BrokerCancels, Strand, TypeOK
  <2>4. CASE Requeue
    BY <2>0, <2>4 DEF Requeue, TypeOK
  <2>5. CASE \E n \in Message : Route(n) \/ Broker(n)
    BY <2>0, <2>5 DEF Route, Broker, Deliver, IsFirst, Ready, Settle, TypeOK
  <2>6. CASE Main /\ ~Ack /\ ~Nack /\ ~CloseConnection
    BY <2>6 DEF Main, SameBroker, Loop, Connect, Declare, Activate, Dispatch, Stopped, Lost,
       OnMessage, Failed, WakeUp
  <2>7. CASE ConnectFails \/ Signal \/ Restart
    BY <2>7 DEF ConnectFails, Signal, Restart, SameBroker
  <2> QED BY <1>1, <2>1, <2>2, <2>3, <2>4, <2>5, <2>6, <2>7 DEF Next
<1>2. ConsumerInv /\ [Next]_vars => [\A m \in Message : Forth(m)]_vars
  BY <1>1
<1> QED BY <1>2, ConsumerInvariant, PTL DEF Spec, SetbacksNeedFaults

----------------------------------------------------------------------------
(* The way out. *)

\* One step of whoever shares the consumer's process or its broker.
StaysHeard == /\ Heard' \/ ~Running'
              /\ pc' # pc => StepsToExit' < StepsToExit

\* No main step leads back into a connection.
LEMMA MainStaysHeard == ASSUME Heard, Main PROVE StaysHeard
<1> USE DEF Goto, SameBroker, Heard, Running, StaysHeard, StepsToExit
<1>1. CASE Loop \/ Failed \/ WakeUp
  <2>1. CASE Loop
    BY <2>1 DEF Loop
  <2>2. CASE Failed
    BY <2>2 DEF Failed
  <2>3. CASE WakeUp
    BY <2>3 DEF WakeUp
  <2> QED BY <1>1, <2>1, <2>2, <2>3
<1>2. CASE Connect \/ Declare \/ Activate \/ Dispatch
  BY <1>2 DEF Connect, Declare, Activate, Dispatch
<1>3. CASE Stopped
  BY <1>3 DEF Stopped
<1>4. CASE Lost
  BY <1>4 DEF Lost
<1>5. CASE OnMessage
  BY <1>5 DEF OnMessage
<1>6. CASE Ack \/ Nack
  <2>1. pc \in {"ack", "nack"} /\ pc' = "consume" /\ UNCHANGED <<shutdown, consuming>>
    BY <1>6 DEF Ack, Nack
  <2>2. StepsToExit = 6 /\ StepsToExit' = 5
    BY <2>1
  <2> QED BY <2>1, <2>2
<1>7. CASE CloseConnection
  <2>1. /\ pc \in {"closeStopped", "closeFailed"} /\ shutdown' = shutdown
        /\ pc' \in {"exited", "failed"}
    BY <1>7 DEF CloseConnection
  <2>2. StepsToExit = 4 /\ StepsToExit' < 4
    BY <2>1
  <2> QED BY <2>1, <2>2
<1> QED BY <1>1, <1>2, <1>3, <1>4, <1>5, <1>6, <1>7 DEF Main

\* Once a shutdown is heard the process is on its way out: no lost connection, no
\* further signal and no delivery turns it back.
THEOREM ConsumerHearsForGood == Spec => HeardForGood
<1>1. [Next]_vars => [Heard => StaysHeard]_vars
  <2> SUFFICES ASSUME [Next]_vars, Heard PROVE StaysHeard
    OBVIOUS
  <2>1. CASE Main
    BY <2>1, MainStaysHeard
  <2>2. CASE Signal
    BY <2>2 DEF Signal, SameBroker, Heard, Running, StaysHeard
  <2>3. CASE Die
    BY <2>3 DEF Die, Goto, Heard, Running, StaysHeard, StepsToExit
  <2>4. CASE ConnectFails \/ Restart
    BY <2>4 DEF ConnectFails, Restart, Heard
  <2>5. CASE LoseConnection \/ BrokerCancels \/ Requeue \/ UNCHANGED vars \/ \E m \in Message : Route(m) \/ Broker(m)
    <3>1. UNCHANGED <<pc, shutdown>> /\ (consuming' = consuming \/ ~consuming')
      BY <2>5 DEF LoseConnection, BrokerCancels, Requeue, vars, main, Route, Broker, Deliver, Settle
    <3> QED BY <3>1 DEF Heard, StaysHeard
  <2> QED BY <2>1, <2>2, <2>3, <2>4, <2>5 DEF Next
<1> QED BY <1>1, PTL DEF Spec, HeardForGood, StaysHeard
============================================================================
