------------------------ MODULE EventPipeline_proofs ------------------------
(***************************************************************************)
(* What becomes of an event, for any number of events, retries and faults.  *)
(* PipelineInv adds to ConsumerInv what the publishers have put into the    *)
(* queue, and that what was accepted is there before what came later.       *)
(***************************************************************************)
EXTENDS EventPipeline, EventConsumer_proofs

\* The copies of an event that are in the queue, or were once.
Routed ==
  /\ \A e \in Event, i \in {1, 2} : where[<<e, i>>] # "unsent" <=> i <= copies[e]
  /\ \A e \in Event : copies[e] > 0 => stage[e] # "idle"

\* The copy by which an event is not lost.
Keeps(f, i) == where[<<f, i>>] \notin {"unsent", "lost"}

Kept == \A e \in Accepted : \E i \in {1, 2} : Keeps(e, i)

\* What was accepted before e happened is ahead of e in the queue.
Ahead ==
  \A e \in Event : \A f \in before[e] :
    /\ f \in Accepted
    /\ \E i \in {1, 2} :
         /\ Keeps(f, i)
         /\ \A j \in {1, 2} : j <= copies[e] => arrival[<<f, i>>] < arrival[<<e, j>>]

PipelineInv == ConsumerInv /\ PTypeOK /\ Routed /\ Kept /\ Ahead

----------------------------------------------------------------------------
\* Every message is a copy of an event.
LEMMA MessageIsCopy ==
  /\ \A e \in Event, i \in {1, 2} : <<e, i>> \in Message
  /\ \A m \in Message : m[1] \in Event /\ m[2] \in {1, 2} /\ m = <<m[1], m[2]>>
BY PipelineAssumption DEF Copy

\* Nothing has happened yet.
LEMMA InitPipeline == PInit => PipelineInv
<1> SUFFICES ASSUME PInit PROVE PipelineInv
  OBVIOUS
<1>1. ConsumerInv
  BY InitConsumer DEF PInit
<1>2. PTypeOK
  BY <1>1 DEF PInit, PTypeOK, ConsumerInv, Pub!Init, Pub!Stage
<1>3. Routed
  BY MessageIsCopy DEF PInit, Init, Pub!Init, Routed
<1>4. Accepted = {}
  BY DEF PInit, Pub!Init, Accepted
<1>5. Kept /\ Ahead
  BY <1>4 DEF PInit, Kept, Ahead
<1> QED BY <1>1, <1>2, <1>3, <1>5 DEF PipelineInv

\* The consumer changes nothing of what the publishers have done.
LEMMA ConsumingKeepsInv == PipelineInv /\ Consuming => PipelineInv'
<1> SUFFICES ASSUME PipelineInv, Consuming PROVE PipelineInv'
  OBVIOUS
<1>0. /\ ConsumerInv /\ PTypeOK /\ Routed /\ Kept /\ Ahead /\ ConsumerStep
      /\ UNCHANGED <<stage, copies, before>>
  BY DEF PipelineInv, Consuming, ConsumerStep
<1>1. ConsumerInv'
  BY <1>0, StepKeepsInv
<1>2. PTypeOK'
  BY <1>0, <1>1 DEF PTypeOK, ConsumerInv
<1>3. /\ arrival' = arrival
      /\ \A m \in Message : where'[m] = "unsent" <=> where[m] = "unsent"
      /\ \A m \in Message : where'[m] = "lost" => where[m] = "lost"
  BY <1>0, StepPlaces DEF ConsumerInv
<1>4. Routed'
  BY <1>0, <1>3, MessageIsCopy DEF Routed
<1>5. \A e \in Event, i \in {1, 2} : Keeps(e, i) => Keeps(e, i)'
  BY <1>3, MessageIsCopy DEF Keeps
<1>6. Accepted' = Accepted /\ Accepted \subseteq Event
  BY <1>0 DEF Accepted
<1>7. Kept'
  BY <1>0, <1>5, <1>6 DEF Kept
<1>8. Ahead'
  <2> SUFFICES ASSUME NEW e \in Event, NEW f \in before[e]
               PROVE  /\ f \in Accepted
                      /\ \E i \in {1, 2} :
                           /\ Keeps(f, i)'
                           /\ \A j \in {1, 2} : j <= copies[e] => arrival[<<f, i>>] < arrival[<<e, j>>]
    BY <1>0, <1>3, <1>6 DEF Ahead
  <2> QED BY <1>0, <1>5, <1>6 DEF Ahead
<1> QED BY <1>1, <1>2, <1>4, <1>7, <1>8 DEF PipelineInv

\* A commit: what is accepted by then is in the queue, and no copy of e is.
LEMMA CommitKeepsInv ==
  ASSUME PipelineInv, NEW e \in Event, Commit(e)
  PROVE  PipelineInv'
<1>0. /\ ConsumerInv /\ PTypeOK /\ Routed /\ Kept /\ Ahead
      /\ stage[e] = "idle" /\ stage' = [stage EXCEPT ![e] = "publishing"]
      /\ before' = [before EXCEPT ![e] = Accepted]
      /\ copies' = copies /\ UNCHANGED consumer
  BY DEF PipelineInv, Commit, Pub!Call
<1>1. ConsumerInv' /\ TypeOK'
  BY <1>0 DEF consumer, main, ConsumerInv, TypeOK, Numbered, Arrived, Linked, Undisturbed,
     Settling, NothingDroppedUnlogged, PoisonNeverLogged, Paid, InOrder, Ordered
<1>2. Accepted' = Accepted /\ Accepted \subseteq Event
  BY <1>0 DEF Accepted, PTypeOK
<1>3. PTypeOK'
  BY <1>0, <1>1, <1>2 DEF PTypeOK, Pub!Stage
<1>4. Routed'
  BY <1>0 DEF consumer, Routed, PTypeOK
<1>5. \A f, i : Keeps(f, i)' <=> Keeps(f, i)
  BY <1>0 DEF Keeps, consumer
<1>6. Kept'
  BY <1>0, <1>2, <1>5 DEF Kept
<1>7. copies[e] = 0
  BY <1>0 DEF Routed, PTypeOK
<1>8. Ahead'
  <2> SUFFICES ASSUME NEW x \in Event, NEW f \in before'[x]
               PROVE  /\ f \in Accepted
                      /\ \E i \in {1, 2} :
                           /\ Keeps(f, i)
                           /\ \A j \in {1, 2} : j <= copies[x] => arrival[<<f, i>>] < arrival[<<x, j>>]
    BY <1>0, <1>2, <1>5 DEF Ahead, consumer
  <2>1. CASE x = e
    BY <1>0, <1>7, <2>1 DEF Kept, PTypeOK
  <2>2. CASE x # e
    BY <1>0, <2>2 DEF Ahead, PTypeOK
  <2> QED BY <2>1, <2>2
<1> QED BY <1>1, <1>3, <1>4, <1>6, <1>8 DEF PipelineInv

\* A copy that is put comes after whatever is in the queue.
LEMMA PutKeepsInv ==
  ASSUME PipelineInv, NEW e \in Event, Put(e)
  PROVE  PipelineInv'
<1>0. /\ ConsumerInv /\ PTypeOK /\ Routed /\ Kept /\ Ahead
      /\ stage[e] = "publishing" /\ stage' = stage /\ before' = before
      /\ copies[e] < 2 /\ copies' = [copies EXCEPT ![e] = @ + 1]
      /\ Route(<<e, copies'[e]>>)
  BY DEF PipelineInv, Put, Pub!Put
<1> DEFINE k == copies[e] + 1
           new == <<e, k>>
<1>1. copies'[e] = k /\ k \in {1, 2} /\ new \in Message
  <2>1. copies \in [Event -> 0..2]
    BY <1>0 DEF PTypeOK
  <2>2. k \in {1, 2} /\ copies'[e] = k
    BY <1>0, <2>1
  <2> QED BY <2>2, MessageIsCopy
<1>2. ConsumerInv' /\ TypeOK'
  BY <1>0, <1>1, RouteKeepsInv DEF ConsumerInv
<1>3. /\ where'[new] = "ready"
      /\ arrival'[new] = Cardinality(Arrived) + 1
      /\ \A m \in Message \ {new} : where'[m] = where[m] /\ arrival'[m] = arrival[m]
      /\ where[new] = "unsent"
  BY <1>0, <1>1 DEF Route, ConsumerInv, TypeOK
<1>4. PTypeOK'
  BY <1>0, <1>2 DEF PTypeOK
<1>5. Accepted' = Accepted /\ Accepted \subseteq Event
  BY <1>0 DEF Accepted
<1>6. \A f \in Event, i \in {1, 2} : <<f, i>> # new => Keeps(f, i)' = Keeps(f, i)
  BY <1>3, MessageIsCopy DEF Keeps
<1>7. \A f \in Event, i \in {1, 2} : Keeps(f, i) => Keeps(f, i)' /\ <<f, i>> # new
  BY <1>3, MessageIsCopy DEF Keeps
<1>8. Kept'
  BY <1>0, <1>5, <1>7 DEF Kept
<1>9. Routed'
  <2>1. \A x \in Event, i \in {1, 2} : <<x, i>> = new => x = e /\ i = k
    OBVIOUS
  <2>2. ASSUME NEW x \in Event, NEW i \in {1, 2}
        PROVE  where'[<<x, i>>] # "unsent" <=> i <= copies'[x]
    <3>1. CASE x = e /\ i = k
      BY <1>1, <1>3, <3>1
    <3>2. CASE x = e /\ i # k
      <4>1. where'[<<e, i>>] = where[<<e, i>>]
        BY <1>3, <2>1, <3>2, MessageIsCopy
      <4>2. where[<<e, i>>] # "unsent" <=> i <= copies[e]
        BY <1>0 DEF Routed
      <4>3. copies[e] \in 0..1
        BY <1>0 DEF PTypeOK
      <4> QED BY <1>1, <3>2, <4>1, <4>2, <4>3
    <3>3. CASE x # e
      <4>1. where'[<<x, i>>] = where[<<x, i>>]
        BY <1>3, <2>1, <3>3, MessageIsCopy
      <4>2. copies'[x] = copies[x]
        BY <1>0, <3>3 DEF PTypeOK
      <4> QED BY <1>0, <4>1, <4>2 DEF Routed
    <3> QED BY <3>1, <3>2, <3>3
  <2>3. \A x \in Event : copies'[x] > 0 => stage'[x] # "idle"
    BY <1>0 DEF Routed, PTypeOK
  <2> QED BY <2>2, <2>3 DEF Routed
<1>10. Ahead'
  <2> SUFFICES ASSUME NEW x \in Event, NEW f \in before[x]
               PROVE  /\ f \in Accepted
                      /\ \E i \in {1, 2} :
                           /\ Keeps(f, i)'
                           /\ \A j \in {1, 2} : j <= copies'[x] => arrival'[<<f, i>>] < arrival'[<<x, j>>]
    BY <1>0, <1>5 DEF Ahead
  <2>1. f \in Accepted
    BY <1>0 DEF Ahead
  <2>2. PICK i \in {1, 2} :
          /\ Keeps(f, i)
          /\ \A j \in {1, 2} : j <= copies[x] => arrival[<<f, i>>] < arrival[<<x, j>>]
    BY <1>0 DEF Ahead
  <2>3. /\ Keeps(f, i)' /\ <<f, i>> \in Message \ {new}
        /\ arrival'[<<f, i>>] = arrival[<<f, i>>]
    BY <1>3, <1>5, <1>7, <2>1, <2>2, MessageIsCopy
  <2>4. ASSUME NEW j \in {1, 2}, j <= copies'[x]
        PROVE  arrival'[<<f, i>>] < arrival'[<<x, j>>]
    <3>1. CASE <<x, j>> = new
      <4>1. /\ arrival[<<f, i>>] \in Nat /\ arrival[<<f, i>>] <= Cardinality(Arrived)
            /\ IsFiniteSet(Arrived)
        BY <1>0, <2>3 DEF ConsumerInv, Numbered, TypeOK
      <4>2. Cardinality(Arrived) \in Nat
        BY <4>1, FS_CardinalityType
      <4> QED BY <1>3, <2>3, <3>1, <4>1, <4>2
    <3>2. CASE <<x, j>> # new
      <4>1. arrival'[<<x, j>>] = arrival[<<x, j>>]
        BY <1>3, <3>2, MessageIsCopy
      <4>2. j <= copies[x]
        <5>1. CASE x = e
          BY <1>0, <1>1, <2>4, <3>2, <5>1 DEF PTypeOK
        <5>2. CASE x # e
          BY <1>0, <2>4, <5>2 DEF PTypeOK
        <5> QED BY <5>1, <5>2
      <4> QED BY <2>2, <2>3, <4>1, <4>2
    <3> QED BY <3>1, <3>2
  <2> QED BY <2>1, <2>3, <2>4
<1> QED BY <1>2, <1>4, <1>8, <1>9, <1>10 DEF PipelineInv

\* A return or an exception of publish: what it returned for is in the queue.
LEMMA AnswerKeepsInv ==
  ASSUME PipelineInv, NEW e \in Event, Return(e) \/ Raise(e)
  PROVE  PipelineInv'
<1>0. /\ ConsumerInv /\ PTypeOK /\ Routed /\ Kept /\ Ahead
      /\ stage[e] = "publishing" /\ before' = before
      /\ copies' = copies /\ UNCHANGED consumer
  BY DEF PipelineInv, Return, Raise, Pub!Return, Pub!Raise
<1>1. ConsumerInv' /\ TypeOK'
  BY <1>0 DEF consumer, main, ConsumerInv, TypeOK, Numbered, Arrived, Linked, Undisturbed,
     Settling, NothingDroppedUnlogged, PoisonNeverLogged, Paid, InOrder, Ordered
<1>2. \A f, i : Keeps(f, i)' <=> Keeps(f, i)
  BY <1>0 DEF Keeps, consumer
<1>3. PICK end \in {"ok", "failed"} :
        /\ stage' = [stage EXCEPT ![e] = end]
        /\ end = "ok" => copies[e] > 0 /\ where[<<e, copies[e]>>] # "lost"
  BY DEF Return, Raise, Pub!Return, Pub!Raise
<1>4. /\ Accepted \subseteq Accepted' /\ Accepted' \subseteq Accepted \cup {e}
      /\ e \in Accepted' => end = "ok"
  BY <1>0, <1>3 DEF Accepted, PTypeOK
<1>5. PTypeOK'
  BY <1>0, <1>1, <1>3 DEF PTypeOK, Pub!Stage
<1>6. Routed'
  BY <1>0, <1>3 DEF consumer, Routed, PTypeOK
<1>7. Kept'
  <2>1. ASSUME end = "ok" PROVE \E i \in {1, 2} : Keeps(e, i)
    <3>1. copies[e] \in {1, 2}
      BY <1>0, <1>3, <2>1 DEF PTypeOK
    <3>2. where[<<e, copies[e]>>] # "unsent"
      <4>1. copies[e] <= copies[e]
        BY <3>1
      <4> QED BY <1>0, <3>1, <4>1 DEF Routed
    <3> QED BY <1>3, <2>1, <3>1, <3>2 DEF Keeps
  <2> QED BY <1>0, <1>2, <1>4, <2>1 DEF Kept
<1>8. Ahead'
  <2> SUFFICES ASSUME NEW x \in Event, NEW f \in before[x]
               PROVE  /\ f \in Accepted'
                      /\ \E i \in {1, 2} :
                           /\ Keeps(f, i)
                           /\ \A j \in {1, 2} : j <= copies[x] => arrival[<<f, i>>] < arrival[<<x, j>>]
    BY <1>0, <1>2 DEF Ahead, consumer
  <2> QED BY <1>0, <1>4 DEF Ahead
<1> QED BY <1>1, <1>5, <1>6, <1>7, <1>8 DEF PipelineInv

\* A broker that goes down forgets what nobody relies on yet.
LEMMA ForgetKeepsInv ==
  ASSUME PipelineInv, NEW m \in Message, BrokerForgets(m)
  PROVE  PipelineInv'
<1>0. /\ ConsumerInv /\ PTypeOK /\ Routed /\ Kept /\ Ahead
      /\ UNCHANGED <<main, arrival, logged, faults, stage, copies, before>>
      /\ stage[m[1]] # "ok" /\ ~(linked /\ consuming)
      /\ where[m] \in {"ready", "stranded"} /\ where' = [where EXCEPT ![m] = "lost"]
  BY DEF PipelineInv, BrokerForgets
<1>1. /\ TypeOK /\ Numbered /\ Linked /\ Undisturbed /\ Settling /\ Paid /\ InOrder
  BY <1>0 DEF ConsumerInv
<1>2. /\ where'[m] = "lost"
      /\ \A n \in Message \ {m} : where'[n] = where[n]
  BY <1>0, <1>1 DEF TypeOK
<1>3. TypeOK'
  <2>1. where' \in [Message -> Place]
    BY <1>0, <1>1 DEF TypeOK, Place
  <2> QED BY <1>0, <1>1, <2>1 DEF TypeOK, main
<1>4. Numbered' /\ Linked'
  BY <1>0, <1>1, <1>2 DEF Numbered, Arrived, Linked, main
<1>5. Undisturbed'
  <2>1. current # NULL => where[current] # "delivered" \/ where'[current] = "delivered"
    BY <1>0, <1>1, <1>2 DEF TypeOK
  <2> QED BY <1>0, <1>1, <1>2, <2>1 DEF Undisturbed, main
<1>6. Settling' /\ Paid'
  <2>1. Settling'
    BY <1>0, <1>1, <1>2 DEF Settling, NothingDroppedUnlogged, PoisonNeverLogged, main
  <2>2. Paid'
    BY <1>0, <1>1, <1>2 DEF Paid, Settled, main
  <2> QED BY <2>1, <2>2
<1>7. InOrder'
  BY <1>0, <1>1, <1>2 DEF InOrder, Ordered, Settled, Arrived, main
<1>8. Routed'
  BY <1>0, <1>2, MessageIsCopy DEF Routed
<1>9. Accepted' = Accepted /\ m[1] \notin Accepted /\ Accepted \subseteq Event
  BY <1>0 DEF Accepted
<1>10. \A f \in Accepted, i \in {1, 2} : Keeps(f, i) => Keeps(f, i)'
  <2> SUFFICES ASSUME NEW f \in Accepted, NEW i \in {1, 2}, Keeps(f, i) PROVE Keeps(f, i)'
    OBVIOUS
  <2>1. <<f, i>> \in Message /\ <<f, i>>[1] = f
    BY <1>9, MessageIsCopy
  <2>2. <<f, i>> # m
    BY <1>9, <2>1
  <2> QED BY <1>2, <2>1, <2>2 DEF Keeps
<1>11. Kept'
  BY <1>0, <1>9, <1>10 DEF Kept
<1>12. Ahead'
  <2> SUFFICES ASSUME NEW x \in Event, NEW f \in before[x]
               PROVE  /\ f \in Accepted
                      /\ \E i \in {1, 2} :
                           /\ Keeps(f, i)'
                           /\ \A j \in {1, 2} : j <= copies[x] => arrival[<<f, i>>] < arrival[<<x, j>>]
    BY <1>0, <1>9 DEF Ahead
  <2> QED BY <1>0, <1>10 DEF Ahead
<1>13. PTypeOK'
  BY <1>0, <1>3 DEF PTypeOK
<1> QED BY <1>3, <1>4, <1>5, <1>6, <1>7, <1>8, <1>11, <1>12, <1>13 DEF PipelineInv, ConsumerInv

\* PipelineInv is an invariant of the whole way of an event.
THEOREM PipelineInvariant == PSpec => []PipelineInv
<1>1. PipelineInv /\ [PNext]_pvars => PipelineInv'
  <2> SUFFICES ASSUME PipelineInv, [PNext]_pvars PROVE PipelineInv'
    OBVIOUS
  <2>1. CASE UNCHANGED pvars
    BY <2>1 DEF pvars, consumer, main, PipelineInv, ConsumerInv, TypeOK, Numbered, Arrived, Linked,
       Undisturbed, Settling, NothingDroppedUnlogged, PoisonNeverLogged, Paid, InOrder, Ordered,
       PTypeOK, Routed, Kept, Ahead, Keeps, Accepted
  <2> QED BY <2>1, ConsumingKeepsInv, CommitKeepsInv, PutKeepsInv, AnswerKeepsInv, ForgetKeepsInv
          DEF PNext, Publishing
<1> QED BY <1>1, InitPipeline, PTL DEF PSpec

\* Type correctness of the composition, for any number of events.
THEOREM PipelineTypes == PSpec => []PTypeOK
BY PipelineInvariant, PTL DEF PipelineInv

\* What publish returned for is logged, or the broker still has it.
THEOREM PipelineKeepsAccepted == PSpec => []AcceptedIsKept
<1>1. PipelineInv => AcceptedIsKept
  <2> SUFFICES ASSUME PipelineInv, NEW e \in Accepted
               PROVE  e \in Queued \/ \E i \in {1, 2} : logged[<<e, i>>] > 0
    BY DEF AcceptedIsKept
  <2>1. PICK i \in {1, 2} : Keeps(e, i)
    BY DEF PipelineInv, Kept
  <2>2. <<e, i>> \in Message /\ <<e, i>> \notin Malformed
    BY MessageIsCopy, PipelineAssumption DEF Accepted
  <2>3. where[<<e, i>>] \in Place \ {"unsent", "lost"}
    BY <2>1, <2>2 DEF Keeps, PipelineInv, ConsumerInv, TypeOK
  <2>4. where[<<e, i>>] = "gone" => logged[<<e, i>>] > 0
    BY <2>2 DEF PipelineInv, ConsumerInv, Settling, NothingDroppedUnlogged
  <2> QED BY <2>3, <2>4 DEF Place, Accepted, Queued
<1> QED BY <1>1, PipelineInvariant, PTL

----------------------------------------------------------------------------
(* The abstract way of an event. *)

Fates == [e \in Event |-> Fate(e)]
Logs == [e \in Event |-> logged[<<e, 1>>] + logged[<<e, 2>>]]

Unseen == /\ Fates' = Fates /\ Logs' = Logs /\ before' = before /\ Queued' = Queued
          /\ (faults > 0)' = (faults > 0)

\* A copy with a line is a line of its event.
LEMMA LineOfEvent ==
  ASSUME TypeOK, NEW e \in Event, NEW i \in {1, 2}, logged[<<e, i>>] > 0
  PROVE  Logs[e] > 0
<1>1. logged[<<e, 1>>] \in Nat /\ logged[<<e, 2>>] \in Nat
  BY MessageIsCopy DEF TypeOK
<1>2. Logs[e] = logged[<<e, 1>>] + logged[<<e, 2>>]
  BY DEF Logs
<1>3. CASE i = 1
  BY <1>1, <1>2, <1>3
<1>4. CASE i = 2
  BY <1>1, <1>2, <1>4
<1> QED BY <1>3, <1>4

\* A line in the log is of an event that happened; undisturbed, it is the first
\* line of its copy, which is in the queue, and what was accepted before has its line.
LEMMA LogStep == PipelineInv /\ Consuming /\ OnMessage => Delivery!Next
<1> SUFFICES ASSUME PipelineInv, Consuming, OnMessage PROVE Delivery!Next
  OBVIOUS
<1>0. /\ TypeOK /\ Numbered /\ Linked /\ Undisturbed /\ Settling /\ Paid /\ InOrder
      /\ Routed /\ Ahead /\ stage \in [Event -> Pub!Stage] /\ copies \in [Event -> 0..2]
      /\ before \in [Event -> SUBSET Event]
      /\ UNCHANGED <<stage, copies, before>>
  BY DEF PipelineInv, ConsumerInv, Consuming, PTypeOK
<1>a. current \in Message /\ current \notin Malformed /\ pc = "callback"
  BY <1>0, PipelineAssumption DEF OnMessage, TypeOK
<1>b. PICK e \in Event, k \in {1, 2} : current = <<e, k>>
  BY <1>a, MessageIsCopy
<1>1. /\ current \in Message /\ current \notin Malformed
      /\ e \in Event /\ k \in {1, 2} /\ current = <<e, k>>
      /\ pc = "callback"
  BY <1>a, <1>b
<1>2. logged' = [logged EXCEPT ![current] = @ + 1] /\ faults' = faults
  BY <1>1 DEF OnMessage
<1>3. Fates' = Fates
  BY <1>0 DEF Fates, Fate
<1>4. Logs' = [Logs EXCEPT ![e] = @ + 1]
  <2>1. \A x \in Event : logged[<<x, 1>>] \in Nat /\ logged[<<x, 2>>] \in Nat
    BY <1>0, MessageIsCopy DEF TypeOK
  <2>2. ASSUME NEW x \in Event, NEW i \in {1, 2}
        PROVE  logged'[<<x, i>>] = logged[<<x, i>>] + (IF x = e /\ i = k THEN 1 ELSE 0)
    <3>1. <<x, i>> \in Message /\ logged[<<x, i>>] \in Nat
      BY <2>1, MessageIsCopy
    <3>2. CASE x = e /\ i = k
      <4>1. <<x, i>> = current
        BY <1>1, <3>2
      <4>2. logged'[current] = logged[current] + 1
        BY <1>0, <1>1, <1>2 DEF TypeOK
      <4> QED BY <3>2, <4>1, <4>2
    <3>3. CASE ~(x = e /\ i = k)
      <4>1. <<x, i>> # current
        BY <1>1, <3>3
      <4>2. logged'[<<x, i>>] = logged[<<x, i>>]
        BY <1>0, <1>2, <3>1, <4>1 DEF TypeOK
      <4> QED BY <3>1, <3>3, <4>2
    <3> QED BY <3>2, <3>3
  <2>3. ASSUME NEW x \in Event
        PROVE  logged'[<<x, 1>>] + logged'[<<x, 2>>]
                 = logged[<<x, 1>>] + logged[<<x, 2>>] + (IF x = e THEN 1 ELSE 0)
    <3>1. /\ logged'[<<x, 1>>] = logged[<<x, 1>>] + (IF x = e /\ 1 = k THEN 1 ELSE 0)
          /\ logged'[<<x, 2>>] = logged[<<x, 2>>] + (IF x = e /\ 2 = k THEN 1 ELSE 0)
      BY <2>2
    <3>2. logged[<<x, 1>>] \in Nat /\ logged[<<x, 2>>] \in Nat
      BY <2>1
    <3>3. CASE x # e
      BY <3>1, <3>2, <3>3
    <3>4. CASE x = e /\ k = 1
      BY <3>1, <3>2, <3>4
    <3>5. CASE x = e /\ k = 2
      BY <3>1, <3>2, <3>5
    <3> QED BY <1>1, <3>3, <3>4, <3>5
  <2>4. ASSUME NEW x \in Event, x # e PROVE Logs'[x] = Logs[x]
    BY <2>1, <2>3, <2>4 DEF Logs
  <2>5. Logs'[e] = Logs[e] + 1
    BY <1>1, <2>3 DEF Logs
  <2> QED BY <1>1, <2>4, <2>5 DEF Logs
<1>5. k <= copies[e] /\ Fates[e] # "none"
  <2>1. where[current] # "unsent"
    BY <1>0, <1>1, ConsumerAssumption DEF Linked
  <2>2. k <= copies[e]
    BY <1>0, <1>1, <2>1 DEF Routed
  <2>3. copies[e] > 0 /\ stage[e] \in Pub!Stage
    BY <1>0, <1>1, <2>2
  <2>4. stage[e] \in {"publishing", "ok", "failed"}
    BY <1>0, <1>1, <2>3 DEF Routed, Pub!Stage
  <2>5. Fates[e] = Fate(e)
    BY <1>1 DEF Fates
  <2> QED BY <2>2, <2>4, <2>5 DEF Fate
<1>6. ASSUME faults = 0
      PROVE  e \in Queued /\ Logs[e] < 2 /\ \A f \in before[e] : Logs[f] > 0
  <2>1. linked /\ where[current] = "delivered"
    BY <1>0, <1>1, <1>6, ConsumerAssumption DEF Undisturbed, Linked, Up
  <2>2. logged[<<e, k>>] = 0
    BY <1>0, <1>1, <1>6, <2>1 DEF Paid, Settled, TypeOK
  <2>3. \A x \in Event, i \in {1, 2} : logged[<<x, i>>] \in 0..1
    <3>1. \A m \in Message : logged[m] \in Nat /\ logged[m] <= faults + 1
      BY <1>0 DEF Paid, TypeOK
    <3>2. \A m \in Message : logged[m] \in 0..1
      BY <1>6, <3>1
    <3> QED BY <3>2, MessageIsCopy
  <2>4. Logs[e] = logged[<<e, 1>>] + logged[<<e, 2>>]
    BY <1>1 DEF Logs
  <2>5. Logs[e] < 2
    BY <1>1, <2>2, <2>3, <2>4
  <2>6. ASSUME NEW f \in before[e] PROVE Logs[f] > 0
    <3>1. f \in Event
      BY <1>0, <1>1
    <3>2. PICK i \in {1, 2} : Keeps(f, i) /\ arrival[<<f, i>>] < arrival[<<e, k>>]
      BY <1>0, <1>1, <1>5 DEF Ahead
    <3>3. <<f, i>> \in Message /\ <<f, i>> \in Arrived /\ arrival[<<f, i>>] < arrival[current]
      BY <1>0, <1>1, <3>1, <3>2, MessageIsCopy DEF Keeps, Numbered, Arrived
    <3>4. where[<<f, i>>] \in Settled
      BY <1>0, <1>1, <1>6, <3>3 DEF InOrder, Ordered
    <3>5. logged[<<f, i>>] > 0
      BY <1>0, <3>3, <3>4, PipelineAssumption DEF Settling, NothingDroppedUnlogged, Settled
    <3>6. Logs[f] = logged[<<f, 1>>] + logged[<<f, 2>>]
      BY <3>1 DEF Logs
    <3>7. logged[<<f, 1>>] \in 0..1 /\ logged[<<f, 2>>] \in 0..1
      BY <2>3, <3>1
    <3>8. CASE i = 1
      BY <3>5, <3>6, <3>7, <3>8
    <3>9. CASE i = 2
      BY <3>5, <3>6, <3>7, <3>9
    <3> QED BY <3>8, <3>9
  <2>7. e \in Queued
    BY <1>1, <2>1 DEF Queued
  <2> QED BY <2>5, <2>6, <2>7
<1>7. faults > 0 \/ faults = 0
  BY <1>0 DEF TypeOK
<1>8. Queued' = Queued
  BY DEF OnMessage, SameBroker, Queued
<1>9. Delivery!Log(e)
  <2>1. /\ Fates[e] # "none"
        /\ (faults > 0) \/ (e \in Queued /\ Logs[e] < 2 /\ \A f \in before[e] : Logs[f] > 0)
        /\ Logs' = [Logs EXCEPT ![e] = @ + 1]
        /\ UNCHANGED <<Fates, before, Queued, faults>>
    BY <1>0, <1>8, <1>2, <1>3, <1>4, <1>5, <1>6, <1>7
  <2> QED BY <2>1 DEF Delivery!Log, Fates, Logs
<1> QED BY <1>9 DEF Delivery!Next

\* No step of the consumer puts a copy into the queue, nor takes one out of it that
\* has no line; and a fault takes out none.
LEMMA StepLeaves ==
  ASSUME ConsumerInv, ConsumerStep, NEW m \in Message
  PROVE  /\ where[m] \in {"unsent", "gone", "lost"} => where'[m] = where[m]
         /\ where[m] \notin {"unsent", "gone", "lost"} /\ where'[m] \in {"unsent", "gone", "lost"}
              => where[m] = "settling" /\ faults' = faults
<1>0. TypeOK /\ Linked /\ faults \in Nat
  BY DEF ConsumerInv, TypeOK
<1> USE DEF SameBroker, TypeOK, main
<1>1. CASE Loop \/ Connect \/ Declare \/ Activate \/ Stopped \/ Failed \/ WakeUp \/ Dispatch
             \/ Lost \/ OnMessage
  BY <1>1 DEF Loop, Connect, Declare, Activate, Stopped, Failed, WakeUp, Dispatch, Lost, OnMessage
<1>2. CASE Ack \/ Nack
  BY <1>0, <1>2 DEF Ack, Nack, SettleCurrent
<1>3. CASE CloseConnection
  BY <1>0, <1>3 DEF CloseConnection
<1>4. CASE ConnectFails \/ Signal \/ Restart
  BY <1>4 DEF ConnectFails, Signal, Restart
<1>5. CASE Die \/ LoseConnection \/ BrokerCancels
  BY <1>0, <1>5 DEF Die, LoseConnection, BrokerCancels, Strand
<1>6. CASE Requeue
  BY <1>0, <1>6 DEF Requeue
<1>7. CASE \E n \in Message : Broker(n)
  BY <1>0, <1>7 DEF Broker, Deliver, Settle, IsFirst, Ready
<1> QED BY <1>1, <1>2, <1>3, <1>4, <1>5, <1>6, <1>7 DEF ConsumerStep, Main

\* Whatever else the consumer and the broker do is not seen, or disturbs, or takes
\* out of the queue what was logged.
LEMMA OtherStep ==
  PipelineInv /\ Consuming /\ ~OnMessage => Delivery!Disturb \/ Delivery!Leave \/ Unseen
<1> SUFFICES ASSUME PipelineInv, Consuming, ~OnMessage
             PROVE  Delivery!Disturb \/ Delivery!Leave \/ Unseen
  OBVIOUS
<1>0. /\ ConsumerInv /\ ConsumerStep /\ TypeOK /\ Settling
      /\ faults \in Nat /\ UNCHANGED <<stage, copies, before>>
  BY DEF PipelineInv, ConsumerInv, TypeOK, Consuming, ConsumerStep
<1>1. Fates' = Fates
  BY <1>0 DEF Fates, Fate
<1>2. logged' = logged /\ faults' \in {faults, faults + 1}
  <2>1. CASE Main
    BY <2>1 DEF Main, SameBroker, Loop, Connect, Declare, Activate, Dispatch, Stopped, Lost,
       Ack, Nack, CloseConnection, Failed, WakeUp
  <2>2. CASE ConnectFails \/ Die \/ LoseConnection \/ BrokerCancels
    BY <2>2 DEF ConnectFails, Die, LoseConnection, BrokerCancels
  <2>3. CASE Signal \/ Restart \/ Requeue \/ \E m \in Message : Broker(m)
    BY <2>3 DEF Signal, Restart, Requeue, Broker, Deliver, Settle
  <2> QED BY <2>1, <2>2, <2>3 DEF Consuming
<1>3. Logs' = Logs
  BY <1>2 DEF Logs
<1>4. \A m \in Message : where[m] \in Place /\ where'[m] \in Place
  BY <1>0, StepTypes DEF TypeOK
<1>5. Queued' \subseteq Queued
  BY <1>0, <1>4, StepLeaves, MessageIsCopy DEF Queued, Place
<1>6. ASSUME NEW e \in Queued \ Queued' PROVE faults' = faults /\ Logs[e] > 0
  <2>1. PICK i \in {1, 2} : where[<<e, i>>] \in {"ready", "delivered", "settling", "stranded"}
    BY <1>6 DEF Queued
  <2>2. /\ e \in Event /\ <<e, i>> \in Message /\ <<e, i>> \notin Malformed
        /\ where'[<<e, i>>] \notin {"ready", "delivered", "settling", "stranded"}
    BY <1>6, <2>1, MessageIsCopy, PipelineAssumption DEF Queued
  <2>3. where[<<e, i>>] = "settling" /\ faults' = faults
    BY <1>0, <1>4, <2>1, <2>2, StepLeaves DEF Place
  <2>4. logged[<<e, i>>] > 0
    BY <1>0, <2>2, <2>3 DEF Settling, NothingDroppedUnlogged
  <2> QED BY <1>0, <2>2, <2>3, <2>4, LineOfEvent
<1>7. CASE faults = 0 /\ faults' = 1
  <2>1. ~(faults > 0) /\ faults' > 0
    BY <1>7
  <2>2. Queued' = Queued
    BY <1>5, <1>6, <1>7
  <2> QED BY <1>0, <1>1, <1>3, <2>1, <2>2 DEF Delivery!Disturb, Fates, Logs
<1>8. CASE ~(faults = 0 /\ faults' = 1)
  <2>1. (faults' > 0) = (faults > 0)
    BY <1>0, <1>2, <1>8
  <2>2. CASE Queued' = Queued
    BY <1>0, <1>1, <1>3, <2>1, <2>2 DEF Unseen
  <2>3. CASE Queued' # Queued
    <3> DEFINE gone == Queued \ Queued'
    <3>1. gone \in SUBSET Queued /\ Queued' = Queued \ gone
      BY <1>5
    <3>2. \A e \in gone : Logs[e] > 0
      BY <1>6
    <3> HIDE DEF gone
    <3> QED BY <1>0, <1>1, <1>3, <2>1, <3>1, <3>2 DEF Delivery!Leave, Fates, Logs
  <2> QED BY <2>2, <2>3
<1> QED BY <1>7, <1>8

\* A publisher's step is the commit, the event's way into the queue, the answer of
\* publish, or not seen.
LEMMA PublishingStep ==
  ASSUME PipelineInv, NEW e \in Event, Publishing(e)
  PROVE  Delivery!Next \/ Unseen
<1>0. stage \in [Event -> Pub!Stage]
  BY DEF PipelineInv, PTypeOK
<1>1. \A x \in Event : Fates[x] = Fate(x)
  BY DEF Fates
<1>2. CASE Commit(e)
  <2>1. /\ stage[e] = "idle" /\ stage' = [stage EXCEPT ![e] = "publishing"]
        /\ before' = [before EXCEPT ![e] = Accepted] /\ UNCHANGED <<logged, faults>>
    BY <1>2 DEF Commit, Pub!Call, consumer
  <2>2. Fates[e] = "none" /\ Fates' = [Fates EXCEPT ![e] = "happened"]
    BY <1>0, <2>1 DEF Fates, Fate, Pub!Stage
  <2>3. Accepted = {x \in Event : Fates[x] = "accepted"}
    BY <1>0 DEF Accepted, Fates, Fate, Pub!Stage
  <2>4. Logs' = Logs /\ Queued' = Queued
    BY <1>2, <2>1 DEF Logs, Queued, Commit, consumer
  <2>5. Delivery!Happen(e)
    BY <2>1, <2>2, <2>3, <2>4 DEF Delivery!Happen, Delivery!Accepted, Fates, Logs
  <2> QED BY <2>5 DEF Delivery!Next
<1>3. CASE Put(e)
  <2>1. /\ UNCHANGED <<stage, logged, faults, before>> /\ stage[e] = "publishing"
        /\ copies'[e] \in {1, 2} /\ Route(<<e, copies'[e]>>)
    BY <1>3 DEF Put, Pub!Put, Route, PipelineInv, PTypeOK
  <2>2. Fates' = Fates /\ Logs' = Logs /\ Fates[e] = "happened"
    BY <2>1 DEF Fates, Logs, Fate
  <2>3. Queued' = Queued \cup {e}
    <3>1. /\ <<e, copies'[e]>> \in Message
          /\ where' = [where EXCEPT ![<<e, copies'[e]>>] = "ready"]
          /\ where[<<e, copies'[e]>>] = "unsent"
      BY <2>1, MessageIsCopy DEF Route
    <3>2. \A x \in Event, i \in {1, 2} :
            where'[<<x, i>>] = IF <<x, i>> = <<e, copies'[e]>> THEN "ready" ELSE where[<<x, i>>]
      BY <3>1, MessageIsCopy DEF PipelineInv, ConsumerInv, TypeOK
    <3>3. e \in Queued'
      BY <2>1, <3>2 DEF Queued
    <3>4. \A x \in Event \ {e}, i \in {1, 2} : where'[<<x, i>>] = where[<<x, i>>]
      BY <3>2
    <3>5. \A x \in Event \ {e} : x \in Queued' <=> x \in Queued
      BY <3>4 DEF Queued
    <3> QED BY <3>3, <3>5 DEF Queued
  <2>4. CASE e \in Queued
    BY <2>1, <2>2, <2>3, <2>4 DEF Unseen
  <2>5. CASE e \notin Queued
    <3>1. Delivery!Enqueue(e)
      BY <2>1, <2>2, <2>3, <2>5 DEF Delivery!Enqueue, Fates, Logs
    <3> QED BY <3>1 DEF Delivery!Next
  <2> QED BY <2>4, <2>5
<1>4. CASE Return(e)
  <2>1. /\ stage[e] = "publishing" /\ stage' = [stage EXCEPT ![e] = "ok"]
        /\ UNCHANGED <<before, logged, faults>>
    BY <1>4 DEF Return, Pub!Return, consumer
  <2>2. Fates[e] = "happened" /\ Fates' = [Fates EXCEPT ![e] = "accepted"]
    BY <1>0, <2>1 DEF Fates, Fate, Pub!Stage
  <2>3. Logs' = Logs /\ Queued' = Queued
    BY <1>4, <2>1 DEF Logs, Queued, Return, consumer
  <2>4. e \in Queued \/ Logs[e] > 0
    <3>1. copies[e] \in {1, 2} /\ where[<<e, copies[e]>>] # "lost"
      BY <1>4 DEF Return, Pub!Return, PipelineInv, PTypeOK
    <3>2. where[<<e, copies[e]>>] # "unsent"
      <4>1. copies[e] <= copies[e]
        BY <3>1
      <4> QED BY <3>1, <4>1 DEF PipelineInv, Routed
    <3>3. <<e, copies[e]>> \in Message /\ <<e, copies[e]>> \notin Malformed
      BY <3>1, MessageIsCopy, PipelineAssumption
    <3>4. where[<<e, copies[e]>>] \in Place /\ TypeOK
      BY <3>3 DEF PipelineInv, ConsumerInv, TypeOK
    <3>5. where[<<e, copies[e]>>] = "gone" => logged[<<e, copies[e]>>] > 0
      BY <3>3 DEF PipelineInv, ConsumerInv, Settling, NothingDroppedUnlogged
    <3>6. CASE where[<<e, copies[e]>>] = "gone"
      BY <3>1, <3>4, <3>5, <3>6, LineOfEvent
    <3>7. CASE where[<<e, copies[e]>>] # "gone"
      BY <3>1, <3>2, <3>4, <3>7 DEF Place, Queued
    <3> QED BY <3>6, <3>7
  <2>5. Delivery!Accept(e)
    BY <2>1, <2>2, <2>3, <2>4 DEF Delivery!Accept, Fates, Logs
  <2> QED BY <2>5 DEF Delivery!Next
<1>5. CASE Raise(e)
  <2>1. /\ stage[e] = "publishing" /\ stage' = [stage EXCEPT ![e] = "failed"]
        /\ UNCHANGED <<before, logged, faults>>
    BY <1>5 DEF Raise, Pub!Raise, consumer
  <2>2. Fates[e] = "happened" /\ Fates' = [Fates EXCEPT ![e] = "gaveUp"]
    BY <1>0, <2>1 DEF Fates, Fate, Pub!Stage
  <2>3. Logs' = Logs /\ Queued' = Queued
    BY <1>5, <2>1 DEF Logs, Queued, Raise, consumer
  <2>4. Delivery!GiveUp(e)
    BY <2>1, <2>2, <2>3 DEF Delivery!GiveUp, Fates, Logs
  <2> QED BY <2>4 DEF Delivery!Next
<1> QED BY <1>2, <1>3, <1>4, <1>5 DEF Publishing

\* What a broker forgets leaves the queue, if it is the only copy; nobody had
\* accepted it.
LEMMA ForgetStep ==
  ASSUME PipelineInv, NEW m \in Message, BrokerForgets(m)
  PROVE  Delivery!Leave \/ Unseen
<1>0. /\ UNCHANGED <<stage, before, logged, faults>> /\ stage[m[1]] # "ok"
      /\ where' = [where EXCEPT ![m] = "lost"] /\ where \in [Message -> Place]
      /\ stage \in [Event -> Pub!Stage]
  BY DEF BrokerForgets, PipelineInv, PTypeOK, ConsumerInv, TypeOK
<1> DEFINE e == m[1]
<1>1. e \in Event /\ Fates[e] # "accepted" /\ Fates' = Fates /\ Logs' = Logs
  BY <1>0, MessageIsCopy DEF Fates, Fate, Logs, Pub!Stage
<1>2. \A x \in Event, i \in {1, 2} : x # e => where'[<<x, i>>] = where[<<x, i>>]
  BY <1>0, MessageIsCopy
<1>3. \A i \in {1, 2} : where'[<<e, i>>] \in {where[<<e, i>>], "lost"}
  BY <1>0, <1>1, MessageIsCopy
<1>4. \A x \in Event : x # e => (x \in Queued' <=> x \in Queued)
  BY <1>2 DEF Queued
<1>5. Queued' \in {Queued, Queued \ {e}}
  <2>1. e \in Queued' => e \in Queued
    BY <1>1, <1>3 DEF Queued
  <2> QED BY <1>4, <2>1 DEF Queued
<1>6. CASE Queued' = Queued
  BY <1>0, <1>1, <1>6 DEF Unseen
<1>7. CASE Queued' # Queued
  <2>1. {e} \in SUBSET Queued /\ Queued' = Queued \ {e}
    BY <1>5, <1>7
  <2>2. \E events \in SUBSET Queued :
          /\ \A x \in events : Logs[x] > 0 \/ Fates[x] # "accepted"
          /\ Queued' = Queued \ events
    BY <1>1, <2>1
  <2> QED BY <1>0, <1>1, <2>2 DEF Delivery!Leave, Fates, Logs
<1> QED BY <1>6, <1>7

\* Publishers, broker and consumer together implement EventDelivery: for any
\* number of events in flight at once, of retries and of faults.
THEOREM PipelineImplementsDelivery == PSpec => DeliverySpec
<1>1. PInit => Delivery!Init
  BY MessageIsCopy DEF PInit, Init, Pub!Init, Delivery!Init, Fate, Queued
<1>2. PipelineInv /\ [PNext]_pvars => Delivery!Next \/ Unseen
  <2> SUFFICES ASSUME PipelineInv, [PNext]_pvars PROVE Delivery!Next \/ Unseen
    OBVIOUS
  <2>1. CASE Consuming
    BY <2>1, LogStep, OtherStep DEF Delivery!Next
  <2>2. ASSUME NEW e \in Event, Publishing(e) PROVE Delivery!Next \/ Unseen
    BY <2>2, PublishingStep
  <2>3. CASE \E m \in Message : BrokerForgets(m)
    BY <2>3, ForgetStep DEF Delivery!Next
  <2>4. CASE UNCHANGED pvars
    BY <2>4 DEF pvars, consumer, Unseen, Fates, Fate, Logs, Queued
  <2> QED BY <2>1, <2>2, <2>3, <2>4 DEF PNext
<1>3. PipelineInv /\ [PNext]_pvars => [Delivery!Next]_<<Fates, Logs, before, Queued, faults > 0>>
  <2>1. Unseen => UNCHANGED <<Fates, Logs, before, Queued, faults > 0>>
    BY DEF Unseen
  <2> QED BY <1>2, <2>1
<1> QED BY <1>1, <1>3, PipelineInvariant, PTL
        DEF PSpec, DeliverySpec, Delivery!Spec, Delivery!delivery, Fates, Logs

----------------------------------------------------------------------------
(* What a reader of the log may rely on. *)

\* What EventDelivery comes to, from its own steps alone: whatever implements it
\* keeps the promise.
LEMMA DeliveryKeepsPromise == DeliverySpec => []DeliveryPromised
<1> DEFINE Types == /\ Fates \in [Event -> Delivery!Fate] /\ Logs \in [Event -> Nat]
                    /\ before \in [Event -> SUBSET Event]
           Promise == /\ \A e \in Event : Logs[e] > 0 => Fates[e] # "none"
                      /\ \A e \in Event : Fates[e] = "accepted" => Logs[e] > 0 \/ e \in Queued
                      /\ ~(faults > 0) => \A e \in Event :
                           /\ Logs[e] <= 2
                           /\ Logs[e] > 0 => \A f \in before[e] : Logs[f] > 0
           Inv == Types /\ Promise
<1>1. Promise <=> DeliveryPromised
  BY DEF DeliveryPromised, Delivery!Promised, Delivery!Accepted, Fates, Logs
<1>2. Delivery!Init => Inv
  <2> SUFFICES ASSUME Delivery!Init PROVE Inv
    OBVIOUS
  <2>1. /\ Fates = [e \in Event |-> "none"] /\ Logs = [e \in Event |-> 0]
        /\ before = [e \in Event |-> {}]
    BY DEF Delivery!Init, Fates, Logs
  <2> QED BY <2>1 DEF Delivery!Fate
<1>3. ASSUME Inv, NEW e \in Event, Delivery!Happen(e) PROVE Inv'
  <2>1. /\ Fates[e] = "none" /\ Fates' = [Fates EXCEPT ![e] = "happened"]
        /\ before' = [before EXCEPT ![e] = {x \in Event : Fates[x] = "accepted"}]
        /\ Logs' = Logs /\ Queued' = Queued /\ (faults > 0)' = (faults > 0)
    BY <1>3 DEF Delivery!Happen, Delivery!Accepted, Fates, Logs
  <2>2. ~(Logs[e] > 0)
    BY <1>3, <2>1
  <2>3. Types'
    BY <1>3, <2>1 DEF Delivery!Fate
  <2> QED BY <1>3, <2>1, <2>2, <2>3
<1>4. ASSUME Inv, NEW e \in Event, Delivery!Accept(e) \/ Delivery!GiveUp(e) PROVE Inv'
  <2>1. PICK fate \in {"accepted", "gaveUp"} :
          /\ Fates' = [Fates EXCEPT ![e] = fate]
          /\ fate = "accepted" => e \in Queued \/ Logs[e] > 0
    BY <1>4 DEF Delivery!Accept, Delivery!GiveUp, Fates, Logs
  <2>2. Logs' = Logs /\ before' = before /\ Queued' = Queued /\ (faults > 0)' = (faults > 0)
    BY <1>4 DEF Delivery!Accept, Delivery!GiveUp, Logs
  <2> QED BY <1>4, <2>1, <2>2 DEF Delivery!Fate
<1>5. ASSUME Inv, NEW e \in Event, Delivery!Log(e) PROVE Inv'
  <2>1. /\ Fates[e] # "none" /\ Fates' = Fates /\ before' = before
        /\ Logs' = [Logs EXCEPT ![e] = @ + 1]
        /\ Queued' = Queued /\ (faults > 0)' = (faults > 0)
        /\ faults > 0 \/ (Logs[e] < 2 /\ \A f \in before[e] : Logs[f] > 0)
    BY <1>5 DEF Delivery!Log, Fates, Logs
  <2>2. Logs'[e] = Logs[e] + 1 /\ \A x \in Event \ {e} : Logs'[x] = Logs[x]
    BY <1>5, <2>1
  <2>3. \A x \in Event : Logs[x] > 0 => Logs'[x] > 0
    BY <1>5, <2>2
  <2>4. /\ Types' /\ \A x \in Event : Logs'[x] > 0 => Fates'[x] # "none"
        /\ \A x \in Event : Fates'[x] = "accepted" => Logs'[x] > 0 \/ x \in Queued'
    BY <1>5, <2>1, <2>2, <2>3
  <2>5. ASSUME ~(faults > 0), NEW x \in Event
        PROVE  Logs'[x] <= 2 /\ (Logs'[x] > 0 => \A f \in before[x] : Logs'[f] > 0)
    BY <1>5, <2>1, <2>2, <2>3, <2>5
  <2> QED BY <2>1, <2>4, <2>5
<1>6. ASSUME Inv, NEW e \in Event, Delivery!Enqueue(e) PROVE Inv'
  <2>1. /\ Fates' = Fates /\ Logs' = Logs /\ before' = before /\ Queued' = Queued \cup {e}
        /\ (faults > 0)' = (faults > 0)
    BY <1>6 DEF Delivery!Enqueue, Fates, Logs
  <2> QED BY <1>6, <2>1
<1>7. ASSUME Inv, Delivery!Leave PROVE Inv'
  <2>1. /\ Fates' = Fates /\ Logs' = Logs /\ before' = before
        /\ (faults > 0)' = (faults > 0)
        /\ \A e \in Queued : e \in Queued' \/ Logs[e] > 0 \/ Fates[e] # "accepted"
    BY <1>7 DEF Delivery!Leave, Fates, Logs
  <2> QED BY <1>7, <2>1
<1>8. ASSUME Inv, Delivery!Disturb \/ UNCHANGED <<Fates, Logs, before, Queued, faults > 0>>
      PROVE  Inv'
  <2>1. /\ Fates' = Fates /\ Logs' = Logs /\ before' = before /\ Queued' = Queued
        /\ (faults > 0)' = (faults > 0) \/ (faults > 0)' = TRUE
    BY <1>8 DEF Delivery!Disturb, Fates, Logs
  <2> QED BY <1>8, <2>1
<1>9. Inv /\ [Delivery!Next]_<<Fates, Logs, before, Queued, faults > 0>> => Inv'
  BY <1>3, <1>4, <1>5, <1>6, <1>7, <1>8 DEF Delivery!Next
<1> QED BY <1>1, <1>2, <1>9, PTL
        DEF DeliverySpec, Delivery!Spec, Delivery!delivery, Fates, Logs

\* So does the pipeline: what publish returned for is logged or still in the queue,
\* and in an undisturbed log every event comes after those that were accepted before
\* it happened, and at most twice.
THEOREM PipelineKeepsPromise == PSpec => []DeliveryPromised
BY DeliveryKeepsPromise, PipelineImplementsDelivery, PTL

\* Lines come from copies that were put, and from faults.
THEOREM PipelineLinesArePaidFor == PSpec => []LinesArePaidFor
<1>1. PipelineInv => LinesArePaidFor
  <2> SUFFICES ASSUME PipelineInv, NEW e \in Event, NEW i \in {1, 2}
               PROVE  logged[<<e, i>>] <= IF i <= copies[e] THEN 1 + faults ELSE 0
    BY DEF LinesArePaidFor
  <2>0. <<e, i>> \in Message
    BY MessageIsCopy
  <2>1. /\ logged[<<e, i>>] \in Nat /\ faults \in Nat
        /\ logged[<<e, i>>] <= faults + 1
        /\ where[<<e, i>>] = "unsent" => logged[<<e, i>>] = 0
    <3>1. TypeOK /\ Paid
      BY DEF PipelineInv, ConsumerInv
    <3>2. /\ logged[<<e, i>>] <= faults + 1
          /\ where[<<e, i>>] = "unsent" => logged[<<e, i>>] = 0
      BY <2>0, <3>1 DEF Paid
    <3> QED BY <2>0, <3>1, <3>2 DEF TypeOK
  <2>2. where[<<e, i>>] # "unsent" <=> i <= copies[e]
    BY DEF PipelineInv, Routed
  <2>3. CASE i <= copies[e]
    BY <2>1, <2>3
  <2>4. CASE ~(i <= copies[e])
    <3>1. logged[<<e, i>>] = 0
      BY <2>1, <2>2, <2>4
    <3> QED BY <2>4, <3>1
  <2> QED BY <2>3, <2>4
<1> QED BY <1>1, PipelineInvariant, PTL
============================================================================
