----------------------- MODULE EventPublisher_proofs -----------------------
(***************************************************************************)
(* What publish keeps to, for any number of threads, publishers and         *)
(* connections, and any number of faults.  PublisherInv says who holds a    *)
(* publisher, what a publisher's connection is, and what the faults so far  *)
(* have cost.                                                               *)
(***************************************************************************)
EXTENDS EventPublisher, FiniteSetTheorems, TLAPS

InLock == {"ensure", "connect", "declare", "send", "confirm"}

\* A thread that publishes has its publisher's lock; nobody else has it.
Holding ==
  /\ \A t \in Thread : pc[t] \notin {"idle", "construct"} => mine[t] # NULL
  /\ \A t \in Thread : pc[t] \in InLock => lock[mine[t]] = t
  /\ \A i, t \in Thread : lock[i] = t => pc[t] \in InLock /\ mine[t] = i

\* Each publisher has its own connection, and so has each that was dropped; the
\* channel is one of that connection, and there is one when it is used.
OwnConnections ==
  /\ \A i, j \in Thread : i # j /\ conn[i] # NULL => conn[i] # conn[j]
  /\ \A t, i \in Thread : orphan[t] # NULL => orphan[t] # conn[i]
  /\ \A t, u \in Thread : t # u /\ orphan[t] # NULL => orphan[t] # orphan[u]
  /\ \A i \in Thread : channel[i] # NULL => channel[i] = conn[i]
  /\ \A t \in Thread : pc[t] = "connect" => conn[mine[t]] = NULL
  /\ \A t \in Thread : pc[t] \in {"declare", "send", "confirm"} => conn[mine[t]] # NULL

\* What is open is a publisher's, or was a dropped one's.
Accounted ==
  open = ({conn[i] : i \in Thread} \cup {orphan[t] : t \in Thread}) \ {NULL}

\* The race for the cache: a thread calls the cached publisher, or the one it built
\* itself; only these have connections; who lost left one, and built no other.
Raced ==
  /\ \A t \in Thread : mine[t] \in {NULL, t, cached}
  /\ \A t \in Thread : pc[t] \in {"idle", "construct"} => mine[t] = NULL
  /\ cached = NULL => \A t \in Thread : mine[t] = NULL
  /\ \A i \in Thread : conn[i] # NULL => i = cached \/ mine[i] = i
  /\ \A t \in Thread : orphan[t] # NULL =>
       cached \notin {NULL, t} /\ pc[t] # "construct" /\ mine[t] # t

\* How many copies an attempt may have left by the time it is where it is.
Copied ==
  \A t \in Thread :
    /\ pc[t] \in {"idle", "construct", "acquire"} => copies[t] = 0
    /\ pc[t] \in InLock => attempt[t] \in {1, 2}
    /\ pc[t] \in InLock \ {"confirm"} => copies[t] < attempt[t]
    /\ pc[t] = "confirm" => copies[t] > 0
    /\ copies[t] <= attempt[t]
    /\ pc[t] = "returned" /\ outcome[t] = "ok" => copies[t] > 0

\* The connections that are dead, and nobody has noticed yet.
Dead == open \ alive

\* The threads whose first attempt has failed.
Retrying == {t \in Thread : pc[t] \in InLock /\ attempt[t] = 2}

\* Every fault is charged once: to a connection that is dead, to an attempt
\* that failed, or to an event that was given up after two of them.
Charged ==
  /\ IsFiniteSet(Dead) /\ IsFiniteSet(Retrying)
  /\ Cardinality(Dead) + Cardinality(Retrying) + 2 * lost <= faults

PublisherInv ==
  TypeOK /\ Holding /\ OwnConnections /\ Accounted /\ Raced /\ Copied /\ Charged

----------------------------------------------------------------------------
\* The process starts with no publisher and no connection.
LEMMA InitPublisher == Init => PublisherInv
<1> SUFFICES ASSUME Init PROVE PublisherInv
  OBVIOUS
<1>1. TypeOK /\ Holding /\ OwnConnections /\ Accounted /\ Raced /\ Copied
  BY PublisherAssumption
     DEF Init, TypeOK, Holding, OwnConnections, Accounted, Raced, Copied, InLock, PC
<1>2. Dead = {} /\ Retrying = {}
  BY DEF Init, Dead, Retrying, InLock
<1>3. Charged
  BY <1>2, FS_EmptySet DEF Charged, Init
<1> QED BY <1>1, <1>3 DEF PublisherInv

\* Only a thread that has the lock resets, opens or uses a connection.
LEMMA HoldingStep ==
  ASSUME PublisherInv, NEW t \in Thread, Arrive(t) \/ Publish(t)
  PROVE  Holding'
<1> USE PublisherAssumption DEF Goto, process, InLock
<1>0. TypeOK /\ Holding
  BY DEF PublisherInv
<1>1. CASE Resolve(t) \/ Miss(t) \/ Construct(t)
  BY <1>0, <1>1 DEF Resolve, Miss, Construct, TypeOK, Holding
<1>2. CASE Acquire(t)
  BY <1>0, <1>2 DEF Acquire, TypeOK, Holding
<1>3. ASSUME NEW next \in InLock, Goto(t, next), UNCHANGED <<mine, lock>>, pc[t] \in InLock
      PROVE  Holding'
  BY <1>0, <1>3 DEF TypeOK, Holding
<1>4. ASSUME NEW how, Leave(t, how), UNCHANGED mine, pc[t] \in InLock
      PROVE  Holding'
  BY <1>0, <1>4 DEF Leave, TypeOK, Holding
<1>5. CASE EnsureChannel(t) \/ Connect(t) \/ Declare(t) \/ Send(t)
  BY <1>3, <1>5 DEF EnsureChannel, Connect, Declare, Send, Reset
<1>6. ASSUME Retry(t), pc[t] \in InLock PROVE Holding'
  BY <1>3, <1>4, <1>6 DEF Retry
<1>7. CASE ConnectFails(t) \/ AttemptFails(t)
  BY <1>6, <1>7 DEF ConnectFails, AttemptFails
<1>8. CASE DeclareRefused(t) \/ SendRefused(t) \/ Confirm(t)
  BY <1>4, <1>8 DEF DeclareRefused, SendRefused, Refused, Confirm
<1>9. CASE Finish(t)
  BY <1>0, <1>9 DEF Finish, TypeOK, Holding
<1> QED BY <1>1, <1>2, <1>5, <1>7, <1>8, <1>9 DEF Arrive, Publish

\* A reset takes one publisher's connection, and leaves the others'.
LEMMA ResetKeepsOwn ==
  ASSUME TypeOK, OwnConnections, Accounted, NEW i \in Thread, Reset(i), UNCHANGED orphan
  PROVE  /\ Accounted'
         /\ conn' \in [Thread -> Connection \cup {NULL}]
         /\ channel' \in [Thread -> Connection \cup {NULL}]
         /\ broken' \subseteq open' /\ alive' \subseteq open' /\ open' \subseteq Connection
         /\ \A j, k \in Thread : j # k /\ conn'[j] # NULL => conn'[j] # conn'[k]
         /\ \A t, j \in Thread : orphan'[t] # NULL => orphan'[t] # conn'[j]
         /\ \A j \in Thread : channel'[j] # NULL => channel'[j] = conn'[j]
         /\ \A j \in Thread \ {i} : conn'[j] = conn[j]
         /\ conn'[i] = NULL
BY PublisherAssumption DEF TypeOK, OwnConnections, Accounted, Reset

\* What changes no connection changes none of these facts.
LEMMA MoveKeepsOwn ==
  ASSUME PublisherInv, NEW t \in Thread, NEW next,
         Goto(t, next), UNCHANGED <<conn, channel, orphan, open>>,
         \A u \in Thread \ {t} : mine'[u] = mine[u],
         next = "connect" => mine'[t] = mine[t] /\ conn[mine[t]] = NULL,
         next \in {"declare", "send", "confirm"} => mine'[t] = mine[t] /\ conn[mine[t]] # NULL
  PROVE  OwnConnections' /\ Accounted'
<1>1. Accounted'
  BY DEF PublisherInv, Accounted
<1>2. OwnConnections'
  BY DEF PublisherInv, TypeOK, OwnConnections, Goto
<1> QED BY <1>1, <1>2

\* A publishing thread that resets and goes elsewhere disturbs no other.
LEMMA ResetMoveKeepsOwn ==
  ASSUME PublisherInv, NEW t \in Thread, pc[t] \in InLock, NEW next, Goto(t, next),
         Reset(mine[t]), UNCHANGED <<mine, orphan>>, next \notin {"declare", "send", "confirm"}
  PROVE  OwnConnections' /\ Accounted'
<1>1. /\ TypeOK /\ Holding /\ OwnConnections /\ Accounted
      /\ mine[t] \in Thread
  BY DEF PublisherInv, TypeOK, Holding, InLock
<1>2. \A u \in Thread \ {t} : pc[u] \in InLock => mine[u] \in Thread \ {mine[t]}
  BY <1>1 DEF Holding, TypeOK, InLock
<1>3. OwnConnections'
  BY <1>1, <1>2, ResetKeepsOwn DEF OwnConnections, TypeOK, Goto, InLock
<1> QED BY <1>1, <1>3, ResetKeepsOwn

\* The connections stay each publisher's own, and none is forgotten.
LEMMA OwnConnectionsStep ==
  ASSUME PublisherInv, NEW t \in Thread, Arrive(t) \/ Publish(t)
  PROVE  OwnConnections' /\ Accounted'
<1> USE DEF process
<1>0. /\ TypeOK /\ Holding /\ OwnConnections /\ Accounted
      /\ pc[t] \in InLock => mine[t] \in Thread
  BY DEF PublisherInv, TypeOK, Holding, InLock
<1>1. CASE Resolve(t) \/ Miss(t) \/ Construct(t) \/ Acquire(t)
  <2>1. PICK next \in {"acquire", "construct", "ensure"} : Goto(t, next)
    BY <1>1 DEF Resolve, Miss, Construct, Acquire
  <2>2. UNCHANGED <<conn, channel, orphan, open>> /\ \A u \in Thread \ {t} : mine'[u] = mine[u]
    BY <1>0, <1>1 DEF Resolve, Miss, Construct, Acquire, TypeOK
  <2> QED BY <2>1, <2>2, MoveKeepsOwn
<1>8. CASE Finish(t)
  <2>1. pc[t] = "returned" /\ mine[t] \in Thread /\ open' = open
    BY <1>0, <1>8 DEF Finish, TypeOK, Holding
  <2>2. CASE mine[t] = cached
    <3>1. UNCHANGED <<conn, channel, orphan>> /\ \A u \in Thread \ {t} : mine'[u] = mine[u]
      BY <1>0, <1>8, <2>2 DEF Finish, TypeOK
    <3> QED BY <1>8, <2>1, <3>1, MoveKeepsOwn DEF Finish
  <2>3. CASE mine[t] # cached
    <3>1. mine[t] = t /\ orphan[t] = NULL
      BY <2>1, <2>3, PublisherAssumption DEF PublisherInv, Raced
    <3>2. /\ orphan' = [orphan EXCEPT ![t] = conn[t]]
          /\ conn' = [conn EXCEPT ![t] = NULL]
          /\ channel' = [channel EXCEPT ![t] = NULL]
          /\ pc' = [pc EXCEPT ![t] = "idle"] /\ mine' = [mine EXCEPT ![t] = NULL]
      BY <1>8, <2>3, <3>1 DEF Finish, Goto
    <3>3. Accounted'
      BY <1>0, <2>1, <3>1, <3>2 DEF Accounted, TypeOK
    <3>4. \A u \in Thread \ {t} : pc[u] \in InLock => mine[u] \in Thread \ {t}
      BY <1>0, <2>1, <2>3, <3>1, PublisherAssumption
         DEF Holding, TypeOK, InLock, PublisherInv, Raced
    <3>5. OwnConnections'
      BY <1>0, <3>1, <3>2, <3>4 DEF OwnConnections, TypeOK, InLock
    <3> QED BY <3>3, <3>5
  <2> QED BY <2>2, <2>3
<1>2. CASE EnsureChannel(t)
  <2>1. CASE ChannelIsOpen(mine[t])
    <3>1. conn[mine[t]] # NULL
      BY <1>0, <1>2, <2>1 DEF EnsureChannel, ChannelIsOpen, OwnConnections, InLock
    <3> QED BY <1>2, <2>1, <3>1, MoveKeepsOwn DEF EnsureChannel
  <2>2. CASE ~ChannelIsOpen(mine[t])
    BY <1>2, <2>2, ResetMoveKeepsOwn DEF EnsureChannel, InLock
  <2> QED BY <2>1, <2>2
<1>3. CASE Connect(t)
  <2>1. PICK c \in Connection \ open :
          /\ conn' = [conn EXCEPT ![mine[t]] = c]
          /\ open' = open \cup {c}
    BY <1>3 DEF Connect
  <2>2. /\ mine[t] \in Thread /\ conn[mine[t]] = NULL /\ c # NULL
        /\ UNCHANGED <<channel, orphan, mine>> /\ pc' = [pc EXCEPT ![t] = "declare"]
        /\ channel[mine[t]] = NULL
    BY <1>0, <1>3, <2>1, PublisherAssumption DEF Connect, Goto, OwnConnections, InLock
  <2>3. \A i \in Thread : conn[i] # c /\ orphan[i] # c
    BY <1>0, <2>1, <2>2 DEF Accounted
  <2>4. Accounted'
    BY <1>0, <2>1, <2>2 DEF Accounted, TypeOK
  <2>5. \A u \in Thread \ {t} : pc[u] \in InLock => mine[u] \in Thread \ {mine[t]}
    BY <1>0, <1>3 DEF Holding, TypeOK, InLock, Connect
  <2>6. OwnConnections'
    BY <1>0, <2>1, <2>2, <2>3, <2>5 DEF OwnConnections, TypeOK, InLock
  <2> QED BY <2>4, <2>6
<1>4. ASSUME Retry(t), pc[t] \in InLock PROVE OwnConnections' /\ Accounted'
  BY <1>4, ResetMoveKeepsOwn DEF Retry, Leave
<1>5. CASE ConnectFails(t) \/ AttemptFails(t)
  BY <1>4, <1>5 DEF ConnectFails, AttemptFails, InLock
<1>6. CASE Declare(t)
  <2>1. conn[mine[t]] # NULL /\ mine[t] \in Thread
    BY <1>0, <1>6 DEF Declare, OwnConnections, InLock
  <2>2. Accounted'
    BY <1>0, <1>6 DEF Declare, Accounted
  <2>3. OwnConnections'
    BY <1>0, <1>6, <2>1 DEF Declare, Goto, OwnConnections, TypeOK
  <2> QED BY <2>2, <2>3
<1>7. CASE DeclareRefused(t) \/ SendRefused(t) \/ Confirm(t) \/ Send(t)
  <2>1. PICK next \in {"returned", "confirm"} :
          Goto(t, next) /\ (next = "confirm" => pc[t] = "send")
    BY <1>7 DEF DeclareRefused, SendRefused, Refused, Confirm, Leave, Send
  <2>2. UNCHANGED <<conn, channel, orphan, open, mine>>
    BY <1>7 DEF DeclareRefused, SendRefused, Refused, Confirm, Send
  <2> QED BY <1>0, <2>1, <2>2, MoveKeepsOwn DEF OwnConnections
<1> QED BY <1>1, <1>2, <1>3, <1>5, <1>6, <1>7, <1>8 DEF Arrive, Publish

\* A thread that lost the race calls its own publisher, once.
LEMMA RacedStep ==
  ASSUME PublisherInv, NEW t \in Thread, Arrive(t) \/ Publish(t)
  PROVE  Raced'
<1> USE PublisherAssumption DEF Goto, process
<1>0. /\ TypeOK /\ Holding /\ Raced
      /\ pc[t] \in InLock => mine[t] \in Thread
  BY DEF PublisherInv, TypeOK, Holding, InLock
<1>1. CASE Resolve(t)
  <2>1. /\ cached # NULL /\ UNCHANGED <<cached, conn, orphan>>
        /\ mine' = [mine EXCEPT ![t] = cached] /\ pc' = [pc EXCEPT ![t] = "acquire"]
    BY <1>1 DEF Resolve
  <2>2. mine'[t] = cached /\ \A u \in Thread \ {t} : mine'[u] = mine[u] /\ pc'[u] = pc[u]
    BY <1>0, <2>1 DEF TypeOK
  <2>3. pc'[t] = "acquire"
    BY <1>0, <2>1 DEF TypeOK
  <2>4. \A i \in Thread : conn[i] # NULL => i = cached \/ mine'[i] = i
    <3>1. mine[t] = NULL
      BY <1>0, <1>1 DEF Resolve, Raced
    <3> QED BY <1>0, <2>2, <3>1 DEF Raced
  <2>5. \A u \in Thread : orphan[u] # NULL =>
          cached \notin {NULL, u} /\ pc'[u] # "construct" /\ mine'[u] # u
    BY <1>0, <2>2, <2>3 DEF Raced
  <2> QED BY <1>0, <2>1, <2>2, <2>3, <2>4, <2>5 DEF Raced
<1>9. CASE Miss(t)
  <2>1. /\ cached = NULL /\ UNCHANGED <<cached, conn, orphan, mine>>
    BY <1>9 DEF Miss
  <2>2. \A u \in Thread : orphan[u] = NULL
    BY <1>0, <2>1 DEF Raced
  <2>3. pc[t] = "idle" /\ pc' = [pc EXCEPT ![t] = "construct"]
    BY <1>9 DEF Miss
  <2> QED BY <1>0, <2>1, <2>2, <2>3 DEF TypeOK, Raced
<1>2. CASE Construct(t)
  <2>1. /\ pc[t] = "construct" /\ orphan[t] = NULL /\ UNCHANGED <<conn, orphan>>
        /\ mine' = [mine EXCEPT ![t] = t] /\ pc' = [pc EXCEPT ![t] = "acquire"]
        /\ cached' = IF cached = NULL THEN t ELSE cached
    <3>1. pc[t] = "construct"
      BY <1>2 DEF Construct
    <3>2. orphan[t] = NULL
      BY <1>0, <3>1 DEF Raced
    <3> QED BY <1>2, <3>1, <3>2 DEF Construct
  <2>2. mine'[t] = t /\ \A u \in Thread \ {t} : mine'[u] = mine[u] /\ pc'[u] = pc[u]
    BY <1>0, <2>1 DEF TypeOK
  <2>3. /\ cached' # NULL /\ (cached # NULL => cached' = cached)
        /\ cached = NULL => \A u \in Thread : mine[u] = NULL
    BY <1>0, <2>1 DEF Raced
  <2>4. \A u \in Thread : mine'[u] \in {NULL, u, cached'}
    BY <1>0, <2>2, <2>3 DEF Raced
  <2>5. \A i \in Thread : conn[i] # NULL => i = cached' \/ mine'[i] = i
    BY <1>0, <2>2, <2>3 DEF Raced
  <2>6. \A u \in Thread : orphan[u] # NULL =>
          cached' \notin {NULL, u} /\ pc'[u] # "construct" /\ mine'[u] # u
    BY <1>0, <2>1, <2>2, <2>3 DEF Raced
  <2>7. \A u \in Thread : pc'[u] \in {"idle", "construct"} => mine'[u] = NULL
    <3>1. pc'[t] = "acquire"
      BY <1>0, <2>1 DEF TypeOK
    <3> QED BY <1>0, <2>2, <3>1 DEF Raced
  <2> QED BY <2>1, <2>3, <2>4, <2>5, <2>6, <2>7 DEF Raced
<1>3. CASE Acquire(t)
  BY <1>0, <1>3 DEF Acquire, TypeOK, Raced
<1>4. ASSUME NEW next \in PC \ {"idle", "construct"}, Goto(t, next), UNCHANGED <<cached, mine, orphan>>,
             \A i \in Thread : conn'[i] # NULL => conn[i] # NULL \/ i = mine[t]
      PROVE  Raced'
  <2>1. \A i \in Thread : conn'[i] # NULL => i = cached \/ mine[i] = i
    BY <1>0, <1>4 DEF Raced
  <2> QED BY <1>0, <1>4, <2>1 DEF TypeOK, Raced
<1>5. CASE EnsureChannel(t) \/ Connect(t) \/ Declare(t) \/ Send(t)
  <2>1. PICK next \in PC \ {"idle", "construct"} : Goto(t, next)
    BY <1>5 DEF EnsureChannel, Connect, Declare, Send, PC
  <2>2. UNCHANGED <<cached, mine, orphan>>
    BY <1>5 DEF EnsureChannel, Connect, Declare, Send
  <2>3. \A i \in Thread : conn'[i] # NULL => conn[i] # NULL \/ i = mine[t]
    BY <1>0, <1>5 DEF EnsureChannel, Connect, Declare, Send, Reset, TypeOK
  <2> QED BY <1>4, <2>1, <2>2, <2>3
<1>6. CASE Confirm(t) \/ DeclareRefused(t) \/ SendRefused(t)
  <2>1. Goto(t, "returned") /\ UNCHANGED <<cached, mine, orphan, conn>>
    BY <1>6 DEF Confirm, DeclareRefused, SendRefused, Refused, Leave
  <2> QED BY <1>4, <2>1 DEF PC
<1>7. CASE ConnectFails(t) \/ AttemptFails(t)
  <2>1. Retry(t)
    BY <1>7 DEF ConnectFails, AttemptFails
  <2>2. PICK next \in PC \ {"idle", "construct"} : Goto(t, next)
    BY <2>1 DEF Retry, Leave, PC
  <2>3. UNCHANGED <<cached, mine, orphan>>
    BY <2>1 DEF Retry
  <2>4. \A i \in Thread : conn'[i] # NULL => conn[i] # NULL \/ i = mine[t]
    BY <1>0, <2>1 DEF Retry, Reset, TypeOK
  <2> QED BY <1>4, <2>2, <2>3, <2>4
<1>8. CASE Finish(t)
  <2>1. /\ mine[t] \in Thread /\ pc' = [pc EXCEPT ![t] = "idle"]
        /\ mine' = [mine EXCEPT ![t] = NULL] /\ cached' = cached
    BY <1>0, <1>8 DEF Finish, TypeOK, Holding
  <2>2. CASE mine[t] = cached
    <3>1. UNCHANGED <<conn, orphan>>
      BY <1>8, <2>2 DEF Finish
    <3> QED BY <1>0, <2>1, <2>2, <3>1 DEF TypeOK, Raced
  <2>3. CASE mine[t] # cached
    <3>1. mine[t] = t /\ cached \notin {NULL, t}
      BY <1>0, <2>1, <2>3 DEF Raced
    <3>2. /\ orphan' = [orphan EXCEPT ![t] = conn[t]]
          /\ conn' = [conn EXCEPT ![t] = NULL]
      BY <1>8, <2>3, <3>1 DEF Finish
    <3> QED BY <1>0, <2>1, <3>1, <3>2 DEF TypeOK, Raced
  <2> QED BY <2>2, <2>3
<1> QED BY <1>1, <1>2, <1>3, <1>5, <1>6, <1>7, <1>8, <1>9 DEF Arrive, Publish

\* No step leaves more copies than its attempt accounts for.
LEMMA CopiedStep ==
  ASSUME PublisherInv, NEW t \in Thread, Arrive(t) \/ Publish(t)
  PROVE  Copied'
<1> USE DEF Goto, process, InLock
<1>0. TypeOK /\ Copied
  BY DEF PublisherInv
<1>1. CASE Resolve(t) \/ Miss(t) \/ Construct(t) \/ Acquire(t)
  BY <1>0, <1>1 DEF Resolve, Miss, Construct, Acquire, TypeOK, Copied
<1>2. CASE EnsureChannel(t) \/ Connect(t) \/ Declare(t)
  <2>1. PICK next \in {"send", "connect", "declare"} : Goto(t, next)
    BY <1>2 DEF EnsureChannel, Connect, Declare
  <2>2. UNCHANGED <<attempt, copies, outcome>> /\ pc[t] \in InLock \ {"confirm"}
    BY <1>2 DEF EnsureChannel, Connect, Declare
  <2> QED BY <1>0, <2>1, <2>2 DEF TypeOK, Copied
<1>3. CASE Send(t)
  BY <1>0, <1>3 DEF Send, TypeOK, Copied
<1>4. CASE Finish(t)
  BY <1>0, <1>4 DEF Finish, TypeOK, Copied
<1>5. CASE Confirm(t) \/ DeclareRefused(t) \/ SendRefused(t)
  <2>1. PICK how \in Outcome : Leave(t, how) /\ (how = "ok" => pc[t] = "confirm")
    BY <1>5 DEF Confirm, DeclareRefused, SendRefused, Refused, Outcome
  <2>2. UNCHANGED <<attempt, copies>>
    BY <1>5 DEF Confirm, DeclareRefused, SendRefused, Refused
  <2> QED BY <1>0, <2>1, <2>2 DEF Leave, TypeOK, Copied
<1>6. CASE ConnectFails(t) \/ AttemptFails(t)
  <2>1. Retry(t) /\ UNCHANGED copies /\ pc[t] \in InLock
    BY <1>6 DEF ConnectFails, AttemptFails
  <2>2. CASE attempt[t] = 2
    BY <1>0, <2>1, <2>2 DEF Retry, Leave, TypeOK, Copied
  <2>3. CASE attempt[t] # 2
    BY <1>0, <2>1, <2>3 DEF Retry, TypeOK, Copied
  <2> QED BY <2>2, <2>3
<1> QED BY <1>1, <1>2, <1>3, <1>4, <1>5, <1>6 DEF Arrive, Publish

----------------------------------------------------------------------------
(* What the faults have cost. *)

\* A step that makes nothing dead and lets no attempt fail is free.
LEMMA FreeStep ==
  ASSUME TypeOK, Charged, Dead' \subseteq Dead, Retrying' \subseteq Retrying,
         UNCHANGED <<faults, lost>>
  PROVE  Charged'
<1>1. /\ IsFiniteSet(Dead') /\ IsFiniteSet(Retrying')
      /\ Cardinality(Dead') <= Cardinality(Dead)
      /\ Cardinality(Retrying') <= Cardinality(Retrying)
  BY FS_Subset DEF Charged
<1>2. /\ Cardinality(Dead) \in Nat /\ Cardinality(Retrying) \in Nat
      /\ Cardinality(Dead') \in Nat /\ Cardinality(Retrying') \in Nat
      /\ lost \in Nat /\ faults \in Nat
  BY <1>1, FS_CardinalityType DEF Charged, TypeOK
<1> QED BY <1>1, <1>2 DEF Charged

\* A failed attempt is charged with a fault of its own: with the connection it
\* found dead, or with the refusal it met.
LEMMA RetryIsCharged ==
  ASSUME PublisherInv, NEW t \in Thread, pc[t] \in InLock, Retry(t),
         \/ conn[mine[t]] \in Dead /\ faults' = faults
         \/ faults' = faults + 1
  PROVE  Charged'
<1> DEFINE spent == IF conn[mine[t]] \in Dead THEN 1 ELSE 0
<1>0. /\ TypeOK /\ Copied /\ Charged
      /\ lost \in Nat /\ faults \in Nat
      /\ Cardinality(Dead) \in Nat /\ Cardinality(Retrying) \in Nat
  BY FS_CardinalityType DEF PublisherInv, Charged, TypeOK
<1>1. IsFiniteSet(Dead') /\ Cardinality(Dead') = Cardinality(Dead) - spent
  <2>1. Dead' = Dead \ {conn[mine[t]]}
    BY DEF Retry, Reset, Dead
  <2>2. IsFiniteSet(Dead)
    BY <1>0 DEF Charged
  <2>3. /\ IsFiniteSet(Dead \ {conn[mine[t]]})
        /\ Cardinality(Dead \ {conn[mine[t]]})
             = IF conn[mine[t]] \in Dead THEN Cardinality(Dead) - 1 ELSE Cardinality(Dead)
    BY <2>2, FS_RemoveElement
  <2>4. CASE conn[mine[t]] \in Dead
    BY <2>1, <2>3, <2>4
  <2>5. CASE conn[mine[t]] \notin Dead
    BY <1>0, <2>1, <2>3, <2>5
  <2> QED BY <2>4, <2>5
<1>2. CASE attempt[t] = 2
  <2>1. t \in Retrying /\ Retrying' = Retrying \ {t}
    BY <1>0, <1>2 DEF Retry, Leave, Goto, Retrying, TypeOK, InLock
  <2>2. IsFiniteSet(Retrying') /\ Cardinality(Retrying') = Cardinality(Retrying) - 1
    BY <1>0, <2>1, FS_RemoveElement DEF Charged
  <2>3. lost' = lost + 1
    BY <1>2 DEF Retry
  <2> QED BY <1>0, <1>1, <2>2, <2>3 DEF Charged
<1>3. CASE attempt[t] # 2
  <2>1. t \notin Retrying /\ Retrying' = Retrying \cup {t}
    BY <1>0, <1>3 DEF Retry, Goto, Retrying, TypeOK, InLock
  <2>2. IsFiniteSet(Retrying') /\ Cardinality(Retrying') = Cardinality(Retrying) + 1
    BY <1>0, <2>1, FS_AddElement DEF Charged
  <2>3. lost' = lost
    BY <1>3 DEF Retry
  <2> QED BY <1>0, <1>1, <2>2, <2>3 DEF Charged
<1> QED BY <1>2, <1>3

\* No step of a thread costs more than the faults have paid for.
LEMMA ChargedStep ==
  ASSUME PublisherInv, NEW t \in Thread, Arrive(t) \/ Publish(t)
  PROVE  Charged'
<1> USE DEF Goto, process
<1>0. /\ TypeOK /\ Holding /\ OwnConnections /\ Accounted /\ Copied /\ Charged
      /\ pc[t] \in InLock => mine[t] \in Thread
  BY DEF PublisherInv, TypeOK, Holding, InLock
<1>1. ASSUME NEW next, Goto(t, next), UNCHANGED attempt,
             next \in InLock => pc[t] \in InLock
      PROVE  Retrying' \subseteq Retrying
  BY <1>0, <1>1 DEF Retrying, TypeOK, InLock
<1>2. CASE Resolve(t) \/ Miss(t) \/ Construct(t) \/ Send(t) \/ Declare(t)
  <2>1. Retrying' \subseteq Retrying
    BY <1>1, <1>2 DEF Resolve, Miss, Construct, Send, Declare, InLock
  <2>2. Dead' = Dead /\ UNCHANGED <<faults, lost>>
    BY <1>2 DEF Resolve, Miss, Construct, Send, Declare, Dead
  <2> QED BY <1>0, <2>1, <2>2, FreeStep
<1>3. CASE Acquire(t) \/ Finish(t)
  <2>1. Retrying' \subseteq Retrying
    BY <1>0, <1>3 DEF Acquire, Finish, Retrying, TypeOK, InLock
  <2>2. Dead' = Dead /\ UNCHANGED <<faults, lost>>
    BY <1>3 DEF Acquire, Finish, Dead
  <2> QED BY <1>0, <2>1, <2>2, FreeStep
<1>4. CASE EnsureChannel(t) \/ Connect(t)
  <2>1. Retrying' \subseteq Retrying
    BY <1>1, <1>4 DEF EnsureChannel, Connect, InLock
  <2>2. Dead' \subseteq Dead /\ UNCHANGED <<faults, lost>>
    BY <1>4 DEF EnsureChannel, Connect, Reset, Dead
  <2> QED BY <1>0, <2>1, <2>2, FreeStep
<1>5. CASE Confirm(t) \/ DeclareRefused(t) \/ SendRefused(t)
  <2>1. Retrying' \subseteq Retrying
    BY <1>1, <1>5 DEF Confirm, DeclareRefused, SendRefused, Refused, Leave, InLock
  <2>2. Dead' = Dead /\ UNCHANGED <<faults, lost>>
    BY <1>5 DEF Confirm, DeclareRefused, SendRefused, Refused, Dead
  <2> QED BY <1>0, <2>1, <2>2, FreeStep
<1>6. CASE ConnectFails(t)
  BY <1>6, RetryIsCharged DEF ConnectFails, InLock
<1>7. CASE AttemptFails(t)
  <2>1. conn[mine[t]] \in Dead
    BY <1>0, <1>7 DEF AttemptFails, OwnConnections, Accounted, Dead, InLock
  <2> QED BY <1>7, <2>1, RetryIsCharged DEF AttemptFails, InLock
<1> QED BY <1>2, <1>3, <1>4, <1>5, <1>6, <1>7 DEF Arrive, Publish

\* What the charges say of the events that were given up.
LEMMA LossesAreCharged ==
  ASSUME Charged, lost \in Nat, faults \in Nat
  PROVE  OneFaultLosesNothing
<1>1. Cardinality(Dead) \in Nat /\ Cardinality(Retrying) \in Nat
  BY FS_CardinalityType DEF Charged
<1> QED BY <1>1 DEF Charged, OneFaultLosesNothing

----------------------------------------------------------------------------
\* Steps of a thread keep the types; MaxFaults bounds the lost events too.
LEMMA ThreadTypes ==
  ASSUME PublisherInv, NEW t \in Thread, Arrive(t) \/ Publish(t)
  PROVE  TypeOK'
<1> USE DEF Goto, process, PC
<1>0. /\ TypeOK /\ Holding /\ OwnConnections /\ Accounted /\ Copied
      /\ pc[t] \in InLock => mine[t] \in Thread
      /\ pc[t] \in InLock => attempt[t] \in {1, 2}
  BY DEF PublisherInv, TypeOK, Holding, Copied, InLock
<1>1. CASE Resolve(t) \/ Miss(t) \/ Construct(t)
  BY <1>0, <1>1 DEF Resolve, Miss, Construct, TypeOK
<1>8. CASE Finish(t)
  <2>1. mine[t] \in Thread
    BY <1>0, <1>8 DEF Finish, TypeOK, Holding
  <2> QED BY <1>0, <1>8, <2>1 DEF Finish, TypeOK
<1>2. CASE Acquire(t)
  <2>1. pc' \in [Thread -> PC]
    BY <1>0, <1>2 DEF Acquire, TypeOK
  <2>2. lock' \in [Thread -> Thread \cup {NULL}]
    BY <1>0, <1>2 DEF Acquire, TypeOK
  <2>3. attempt' \in [Thread -> 0..2]
    BY <1>0, <1>2 DEF Acquire, TypeOK
  <2> QED BY <1>0, <1>2, <2>1, <2>2, <2>3 DEF Acquire, TypeOK
<1>3. CASE EnsureChannel(t)
  BY <1>0, <1>3, ResetKeepsOwn DEF EnsureChannel, TypeOK, InLock
<1>4. CASE Connect(t) \/ Declare(t)
  BY <1>0, <1>4 DEF Connect, Declare, TypeOK, InLock
<1>5. CASE Send(t)
  <2>1. copies[t] \in 0..1
    BY <1>0, <1>5 DEF Send, Copied, TypeOK, InLock
  <2> QED BY <1>0, <1>5, <2>1 DEF Send, TypeOK
<1>6. CASE Confirm(t) \/ DeclareRefused(t) \/ SendRefused(t)
  <2>1. PICK how \in Outcome : Leave(t, how)
    BY <1>6 DEF Confirm, DeclareRefused, SendRefused, Refused, Outcome
  <2>2. UNCHANGED <<cached, orphan, conn, channel, open, alive, mine, attempt, copies, faults,
                    lost>>
    BY <1>6 DEF Confirm, DeclareRefused, SendRefused, Refused
  <2>3. broken' \subseteq open
    BY <1>0, <1>6 DEF Confirm, DeclareRefused, SendRefused, TypeOK
  <2> QED BY <1>0, <2>1, <2>2, <2>3 DEF Leave, TypeOK
<1>7. CASE ConnectFails(t) \/ AttemptFails(t)
  <2>1. Retry(t) /\ UNCHANGED copies /\ mine[t] \in Thread
    BY <1>0, <1>7 DEF ConnectFails, AttemptFails, InLock
  <2>2. faults' \in 0..MaxFaults
    BY <1>0, <1>7, PublisherAssumption DEF ConnectFails, AttemptFails, TypeOK
  <2>3. lost' \in Nat
    BY <1>0, <2>1 DEF Retry, TypeOK
  <2>4. lost' \in 0..MaxFaults
    <3>1. /\ IsFiniteSet(Dead') /\ IsFiniteSet(Retrying')
          /\ Cardinality(Dead') + Cardinality(Retrying') + 2 * lost' <= faults'
      BY ChargedStep DEF Charged
    <3>2. Cardinality(Dead') \in Nat /\ Cardinality(Retrying') \in Nat
      BY <3>1, FS_CardinalityType
    <3>3. faults' \in Nat /\ MaxFaults \in Nat /\ faults' <= MaxFaults
      BY <2>2, PublisherAssumption
    <3> QED BY <2>3, <3>1, <3>2, <3>3
  <2>5. /\ conn' \in [Thread -> Connection \cup {NULL}]
        /\ channel' \in [Thread -> Connection \cup {NULL}]
        /\ broken' \subseteq open' /\ alive' \subseteq open' /\ open' \subseteq Connection
    BY <1>0, <2>1, ResetKeepsOwn DEF Retry
  <2>6. /\ pc' \in [Thread -> PC] /\ lock' \in [Thread -> Thread \cup {NULL}]
        /\ attempt' \in [Thread -> 0..2] /\ outcome' \in [Thread -> Outcome \cup {NULL}]
        /\ UNCHANGED <<cached, orphan, mine, copies>>
    BY <1>0, <2>1 DEF Retry, Leave, TypeOK, Outcome
  <2> QED BY <1>0, <2>2, <2>4, <2>5, <2>6 DEF TypeOK
<1> QED BY <1>1, <1>2, <1>3, <1>4, <1>5, <1>6, <1>7, <1>8 DEF Arrive, Publish

\* close() waits for the lock: it takes a connection nobody is using.
LEMMA CloseKeepsInv == PublisherInv /\ Close => PublisherInv'
<1> SUFFICES ASSUME PublisherInv, Close PROVE PublisherInv'
  OBVIOUS
<1>0. /\ TypeOK /\ Holding /\ OwnConnections /\ Accounted /\ Raced /\ Copied /\ Charged
      /\ cached \in Thread /\ Reset(cached) /\ lock[cached] = NULL
      /\ UNCHANGED <<cached, orphan, lock, thread, faults, lost>>
  BY DEF PublisherInv, Close, TypeOK
<1>1. Holding' /\ Copied'
  BY <1>0 DEF Holding, Copied, thread
<1>2. TypeOK'
  BY <1>0, ResetKeepsOwn DEF TypeOK, thread
<1>3. \A t \in Thread : pc[t] \in InLock => mine[t] \in Thread \ {cached}
  BY <1>0, PublisherAssumption DEF Holding, TypeOK, InLock
<1>4. OwnConnections' /\ Accounted'
  BY <1>0, <1>3, ResetKeepsOwn DEF OwnConnections, thread, InLock
<1>5. Retrying' = Retrying /\ Dead' \subseteq Dead
  BY <1>0 DEF Retrying, Dead, Reset, thread
<1>6. Charged'
  BY <1>0, <1>5, FreeStep
<1>7. Raced'
  BY <1>0 DEF Raced, Reset, TypeOK, thread
<1> QED BY <1>1, <1>2, <1>4, <1>6, <1>7 DEF PublisherInv

\* The collector closes what a dropped publisher left, and nothing else.
LEMMA CollectKeepsInv ==
  ASSUME PublisherInv, NEW t \in Thread, Collect(t)
  PROVE  PublisherInv'
<1>0. /\ TypeOK /\ Holding /\ OwnConnections /\ Accounted /\ Raced /\ Copied /\ Charged
      /\ orphan[t] # NULL /\ orphan' = [orphan EXCEPT ![t] = NULL]
      /\ open' = open \ {orphan[t]}
      /\ UNCHANGED <<cached, conn, channel, lock, thread, faults, lost>>
  BY DEF PublisherInv, Collect
<1>1. Holding' /\ Copied'
  BY <1>0 DEF Holding, Copied, thread
<1>2. TypeOK'
  BY <1>0 DEF TypeOK, Collect, thread
<1>3. Accounted'
  BY <1>0 DEF Accounted, OwnConnections, TypeOK
<1>4. OwnConnections'
  BY <1>0 DEF OwnConnections, TypeOK, thread
<1>5. Raced'
  BY <1>0 DEF Raced, TypeOK, thread
<1>6. Retrying' = Retrying /\ Dead' \subseteq Dead
  BY <1>0 DEF Retrying, Dead, Collect, thread
<1>7. Charged'
  BY <1>0, <1>6, FreeStep
<1> QED BY <1>1, <1>2, <1>3, <1>4, <1>5, <1>7 DEF PublisherInv

\* The broker drops a connection: one more is dead, for one more fault.
LEMMA DropKeepsInv ==
  ASSUME PublisherInv, NEW c \in Connection, Drop(c)
  PROVE  PublisherInv'
<1>0. /\ TypeOK /\ Holding /\ OwnConnections /\ Accounted /\ Raced /\ Copied /\ Charged
      /\ faults \in Nat /\ lost \in Nat
  BY DEF PublisherInv, TypeOK
<1>1. Holding' /\ OwnConnections' /\ Accounted' /\ Raced' /\ Copied'
  BY <1>0 DEF Drop, thread, Holding, OwnConnections, Accounted, Raced, Copied
<1>2. TypeOK'
  BY <1>0, PublisherAssumption DEF Drop, thread, TypeOK
<1>3. Retrying' = Retrying /\ Dead' = Dead \cup {c} /\ c \notin Dead
  BY <1>0 DEF Drop, thread, Retrying, Dead, TypeOK
<1>4. IsFiniteSet(Dead) /\ IsFiniteSet(Retrying)
  BY <1>0 DEF Charged
<1>5. IsFiniteSet(Dead') /\ Cardinality(Dead') = Cardinality(Dead) + 1
  BY <1>3, <1>4, FS_AddElement
<1>6. Cardinality(Dead) \in Nat /\ Cardinality(Retrying) \in Nat
  BY <1>4, FS_CardinalityType
<1>7. faults' = faults + 1 /\ lost' = lost
  BY DEF Drop
<1>8. Charged'
  BY <1>0, <1>3, <1>4, <1>5, <1>6, <1>7 DEF Charged
<1> QED BY <1>1, <1>2, <1>8 DEF PublisherInv

\* PublisherInv is an invariant of the publishing side.
THEOREM PublisherInvariant == Spec => []PublisherInv
<1>1. PublisherInv /\ [Next]_vars => PublisherInv'
  <2> SUFFICES ASSUME PublisherInv, [Next]_vars PROVE PublisherInv'
    OBVIOUS
  <2>1. ASSUME NEW t \in Thread, Arrive(t) \/ Publish(t) PROVE PublisherInv'
    BY <2>1, HoldingStep, OwnConnectionsStep, RacedStep, CopiedStep, ChargedStep, ThreadTypes
       DEF PublisherInv
  <2>5. ASSUME NEW t \in Thread, Collect(t) PROVE PublisherInv'
    BY <2>5, CollectKeepsInv
  <2>2. ASSUME NEW c \in Connection, Drop(c) PROVE PublisherInv'
    BY <2>2, DropKeepsInv
  <2>3. CASE Close
    BY <2>3, CloseKeepsInv
  <2>4. CASE UNCHANGED vars
    BY <2>4 DEF PublisherInv, vars, process, thread, TypeOK, Holding, OwnConnections,
       Accounted, Raced, Copied, Charged, Dead, Retrying
  <2> QED BY <2>1, <2>2, <2>3, <2>4, <2>5 DEF Next
<1> QED BY <1>1, InitPublisher, PTL DEF Spec

\* Type correctness, for any number of threads, connections and faults.
THEOREM PublisherTypes == Spec => []TypeOK
BY PublisherInvariant, PTL DEF PublisherInv

\* No two threads ever work on one blocking connection, and nobody closes one that
\* a thread works on.
THEOREM PublisherOneThreadPerConnection == Spec => []OneThreadPerConnection
<1>1. PublisherInv => OneThreadPerConnection
  <2> SUFFICES ASSUME PublisherInv PROVE OneThreadPerConnection
    OBVIOUS
  <2>1. \A t, u \in Thread : t # u /\ InUse(t) /\ InUse(u) => mine[t] # mine[u]
    BY DEF PublisherInv, Holding, InUse, InLock
  <2>2. ASSUME NEW t \in Thread, pc[t] \in {"declare", "send", "confirm"}
        PROVE  conn[mine[t]] \in open
    <3>1. mine[t] \in Thread /\ conn[mine[t]] # NULL
      BY <2>2 DEF PublisherInv, TypeOK, Holding, OwnConnections
    <3> QED BY <3>1 DEF PublisherInv, Accounted
  <2> QED BY <2>1, <2>2 DEF OneThreadPerConnection
<1> QED BY <1>1, PublisherInvariant, PTL

\* What is open is the connection of a publisher that can still be called, however
\* its attempts ended, or the one that a loser of the race for the cache left.
THEOREM PublisherForgetsOnlyLosers == Spec => []OnlyLosersAreForgotten
<1>1. PublisherInv => OnlyLosersAreForgotten
  <2> SUFFICES ASSUME PublisherInv PROVE OnlyLosersAreForgotten
    OBVIOUS
  <2>1. Accounted /\ Raced
    BY DEF PublisherInv
  <2>2. \A i \in Thread : conn[i] # NULL => i \in Reachable
    BY <2>1 DEF Raced, Reachable
  <2>3. Reachable \subseteq Thread
    BY DEF Reachable
  <2> QED BY <2>1, <2>2, <2>3 DEF Accounted, Raced, OnlyLosersAreForgotten
<1> QED BY <1>1, PublisherInvariant, PTL

\* A publish leaves at most one copy of its event per attempt.
THEOREM PublisherCopiesAreAttempts == Spec => []CopiesAreAttempts
<1>1. PublisherInv => CopiesAreAttempts
  BY DEF PublisherInv, Copied, CopiesAreAttempts
<1> QED BY <1>1, PublisherInvariant, PTL

\* An event is given up only for two faults of its own: whoever shares the
\* connection, however many threads publish.
THEOREM PublisherOneFaultLosesNothing == Spec => []OneFaultLosesNothing
<1>1. PublisherInv => OneFaultLosesNothing
  <2> SUFFICES ASSUME PublisherInv PROVE OneFaultLosesNothing
    OBVIOUS
  <2>1. Charged /\ lost \in Nat /\ faults \in Nat
    BY DEF PublisherInv, TypeOK
  <2> QED BY <2>1, LossesAreCharged
<1> QED BY <1>1, PublisherInvariant, PTL

----------------------------------------------------------------------------
(* The promise to the callers. *)

Stages == [t \in Thread |-> Stage(t)]

\* Where each step of a thread takes what its caller sees.
LEMMA StageStep ==
  ASSUME PublisherInv, NEW t \in Thread, NEW next \in PC, NEW how,
         Goto(t, next), how \in Outcome \cup {NULL}, outcome' = [outcome EXCEPT ![t] = how]
  PROVE  Stages' = [Stages EXCEPT ![t] =
           CASE next = "idle"                      -> "idle"
             [] next = "returned" /\ how = "ok"    -> "ok"
             [] next = "returned" /\ how # "ok"    -> "failed"
             [] OTHER                              -> "publishing"]
BY DEF PublisherInv, TypeOK, Goto, Stages, Stage

\* A thread that goes on within publish is not seen to move.
LEMMA UnseenStep ==
  ASSUME PublisherInv, NEW t \in Thread, NEW next \in PC \ {"idle", "returned"}, Goto(t, next),
         pc[t] \notin {"idle", "returned"}, UNCHANGED outcome
  PROVE  Stages' = Stages
BY DEF PublisherInv, TypeOK, Goto, Stages, Stage

\* Each step of a thread is one of the contract's, or is not seen at all.
LEMMA PublishStep ==
  ASSUME PublisherInv, NEW t \in Thread, Arrive(t) \/ Publish(t)
  PROVE  Contract!Next \/ (Stages' = Stages /\ copies' = copies)
<1> USE DEF process
<1>0. TypeOK /\ Copied
  BY DEF PublisherInv
<1>1. CASE Resolve(t) \/ Miss(t)
  <2>1. Stages[t] = "idle" /\ Stages' = [Stages EXCEPT ![t] = "publishing"]
    BY <1>0, <1>1 DEF Resolve, Miss, Goto, TypeOK, Stages, Stage
  <2>2. copies' = copies
    BY <1>1 DEF Resolve, Miss
  <2>3. Contract!Call(t)
    BY <2>1, <2>2 DEF Contract!Call, Stages
  <2> QED BY <2>3 DEF Contract!Next
<1>2. CASE Construct(t) \/ Acquire(t) \/ EnsureChannel(t) \/ Connect(t) \/ Declare(t)
  <2>1. PICK next \in PC \ {"idle", "returned"} : Goto(t, next)
    BY <1>2 DEF Construct, Acquire, EnsureChannel, Connect, Declare, PC
  <2>2. UNCHANGED <<outcome, copies>> /\ pc[t] \notin {"idle", "returned"}
    BY <1>2 DEF Construct, Acquire, EnsureChannel, Connect, Declare
  <2> QED BY <2>1, <2>2, UnseenStep
<1>3. CASE Send(t)
  <2>1. Stages' = Stages
    BY <1>3, UnseenStep DEF Send, PC
  <2>2. Stages[t] = "publishing"
    BY <1>3 DEF Send, Stages, Stage
  <2>3. copies[t] < 2 /\ copies' = [copies EXCEPT ![t] = @ + 1]
    BY <1>0, <1>3 DEF Send, Copied, InLock, TypeOK
  <2>4. Contract!Put(t)
    BY <2>1, <2>2, <2>3 DEF Contract!Put, Stages
  <2> QED BY <2>4 DEF Contract!Next
<1>4. ASSUME NEW how \in Outcome, Leave(t, how), copies' = copies,
             pc[t] \in InLock, how = "ok" => copies[t] > 0
      PROVE  Contract!Next
  <2>1. Stages[t] = "publishing"
    BY <1>4 DEF InLock, Stages, Stage
  <2>2. Stages' = [Stages EXCEPT ![t] = IF how = "ok" THEN "ok" ELSE "failed"]
    BY <1>0, <1>4 DEF Leave, Goto, TypeOK, Stages, Stage
  <2>3. CASE how = "ok"
    BY <1>4, <2>1, <2>2, <2>3 DEF Contract!Next, Contract!Return, Stages
  <2>4. CASE how # "ok"
    BY <1>4, <2>1, <2>2, <2>4 DEF Contract!Next, Contract!Raise, Stages
  <2> QED BY <2>3, <2>4
<1>5. CASE Confirm(t)
  BY <1>0, <1>4, <1>5 DEF Confirm, Copied, InLock, Outcome
<1>6. CASE DeclareRefused(t) \/ SendRefused(t)
  BY <1>4, <1>6 DEF DeclareRefused, SendRefused, Refused, InLock, Outcome
<1>7. CASE ConnectFails(t) \/ AttemptFails(t)
  <2>1. Retry(t) /\ copies' = copies /\ pc[t] \in InLock
    BY <1>7 DEF ConnectFails, AttemptFails, InLock
  <2>2. CASE attempt[t] = 2
    BY <1>4, <2>1, <2>2 DEF Retry, Outcome
  <2>3. CASE attempt[t] # 2
    <3>1. Goto(t, "ensure") /\ UNCHANGED outcome
      BY <2>1, <2>3 DEF Retry
    <3> QED BY <2>1, <3>1, UnseenStep DEF PC, InLock
  <2> QED BY <2>2, <2>3
<1>8. CASE Finish(t)
  <2>1. Stages[t] \in {"ok", "failed"} /\ Stages' = [Stages EXCEPT ![t] = "idle"]
    BY <1>0, <1>8 DEF Finish, Goto, TypeOK, Stages, Stage
  <2>2. Contract!Forget(t)
    BY <1>8, <2>1 DEF Finish, Contract!Forget, Stages
  <2> QED BY <2>2 DEF Contract!Next
<1> QED BY <1>1, <1>2, <1>3, <1>5, <1>6, <1>7, <1>8 DEF Arrive, Publish

\* Through retries, resets and a shared connection every caller sees a publish
\* that keeps its promise: any number of threads implement PublisherContract.
THEOREM PublisherImplementsContract == Spec => PublishContract
<1>1. Init => Contract!Init
  BY DEF Init, Contract!Init, Stage
<1>2. PublisherInv /\ [Next]_vars => [Contract!Next]_<<Stages, copies>>
  <2> SUFFICES ASSUME PublisherInv, [Next]_vars
               PROVE  Contract!Next \/ (Stages' = Stages /\ copies' = copies)
    OBVIOUS
  <2>1. ASSUME NEW t \in Thread, Arrive(t) \/ Publish(t)
        PROVE  Contract!Next \/ (Stages' = Stages /\ copies' = copies)
    BY <2>1, PublishStep
  <2>2. CASE Close \/ (\E t \in Thread : Collect(t)) \/ (\E c \in Connection : Drop(c))
               \/ UNCHANGED vars
    BY <2>2 DEF Close, Collect, Drop, vars, thread, Stages, Stage
  <2> QED BY <2>1, <2>2 DEF Next
<1> QED BY <1>1, <1>2, PublisherInvariant, PTL DEF Spec, PublishContract, Contract!Spec, Stages

----------------------------------------------------------------------------
(* The lock is on its way back. *)

\* Every step of a call that has the lock gives it back, or is nearer to that.
LEMMA HolderStep ==
  ASSUME PublisherInv, NEW t \in Thread, Arrive(t) \/ Publish(t), pc[t] \in InLock
  PROVE  lock'[mine[t]] # t \/ StepsLeft(t)' < StepsLeft(t)
<1> USE DEF Goto, InLock, StepsLeft
<1>0. /\ pc \in [Thread -> PC] /\ attempt \in [Thread -> 0..2] /\ mine[t] \in Thread
      /\ lock \in [Thread -> Thread \cup {NULL}] /\ NULL # t /\ attempt[t] \in {1, 2}
  BY PublisherAssumption DEF PublisherInv, TypeOK, Holding, Copied
<1>1. CASE EnsureChannel(t)
  <2>1. attempt' = attempt /\ pc[t] = "ensure" /\ pc'[t] \in {"send", "connect"}
    BY <1>0, <1>1 DEF EnsureChannel
  <2> QED BY <1>0, <2>1
<1>2. CASE Connect(t) \/ Declare(t) \/ Send(t)
  <2>1. /\ attempt' = attempt
        /\ \/ pc[t] = "connect" /\ pc'[t] = "declare"
           \/ pc[t] = "declare" /\ pc'[t] = "send"
           \/ pc[t] = "send" /\ pc'[t] = "confirm"
    BY <1>0, <1>2 DEF Connect, Declare, Send
  <2> QED BY <1>0, <2>1
<1>3. ASSUME NEW how, Leave(t, how) PROVE lock'[mine[t]] # t
  BY <1>0, <1>3 DEF Leave
<1>4. CASE Confirm(t) \/ DeclareRefused(t) \/ SendRefused(t)
  BY <1>3, <1>4 DEF Confirm, DeclareRefused, SendRefused, Refused
<1>5. CASE ConnectFails(t) \/ AttemptFails(t)
  <2>1. Retry(t) /\ pc[t] \in {"connect", "declare", "send", "confirm"}
    BY <1>5 DEF ConnectFails, AttemptFails
  <2>2. CASE attempt[t] = 2
    BY <1>3, <2>1, <2>2 DEF Retry
  <2>3. CASE attempt[t] = 1
    <3>1. attempt'[t] = 2 /\ pc'[t] = "ensure"
      BY <1>0, <2>1, <2>3 DEF Retry
    <3>2. StepsLeft(t)' = 5 /\ StepsLeft(t) > 5
      BY <2>1, <2>3, <3>1
    <3> QED BY <3>2
  <2> QED BY <1>0, <2>2, <2>3
<1>6. ~Arrive(t) /\ ~Construct(t) /\ ~Acquire(t) /\ ~Finish(t)
  BY DEF Arrive, Resolve, Miss, Construct, Acquire, Finish
<1> QED BY <1>1, <1>2, <1>4, <1>5, <1>6 DEF Publish

\* The lock is held by somebody in the middle of a call, who waits for no lock and
\* has at most ten steps to go; what the others and the broker do adds none.
THEOREM PublisherRunsOut == Spec => PublishRunsOut
<1>1. PublisherInv /\ [Next]_vars =>
        [\A i, t \in Thread : lock[i] = t =>
           /\ mine[t] = i /\ StepsLeft(t) > 0
           /\ lock'[i] # t \/ pc'[t] = pc[t] \/ StepsLeft(t)' < StepsLeft(t)]_vars
  <2> SUFFICES ASSUME PublisherInv, [Next]_vars, NEW i \in Thread, NEW t \in Thread, lock[i] = t
               PROVE  /\ mine[t] = i /\ StepsLeft(t) > 0
                      /\ lock'[i] # t \/ pc'[t] = pc[t] \/ StepsLeft(t)' < StepsLeft(t)
    OBVIOUS
  <2>1. pc[t] \in InLock /\ mine[t] = i /\ attempt[t] \in {1, 2} /\ pc \in [Thread -> PC]
    BY DEF PublisherInv, TypeOK, Holding, Copied
  <2>2. StepsLeft(t) > 0
    BY <2>1 DEF InLock, StepsLeft
  <2>3. ASSUME NEW u \in Thread \ {t}, Arrive(u) \/ Publish(u) PROVE pc'[t] = pc[t]
    BY <2>1, <2>3 DEF Arrive, Resolve, Miss, Publish, Construct, Acquire, EnsureChannel, Connect,
       ConnectFails, Declare, DeclareRefused, Send, Confirm, SendRefused, AttemptFails, Finish,
       Retry, Refused, Leave, Goto
  <2>4. CASE Close \/ (\E u \in Thread : Collect(u)) \/ (\E c \in Connection : Drop(c))
               \/ UNCHANGED vars
    BY <2>1, <2>2, <2>4 DEF Close, Collect, Drop, vars, thread
  <2>5. ASSUME Arrive(t) \/ Publish(t) PROVE lock'[i] # t \/ StepsLeft(t)' < StepsLeft(t)
    BY <2>1, <2>5, HolderStep
  <2> QED BY <2>1, <2>2, <2>3, <2>4, <2>5 DEF Next
<1> QED BY <1>1, PublisherInvariant, PTL DEF Spec, PublishRunsOut
============================================================================
