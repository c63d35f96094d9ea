---------------------- MODULE RequestLifecycle_proofs ----------------------
(***************************************************************************)
(* What a request holds and is told, for any number of requests, threads    *)
(* and pooled connections.  LifecycleInv says where a request can be while  *)
(* it holds something, and what was said to it by then.                     *)
(***************************************************************************)
EXTENDS RequestLifecycle, FiniteSetTheorems, TLAPS

\* A resource is held where the code says, and nowhere else.
InPlace ==
  /\ \A c \in Conn :
       held[c] # NULL => pc[held[c]] \in {"statement", "locked", "serialize", "send", "close"}
  /\ row # NULL => pc[row] = "locked"
  /\ publisher # NULL => pc[publisher] = "publishing"

\* Only a write that is not committed yet works on a locked row.
LockedWrites == \A p \in Request : pc[p] = "locked" => kind[p] = "write" /\ p \notin committed

\* What is published is committed.
CommittedFirst == \A p \in Request : pc[p] \in {"publish", "publishing"} => p \in committed

\* A connection that is in use and cut was in use when the server cut it.
CutIsStruck == \A c \in cut : held[c] # NULL => held[c] \in struck

\* What was recorded for a request that ended: what its client got, or the failure
\* that came after it.
TrueSample(p) ==
  IF kind[p] \in Skipped THEN samples[p] = <<>>
  ELSE \/ samples[p] = <<answer[p]>>
       \/ /\ samples[p] = <<"5xx">> /\ answer[p] = "2xx"
          /\ raised[p] = "error" /\ p \in struck

\* How a request ended, what its client was answered, and what was recorded.
Told(p) ==
  /\ pc[p] \notin {"close", "record", "done"} => raised[p] = NULL /\ answer[p] = NULL
  /\ pc[p] = "close" => answer[p] = IF raised[p] = NULL THEN "2xx" ELSE NULL
  /\ pc[p] = "record" /\ ~Failed(p) => answer[p] # NULL
  /\ pc[p] = "record" /\ Failed(p) /\ answer[p] # NULL
       => answer[p] = "2xx" /\ raised[p] = "error" /\ p \in struck
  /\ pc[p] # "done" => samples[p] = <<>>
  /\ pc[p] = "done" => TrueSample(p)

LifecycleInv ==
  /\ TypeOK /\ InPlace /\ LockedWrites /\ CommittedFirst /\ CutIsStruck
  /\ \A p \in Request : Told(p)

----------------------------------------------------------------------------
\* The burst starts with nothing taken.
LEMMA InitLifecycle == Init => LifecycleInv
BY LifecycleAssumption
   DEF Init, LifecycleInv, TypeOK, InPlace, LockedWrites, CommittedFirst, CutIsStruck, Told,
       PC, InThread, Failed, Exception, Outcome

\* The end of p's transaction takes from p what it had, and nothing from others.
LEMMA EndTransactionStep ==
  ASSUME TypeOK, NEW p \in Request, EndTransaction(p)
  PROVE  /\ held' \in [Conn -> Request \cup {NULL}]
         /\ \A c \in Conn : held'[c] = held[c] \/ (held[c] = p /\ held'[c] = NULL)
         /\ \A c \in Conn : held'[c] # p
         /\ cut' \subseteq cut
         /\ row' \in {row, NULL} /\ row' # p
         /\ publisher' = publisher
BY LifecycleAssumption DEF EndTransaction, TypeOK

\* The steps that move p on, and give or take nothing.
Moves(p) == StartEndpoint(p) \/ Read(p) \/ Insert(p) \/ Serialize(p)

\* p may move on with what it holds, if it may hold it where it goes.
LEMMA MoveStep ==
  ASSUME TypeOK, InPlace, LockedWrites, CutIsStruck, NEW p \in Request, NEW next, Goto(p, next),
         UNCHANGED <<resources, kind, committed, database>>,
         pc[p] \in {"statement", "locked", "serialize", "send", "close"}
           => next \in {"statement", "locked", "serialize", "send", "close"},
         row # p /\ publisher # p,
         next = "locked" => kind[p] = "write" /\ p \notin committed
  PROVE  InPlace' /\ LockedWrites' /\ CutIsStruck'
<1> USE DEF Goto, resources, database, TypeOK
<1>1. InPlace'
  <2>1. ASSUME NEW c \in Conn, held'[c] # NULL
        PROVE  pc'[held'[c]] \in {"statement", "locked", "serialize", "send", "close"}
    BY <2>1 DEF InPlace
  <2>2. row' # NULL => pc'[row'] = "locked"
    BY DEF InPlace
  <2>3. publisher' # NULL => pc'[publisher'] = "publishing"
    BY DEF InPlace
  <2> QED BY <2>1, <2>2, <2>3 DEF InPlace
<1>2. LockedWrites'
  BY DEF LockedWrites
<1>3. CutIsStruck'
  BY DEF CutIsStruck
<1> QED BY <1>1, <1>2, <1>3

----------------------------------------------------------------------------
\* Steps of p keep the types.
LEMMA ServeTypes ==
  ASSUME LifecycleInv, NEW p \in Request, Serve(p)
  PROVE  TypeOK'
<1> USE DEF PC, InThread, Goto, resources, results, database, Exception, Outcome
<1>0. TypeOK /\ Told(p)
  BY DEF LifecycleInv
<1>1. CASE Moves(p)
  BY <1>0, <1>1 DEF Moves, StartEndpoint, Read, Insert, Serialize, TypeOK
<1>2. ASSUME NEW how \in Exception, Raise(p, how) PROVE TypeOK'
  <2>1. pc' \in [Request -> PC] /\ raised' \in [Request -> Exception \cup {NULL}]
    BY <1>0, <1>2 DEF Raise, TypeOK
  <2>2. UNCHANGED <<kind, committed, answer, samples, database>>
    BY <1>2 DEF Raise
  <2>3. /\ held' \in [Conn -> Request \cup {NULL}] /\ cut' \subseteq Conn
        /\ row' \in Request \cup {NULL} /\ publisher' \in Request \cup {NULL}
    BY <1>0, <1>2, EndTransactionStep DEF Raise, TypeOK
  <2> QED BY <1>0, <2>1, <2>2, <2>3 DEF TypeOK
<1>3. CASE Checkout(p)
  BY <1>0, <1>3 DEF Checkout, Free, TypeOK
<1>4. CASE LockRow(p) \/ LockPublisher(p) \/ Published(p)
  BY <1>0, <1>4 DEF LockRow, LockPublisher, Published, TypeOK
<1>5. CASE Commit(p) \/ Close(p) \/ CloseFails(p)
  <2>1. EndTransaction(p)
    BY <1>5 DEF Commit, Close, CloseFails
  <2>2. UNCHANGED <<kind, samples, database>>
    BY <1>5 DEF Commit, Close, CloseFails
  <2>3. /\ pc' \in [Request -> PC] /\ committed' \subseteq Request
        /\ raised' \in [Request -> Exception \cup {NULL}]
        /\ answer' \in [Request -> Outcome \cup {NULL}]
    BY <1>0, <1>5 DEF Commit, Close, CloseFails, TypeOK
  <2> QED BY <1>0, <2>1, <2>2, <2>3, EndTransactionStep DEF TypeOK
<1>6. CASE Send(p)
  BY <1>0, <1>6 DEF Send, TypeOK
<1>7. CASE Record(p)
  <2>1. ~Failed(p) => answer[p] \in Outcome
    BY <1>0, <1>7 DEF Record, Told, TypeOK
  <2>2. samples[p] \in Seq(Outcome)
    BY <1>0 DEF TypeOK
  <2>3. samples' \in [Request -> Seq(Outcome)]
    BY <1>0, <1>7, <2>1, <2>2 DEF Record, Final, TypeOK
  <2>4. /\ pc' \in [Request -> PC] /\ answer' \in [Request -> Outcome \cup {NULL}]
        /\ UNCHANGED <<kind, resources, committed, raised, database>>
    BY <1>0, <1>7 DEF Record, Final, TypeOK
  <2> QED BY <1>0, <2>3, <2>4 DEF TypeOK
<1>8. Invalid(p) \/ Refuse(p) => Raise(p, "refused")
  BY DEF Invalid, Refuse
<1>9. PoolTimeout(p) => Raise(p, "timeout")
  BY DEF PoolTimeout
<1>10. StatementFails(p) \/ CheckoutFails(p) => Raise(p, "error")
  BY DEF StatementFails, CheckoutFails
<1> QED BY <1>1, <1>2, <1>3, <1>4, <1>5, <1>6, <1>7, <1>8, <1>9, <1>10 DEF Serve, Moves

\* Steps of p leave every resource where it may be held.
LEMMA ServeInPlace ==
  ASSUME LifecycleInv, NEW p \in Request, Serve(p)
  PROVE  InPlace' /\ LockedWrites' /\ CutIsStruck'
<1> USE LifecycleAssumption DEF Goto, resources, results, database
<1>0. TypeOK /\ InPlace /\ LockedWrites /\ CutIsStruck
  BY DEF LifecycleInv
<1>1. CASE Moves(p)
  <2>1. row # p /\ publisher # p
    BY <1>0, <1>1 DEF Moves, StartEndpoint, Read, Insert, Serialize, Write, TypeOK, InPlace
  <2>2. UNCHANGED <<resources, kind, committed, database>>
    BY <1>1 DEF Moves, StartEndpoint, Read, Insert, Serialize
  <2>3. CASE StartEndpoint(p)
    BY <1>0, <2>1, <2>2, <2>3, MoveStep DEF StartEndpoint
  <2>4. CASE Read(p)
    BY <1>0, <2>1, <2>2, <2>4, MoveStep DEF Read
  <2>5. CASE Insert(p)
    BY <1>0, <2>1, <2>2, <2>5, MoveStep DEF Insert, Write
  <2>6. CASE Serialize(p)
    BY <1>0, <2>1, <2>2, <2>6, MoveStep DEF Serialize
  <2> QED BY <1>1, <2>3, <2>4, <2>5, <2>6 DEF Moves
<1>2. ASSUME NEW how, Raise(p, how), pc[p] \in {"deps", "checkout", "statement", "locked"}
      PROVE  InPlace' /\ LockedWrites' /\ CutIsStruck'
  <2>1. CASE how = "error" \/ (kind[p] = "write" /\ p \notin committed)
    <3>1. EndTransaction(p)
      BY <1>2, <2>1 DEF Raise
    <3> QED BY <1>0, <1>2, <2>1, <3>1, EndTransactionStep
            DEF Raise, TypeOK, InPlace, LockedWrites, CutIsStruck
  <2>2. CASE ~(how = "error" \/ (kind[p] = "write" /\ p \notin committed))
    <3>1. pc[p] # "locked" /\ row # p
      BY <1>0, <2>2 DEF TypeOK, InPlace, LockedWrites
    <3> QED BY <1>0, <1>2, <2>2, <3>1 DEF Raise, TypeOK, InPlace, LockedWrites, CutIsStruck
  <2> QED BY <2>1, <2>2
<1>3. CASE Checkout(p)
  BY <1>0, <1>3 DEF Checkout, Free, TypeOK, InPlace, LockedWrites, CutIsStruck
<1>4. CASE LockRow(p) \/ LockPublisher(p) \/ Published(p)
  <2>1. CASE LockRow(p)
    BY <1>0, <2>1 DEF LockRow, Write, TypeOK, InPlace, LockedWrites, CutIsStruck
  <2>2. CASE LockPublisher(p)
    BY <1>0, <2>2 DEF LockPublisher, TypeOK, InPlace, LockedWrites, CutIsStruck
  <2>3. CASE Published(p)
    <3>1. PICK next \in {"checkout", "serialize", "send"} : Goto(p, next)
      BY <2>3 DEF Published
    <3> QED BY <1>0, <2>3, <3>1 DEF Published, TypeOK, InPlace, LockedWrites, CutIsStruck
  <2> QED BY <1>4, <2>1, <2>2, <2>3
<1>5. CASE Commit(p) \/ Close(p) \/ CloseFails(p)
  <2>1. EndTransaction(p)
    BY <1>5 DEF Commit, Close, CloseFails
  <2> QED BY <1>0, <1>5, <2>1, EndTransactionStep
          DEF Commit, Close, CloseFails, TypeOK, InPlace, LockedWrites, CutIsStruck
<1>6. CASE Send(p) \/ Record(p)
  <2>1. row # p /\ publisher # p
    BY <1>0, <1>6 DEF Send, Record, TypeOK, InPlace
  <2>2. UNCHANGED <<resources, kind, committed, database>>
    BY <1>6 DEF Send, Record
  <2>3. CASE Send(p)
    BY <1>0, <2>1, <2>2, <2>3, MoveStep DEF Send
  <2>4. CASE Record(p)
    BY <1>0, <2>1, <2>2, <2>4, MoveStep DEF Record
  <2> QED BY <1>6, <2>3, <2>4
<1>7. CASE Invalid(p) \/ Refuse(p) \/ PoolTimeout(p) \/ StatementFails(p) \/ CheckoutFails(p)
  BY <1>2, <1>7 DEF Invalid, Refuse, Write, PoolTimeout, StatementFails, CheckoutFails
<1> QED BY <1>1, <1>3, <1>4, <1>5, <1>6, <1>7 DEF Serve, Moves

\* Only a commit leads p to its publish, and no commit is undone.
LEMMA ServeCommitted ==
  ASSUME LifecycleInv, NEW p \in Request, Serve(p)
  PROVE  CommittedFirst'
<1> USE DEF Goto, results
<1>0. TypeOK /\ CommittedFirst
  BY DEF LifecycleInv
<1>1. CASE Commit(p) \/ LockPublisher(p)
  BY <1>0, <1>1 DEF Commit, LockPublisher, TypeOK, CommittedFirst
<1>2. ASSUME NEW how, Raise(p, how) PROVE CommittedFirst'
  BY <1>0, <1>2 DEF Raise, TypeOK, CommittedFirst
<1>3. CASE StartEndpoint(p) \/ Checkout(p) \/ Read(p) \/ LockRow(p) \/ Insert(p)
  BY <1>0, <1>3 DEF StartEndpoint, Checkout, Read, LockRow, Insert, TypeOK, CommittedFirst
<1>4. CASE Published(p) \/ Serialize(p) \/ Send(p) \/ Close(p) \/ CloseFails(p) \/ Record(p)
  BY <1>0, <1>4 DEF Published, Serialize, Send, Close, CloseFails, Record, TypeOK, CommittedFirst
<1> QED BY <1>1, <1>2, <1>3, <1>4
        DEF Serve, Invalid, CheckoutFails, PoolTimeout, Refuse, StatementFails

\* Who has a dead connection has lost it in use.
LEMMA DeadIsStruck ==
  ASSUME TypeOK, CutIsStruck, NEW p \in Request, ~Connected(p)
  PROVE  p \in struck
BY LifecycleAssumption DEF Connected, Of, CutIsStruck, TypeOK

\* Steps of p leave what the others were told alone, and tell p the truth.
LEMMA ServeTells ==
  ASSUME LifecycleInv, NEW p \in Request, Serve(p)
  PROVE  \A x \in Request : Told(x)'
<1> USE LifecycleAssumption DEF Goto, resources, results, database, Exception, Outcome, TrueSample
<1>0. TypeOK /\ CutIsStruck /\ \A x \in Request : Told(x)
  BY DEF LifecycleInv
<1>1. CASE Moves(p)
  BY <1>0, <1>1 DEF Moves, StartEndpoint, Read, Insert, Serialize, Write, TypeOK, Told, Failed
<1>2. ASSUME NEW how \in Exception, Raise(p, how),
             pc[p] \in {"deps", "checkout", "statement", "locked"}
      PROVE  \A x \in Request : Told(x)'
  BY <1>0, <1>2 DEF Raise, TypeOK, Told, Failed
<1>3. CASE Checkout(p) \/ LockRow(p) \/ LockPublisher(p) \/ Published(p) \/ Commit(p)
  <2>1. PICK next \in PC \ {"close", "record", "done"} : Goto(p, next)
    BY <1>3 DEF Checkout, LockRow, LockPublisher, Published, Commit, PC, InThread
  <2>2. pc[p] \notin {"close", "record", "done"}
    BY <1>3 DEF Checkout, LockRow, LockPublisher, Published, Commit, Write
  <2>3. UNCHANGED <<kind, raised, answer, samples, database>>
    BY <1>3 DEF Checkout, LockRow, LockPublisher, Published, Commit
  <2> QED BY <1>0, <2>1, <2>2, <2>3 DEF TypeOK, Told, Failed
<1>4. CASE Send(p) \/ Close(p)
  BY <1>0, <1>4 DEF Send, Close, TypeOK, Told, Failed
<1>5. CASE CloseFails(p)
  <2>1. p \in struck
    BY <1>0, <1>5, DeadIsStruck DEF CloseFails
  <2> QED BY <1>0, <1>5, <2>1 DEF CloseFails, TypeOK, Told, Failed
<1>6. CASE Record(p)
  <2>1. samples[p] = <<>>
    BY <1>0, <1>6 DEF Record, Told
  <2>2. samples'[p] = IF kind[p] \in Skipped THEN <<>>
                      ELSE <<IF Failed(p) THEN "5xx" ELSE answer[p]>>
    BY <1>0, <1>6, <2>1 DEF Record, Final, TypeOK
  <2>3. answer'[p] = IF Failed(p) /\ answer[p] = NULL THEN "5xx" ELSE answer[p]
    BY <1>0, <1>6 DEF Record, Final, TypeOK
  <2>4. TrueSample(p)'
    BY <1>0, <1>6, <2>2, <2>3 DEF Record, Told
  <2> QED BY <1>0, <1>6, <2>4 DEF Record, TypeOK, Told, Failed
<1>7. CASE Invalid(p) \/ Refuse(p) \/ PoolTimeout(p) \/ StatementFails(p) \/ CheckoutFails(p)
  BY <1>2, <1>7 DEF Invalid, Refuse, Write, PoolTimeout, StatementFails, CheckoutFails
<1> QED BY <1>1, <1>3, <1>4, <1>5, <1>6, <1>7 DEF Serve, Moves

\* An outage cuts every connection, and strikes whoever uses one.
LEMMA OutageKeepsInv ==
  ASSUME LifecycleInv, DatabaseFails \/ DatabaseReturns
  PROVE  LifecycleInv'
<1> USE LifecycleAssumption DEF results, resources, TypeOK
<1>0. /\ TypeOK /\ InPlace /\ LockedWrites /\ CommittedFirst /\ CutIsStruck
      /\ \A p \in Request : Told(p)
  BY DEF LifecycleInv
<1>1. TypeOK' /\ InPlace'
  <2>1. CASE DatabaseFails
    <3>1. outages' \in 0..MaxOutages
      BY <1>0, <2>1 DEF DatabaseFails
    <3> QED BY <1>0, <2>1, <3>1 DEF DatabaseFails, InPlace
  <2>2. CASE DatabaseReturns
    BY <1>0, <2>2 DEF DatabaseReturns, InPlace
  <2> QED BY <2>1, <2>2
<1>2. LockedWrites' /\ CommittedFirst'
  BY <1>0 DEF DatabaseFails, DatabaseReturns, LockedWrites, CommittedFirst
<1>3. CutIsStruck'
  BY <1>0 DEF DatabaseFails, DatabaseReturns, CutIsStruck, Of
<1>4. \A p \in Request : Told(p)'
  BY <1>0 DEF DatabaseFails, DatabaseReturns, Told, TrueSample, Failed
<1> QED BY <1>1, <1>2, <1>3, <1>4 DEF LifecycleInv

\* LifecycleInv is an invariant: whatever a request holds fits where it is.
THEOREM LifecycleInvariant == Spec => []LifecycleInv
<1>1. LifecycleInv /\ [Next]_vars => LifecycleInv'
  <2> SUFFICES ASSUME LifecycleInv, [Next]_vars PROVE LifecycleInv'
    OBVIOUS
  <2>1. ASSUME NEW p \in Request, Serve(p) PROVE LifecycleInv'
    BY <2>1, ServeTypes, ServeInPlace, ServeCommitted, ServeTells DEF LifecycleInv
  <2>2. CASE UNCHANGED vars
    BY <2>2 DEF LifecycleInv, vars, resources, results, database, TypeOK, InPlace, LockedWrites,
       CommittedFirst, CutIsStruck, Told, TrueSample, Failed
  <2> QED BY <2>1, <2>2, OutageKeepsInv DEF Next
<1> QED BY <1>1, InitLifecycle, PTL DEF Spec

\* Type correctness, for any number of requests, connections and threads.
THEOREM LifecycleTypes == Spec => []TypeOK
BY LifecycleInvariant, PTL DEF LifecycleInv

\* Resources are taken in one order, in a burst of any size: nobody waits for a
\* connection or for the publisher while keeping a row locked.
THEOREM LifecycleWaitersHoldNothing == Spec => []WaitersHoldNothing
<1>1. ASSUME LifecycleInv PROVE WaitersHoldNothing
  <2> SUFFICES ASSUME NEW p \in Request
               PROVE  /\ pc[p] \in {"deps", "checkout", "publish", "publishing"}
                           => Of(p) = {} /\ row # p
                      /\ pc[p] # "publishing" => publisher # p
    BY DEF WaitersHoldNothing
  <2>1. p # NULL /\ InPlace
    BY <1>1, LifecycleAssumption DEF LifecycleInv
  <2>2. ASSUME NEW c \in Conn, held[c] = p
        PROVE  pc[p] \in {"statement", "locked", "serialize", "send", "close"}
    BY <2>1, <2>2 DEF InPlace
  <2> QED BY <2>1, <2>2 DEF InPlace, Of
<1> QED BY <1>1, LifecycleInvariant, PTL

\* No way out of a request keeps a connection or a row lock.
THEOREM LifecycleConnectionsComeBack == Spec => []ConnectionsComeBack
<1>1. LifecycleInv => ConnectionsComeBack
  BY LifecycleAssumption DEF LifecycleInv, TypeOK, InPlace, ConnectionsComeBack, Of
<1> QED BY <1>1, LifecycleInvariant, PTL

\* An outage of the database fails only requests that used a connection when it
\* began, and requests that want one while it lasts.
THEOREM LifecycleOutageHitsOnlyItsUsers == Spec => OutageHitsOnlyItsUsers
<1> DEFINE Hit(p) ==
      raised[p] # "error" /\ raised'[p] = "error" => p \in struck \/ ~up
<1>1. LifecycleInv /\ [Next]_vars => [\A p \in Request : Hit(p)]_vars
  <2> SUFFICES ASSUME LifecycleInv, Next PROVE \A p \in Request : Hit(p)
    OBVIOUS
  <2>0. TypeOK /\ CutIsStruck
    BY DEF LifecycleInv
  <2>1. ASSUME NEW p \in Request, Serve(p) PROVE \A q \in Request : Hit(q)
    <3> USE DEF results
    <3>1. CASE StatementFails(p)
      <4>1. p \in struck
        BY <2>0, <3>1, DeadIsStruck DEF StatementFails
      <4> QED BY <2>0, <3>1, <4>1 DEF StatementFails, Raise, TypeOK
    <3>2. CASE CloseFails(p)
      <4>1. p \in struck
        BY <2>0, <3>2, DeadIsStruck DEF CloseFails
      <4> QED BY <2>0, <3>2, <4>1 DEF CloseFails, TypeOK
    <3>3. CASE CheckoutFails(p)
      <4>1. ~up
        BY <3>3 DEF CheckoutFails
      <4> QED BY <4>1
    <3>4. CASE Invalid(p) \/ Refuse(p) \/ PoolTimeout(p)
      <4>1. Raise(p, "refused") \/ Raise(p, "timeout")
        BY <3>4 DEF Invalid, Refuse, PoolTimeout
      <4> QED BY <2>0, <4>1 DEF Raise, TypeOK
    <3>5. CASE StartEndpoint(p) \/ Checkout(p) \/ Read(p) \/ LockRow(p) \/ Insert(p) \/ Commit(p)
      BY <3>5 DEF StartEndpoint, Checkout, Read, LockRow, Insert, Commit
    <3>6. CASE LockPublisher(p) \/ Published(p) \/ Serialize(p) \/ Send(p) \/ Close(p) \/ Record(p)
      BY <3>6 DEF LockPublisher, Published, Serialize, Send, Close, Record
    <3> QED BY <2>1, <3>1, <3>2, <3>3, <3>4, <3>5, <3>6 DEF Serve
  <2>2. CASE DatabaseFails \/ DatabaseReturns
    BY <2>2 DEF DatabaseFails, DatabaseReturns, results
  <2> QED BY <2>1, <2>2 DEF Next
<1> QED BY <1>1, LifecycleInvariant, PTL DEF Spec, OutageHitsOnlyItsUsers

\* One sample per request, of the class its client was answered with, or of the
\* failure to close its session on a connection lost in use.
THEOREM LifecycleOneTrueSample == Spec => []OneTrueSample
<1>1. LifecycleInv => OneTrueSample
  BY DEF LifecycleInv, Told, TrueSample, OneTrueSample
<1> QED BY <1>1, LifecycleInvariant, PTL

----------------------------------------------------------------------------
\* Whoever has a worker thread can go on, or waits for one that can: the holder of
\* the row, or of the publisher's lock, waits for nobody.
LEMMA ThreadsAreReady ==
  ASSUME LifecycleInv, NEW q \in Request, pc[q] \in InThread
  PROVE  \E p \in Request : Ready(p)
<1>0. TypeOK /\ InPlace
  BY DEF LifecycleInv
<1>1. CASE row # NULL
  <2>1. row \in Request /\ pc[row] = "locked"
    BY <1>0, <1>1 DEF TypeOK, InPlace
  <2> QED BY <2>1 DEF Ready, Write
<1>2. CASE publisher # NULL
  <2>1. publisher \in Request /\ pc[publisher] = "publishing"
    BY <1>0, <1>2 DEF TypeOK, InPlace
  <2> QED BY <2>1 DEF Ready, Write
<1>3. CASE row = NULL /\ publisher = NULL
  BY <1>3 DEF Ready, InThread
<1> QED BY <1>1, <1>2, <1>3

\* In a burst of any size, on any number of threads and connections, some request
\* has what it waits for: a pool of threads that is used up has a thread in use.
THEOREM LifecycleNobodyIsStuck == Spec => []NobodyIsStuck
<1>1. ASSUME LifecycleInv PROVE NobodyIsStuck
  <2> SUFFICES ASSUME NEW p \in Request, pc[p] # "done"
               PROVE  \E q \in Request : Ready(q)
    BY DEF NobodyIsStuck
  <2> DEFINE Busy == {q \in Request : pc[q] \in InThread}
  <2>1. CASE Busy # {}
    BY <1>1, <2>1, ThreadsAreReady
  <2>2. CASE Busy = {}
    <3>1. ThreadIsFree
      BY <2>2, FS_EmptySet, LifecycleAssumption DEF ThreadIsFree
    <3> QED BY <2>2, <3>1 DEF Ready, Write, InThread
  <2> QED BY <2>1, <2>2
<1> QED BY <1>1, LifecycleInvariant, PTL

\* A step of p brings p nearer to its end, and leaves the others where they are.
LEMMA ServeIsProgress ==
  ASSUME LifecycleInv, NEW p \in Request, Serve(p)
  PROVE  /\ StepsLeft(p)' < StepsLeft(p)
         /\ \A q \in Request \ {p} : StepsLeft(q)' = StepsLeft(q)
<1> USE DEF Goto, results, StepsLeft
<1>0. TypeOK /\ LockedWrites /\ CommittedFirst
  BY DEF LifecycleInv
<1>1. \A q \in Request \ {p} : pc'[q] = pc[q] /\ (q \in committed' <=> q \in committed)
  <2>1. \A q \in Request \ {p} : pc'[q] = pc[q]
    BY <1>0 DEF TypeOK, Serve, Invalid, StartEndpoint, Checkout, CheckoutFails, PoolTimeout, Read,
       LockRow, Insert, Refuse, Commit, StatementFails, LockPublisher, Published, Serialize, Send, Close,
       CloseFails, Record, Raise
  <2>2. committed' \in {committed, committed \cup {p}}
    BY DEF Serve, Invalid, StartEndpoint, Checkout, CheckoutFails, PoolTimeout, Read,
       LockRow, Insert, Refuse, Commit, StatementFails, LockPublisher, Published, Serialize, Send, Close,
       CloseFails, Record, Raise
  <2> QED BY <2>1, <2>2
<1>2. StepsLeft(p)' < StepsLeft(p)
  <2>1. CASE StartEndpoint(p) \/ Checkout(p)
    BY <1>0, <2>1 DEF StartEndpoint, Checkout, TypeOK
  <2>2. CASE Read(p) \/ LockRow(p) \/ Insert(p)
    BY <1>0, <2>2 DEF Read, LockRow, Insert, Write, TypeOK
  <2>3. CASE Commit(p) \/ LockPublisher(p)
    BY <1>0, <2>3 DEF Commit, LockPublisher, TypeOK
  <2>4. CASE Published(p)
    <3>1. pc[p] = "publishing" /\ p \in committed /\ committed' = committed
      BY <1>0, <2>4 DEF Published, CommittedFirst
    <3>2. pc'[p] \in {"checkout", "serialize", "send"}
      BY <1>0, <2>4 DEF Published, TypeOK
    <3> QED BY <3>1, <3>2
  <2>5. CASE Serialize(p) \/ Send(p) \/ Close(p) \/ CloseFails(p) \/ Record(p)
    BY <1>0, <2>5 DEF Serialize, Send, Close, CloseFails, Record, TypeOK
  <2>6. ASSUME NEW how, Raise(p, how), pc[p] \in {"deps", "checkout", "statement", "locked"}
        PROVE  StepsLeft(p)' < StepsLeft(p)
    <3>1. pc'[p] = "close"
      BY <1>0, <2>6 DEF Raise, TypeOK
    <3> QED BY <2>6, <3>1
  <2>7. CASE Invalid(p) \/ CheckoutFails(p) \/ PoolTimeout(p) \/ Refuse(p) \/ StatementFails(p)
    BY <2>6, <2>7 DEF Invalid, CheckoutFails, PoolTimeout, Refuse, Write, StatementFails
  <2> QED BY <2>1, <2>2, <2>3, <2>4, <2>5, <2>7 DEF Serve
<1> QED BY <1>1, <1>2

\* However requests fail, wait and are interrupted, each of them ends after twelve
\* steps of its own at most.
THEOREM LifecycleEveryStepIsProgress == Spec => EveryStepIsProgress
<1>0. ASSUME LifecycleInv, NEW p \in Request PROVE StepsLeft(p) \in 0..12
  BY <1>0 DEF LifecycleInv, TypeOK, PC, InThread, StepsLeft
<1>1. LifecycleInv /\ [Next]_vars =>
        [/\ \A p \in Request : StepsLeft(p)' <= StepsLeft(p)
         /\ UNCHANGED <<up, outages>> => \E p \in Request : StepsLeft(p)' < StepsLeft(p)]_vars
  <2> SUFFICES ASSUME LifecycleInv, Next
               PROVE  /\ \A p \in Request : StepsLeft(p)' <= StepsLeft(p)
                      /\ UNCHANGED <<up, outages>> => \E p \in Request : StepsLeft(p)' < StepsLeft(p)
    OBVIOUS
  <2>1. ASSUME NEW p \in Request, Serve(p)
        PROVE  /\ \A q \in Request : StepsLeft(q)' <= StepsLeft(q)
               /\ StepsLeft(p)' < StepsLeft(p)
    <3>1. /\ StepsLeft(p)' < StepsLeft(p)
          /\ \A q \in Request \ {p} : StepsLeft(q)' = StepsLeft(q)
      BY <2>1, ServeIsProgress
    <3>2. ASSUME NEW q \in Request PROVE StepsLeft(q)' <= StepsLeft(q)
      <4>1. StepsLeft(q) \in 0..12
        BY <1>0
      <4>2. CASE q = p
        <5>1. StepsLeft(p)' \in 0..12
          BY <2>1, ServeTypes DEF TypeOK, PC, InThread, StepsLeft
        <5> QED BY <3>1, <4>1, <4>2, <5>1
      <4>3. CASE q # p
        BY <3>1, <4>1, <4>3
      <4> QED BY <4>2, <4>3
    <3> QED BY <3>1, <3>2
  <2>2. CASE DatabaseFails \/ DatabaseReturns
    <3>1. \A p \in Request : StepsLeft(p)' = StepsLeft(p)
      BY <2>2 DEF DatabaseFails, DatabaseReturns, results, StepsLeft
    <3>2. up' # up
      BY <2>2 DEF DatabaseFails, DatabaseReturns
    <3> QED BY <1>0, <3>1, <3>2
  <2> QED BY <2>1, <2>2 DEF Next
<1> QED BY <1>1, LifecycleInvariant, PTL DEF Spec, EveryStepIsProgress
============================================================================
