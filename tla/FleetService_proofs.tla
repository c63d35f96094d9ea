------------------------ MODULE FleetService_proofs ------------------------
(***************************************************************************)
(* On PostgreSQL the service implements its contract, for any number of     *)
(* requests, cars and rentals.  ServiceInv is the inductive invariant; the  *)
(* proof that a step of request p keeps it has three parts: the types, p's  *)
(* own conditions, and those of every other request.                       *)
(*                                                                         *)
(* The last three sections hold on SQLite too: what the unique index        *)
(* guarantees, who may wait for whom, and what is never undone.             *)
(***************************************************************************)
EXTENDS FleetService, FleetTables_proofs

----------------------------------------------------------------------------
(* What a step of p leaves to the other requests. *)

\* The others keep their place, their call, their session and their locks.
OthersAlone(p) ==
  \A x \in Request \ {p} :
    /\ pc'[x] = pc[x] /\ call'[x] = call[x] /\ tx'[x] = tx[x]
    /\ \A c \in Car : carLock[c] = x => carLock'[c] = x

\* COMMIT and ROLLBACK release p's locks and nobody else's.
LEMMA CloseTxStep ==
  ASSUME TypeOK, NEW p \in Request, CloseTx(p)
  PROVE  /\ tx' \in [Request -> Tx] /\ carLock' \in [Car -> Request \cup {NULL}]
         /\ rentalLock' \in [Rental -> Request \cup {NULL}]
         /\ writer' \in Request \cup {NULL}
         /\ \A x \in Request \ {p} :
              tx'[x] = tx[x] /\ \A c \in Car : carLock[c] = x => carLock'[c] = x
<1>1. NoTx \in Tx
  BY DEF NoTx, Tx
<1> QED BY <1>1, ServiceAssumption DEF TypeOK, CloseTx

\* Goto moves p alone, and to a statement there is.
LEMMA GotoStep ==
  ASSUME TypeOK, NEW p \in Request, NEW next \in PC, Goto(p, next)
  PROVE  /\ pc' \in [Request -> PC] /\ pc'[p] = next
         /\ \A x \in Request \ {p} : pc'[x] = pc[x]
BY DEF TypeOK, Goto

\* Hold changes p's session alone.
LEMMA HoldStep ==
  ASSUME TypeOK, NEW p \in Request, NEW car \in CarRow \cup {NULL},
         NEW rental \in RentalRow \cup {NULL}, NEW dirty \in SUBSET (CarColumns \cup {"rental"}),
         Hold(p, car, rental, dirty)
  PROVE  /\ tx' \in [Request -> Tx]
         /\ tx'[p].car = car /\ tx'[p].rental = rental /\ tx'[p].dirty = dirty
         /\ \A x \in Request \ {p} : tx'[x] = tx[x]
<1>1. [car |-> car, rental |-> rental, dirty |-> dirty] \in Tx
  BY DEF Tx
<1> QED BY <1>1 DEF TypeOK, Hold

\* On PostgreSQL a flushed write changes nothing that others see.
LEMMA WriteStep ==
  ASSUME TypeOK, NEW p \in Request, Write(p)
  PROVE  /\ UNCHANGED <<tables, call, answer, carLock, rentalLock>>
         /\ writer' \in Request \cup {NULL}
BY DEF TypeOK, Write

\* An answer is p's own.
LEMMA AnswerStep ==
  ASSUME TypeOK, NEW p \in Request, NEW a \in Answer \cup {NULL},
         answer' = [answer EXCEPT ![p] = a]
  PROVE  answer' \in [Request -> Answer \cup {NULL}]
BY DEF TypeOK

----------------------------------------------------------------------------
(* A refusal. *)

\* The statements of each route, spelled out for the provers.
LEMMA Routes ==
  /\ Route("none") = {"idle"}
  /\ Route("add") = {"insert", "commit", "publish", "reply"}
  /\ Route("update") = {"lockCar", "decide", "commit", "publish", "readBack", "reply"}
  /\ Route("delete") = {"lockCar", "decide", "retire", "commit", "publish", "reply"}
  /\ Route("register") = {"lockCar", "decide", "insert", "markInUse", "commit", "publish",
                          "reply"}
  /\ Route("end") = {"lookup", "lockCar", "lockRental", "flush", "commit", "publish",
                     "readBack", "reply"}
BY DEF Route

\* Every operation's route ends with its answer.
LEMMA ReplyOnRoute ==
  ASSUME NEW op \in Op PROVE "reply" \in Route(op)
BY DEF Op, Route

\* Outside a transaction only the arguments matter.
LEMMA OutsideTx ==
  ASSUME NEW p \in Request, ServiceInv, pc'[p] \notin InTransaction,
         pc'[p] \in Route(call[p].op), call'[p] = call[p], day' = day
  PROVE  RequestOK(p)'
<1>1. ArgumentsOK(p)
  BY DEF ServiceInv, RequestOK
<1>2. ArgumentsOK(p)'
  BY <1>1 DEF ArgumentsOK
<1>3. IdsOK(p)' /\ CarLocked(p)' /\ CopiesFresh(p)' /\ DecisionHolds(p)'
  BY DEF IdsOK, CarLocked, PastCarLock, CopiesFresh, DecisionHolds, InTransaction
<1> QED BY <1>2, <1>3 DEF RequestOK

\* A refusal changes p's own state, drops p's locks, and nothing else.
LEMMA RefuseStep ==
  ASSUME ServiceInv, NEW p \in Request, NEW e \in Answer, call[p].op \in Op, Refuse(p, e)
  PROVE  TypeOK' /\ OthersAlone(p) /\ RequestOK(p)' /\ UNCHANGED <<tables, call>>
<1>1. UNCHANGED <<tables, call>> /\ TypeOK /\ CloseTx(p)
  BY DEF Refuse, ServiceInv
<1>2. pc' \in [Request -> PC] /\ pc'[p] = "reply" /\ \A x \in Request \ {p} : pc'[x] = pc[x]
  BY <1>1, GotoStep DEF Refuse, Goto, PC
<1>3. answer' \in [Request -> Answer \cup {NULL}]
  BY <1>1, AnswerStep DEF Refuse
<1>4. TypeOK'
  BY <1>1, <1>2, <1>3, CloseTxStep DEF TypeOK, TablesOK, tables
<1>5. OthersAlone(p)
  BY <1>1, <1>2, CloseTxStep DEF OthersAlone
<1>6. RequestOK(p)'
  BY <1>1, <1>2, OutsideTx, ReplyOnRoute DEF tables, InTransaction
<1> QED BY <1>1, <1>4, <1>5, <1>6

----------------------------------------------------------------------------
(* The steps of request p that leave the tables alone. *)

Keeps(p) == TypeOK' /\ IdsDistinct' /\ OthersAlone(p) /\ RequestOK(p)'

\* The facts about p that its next statement starts from.
LEMMA Here ==
  ASSUME ServiceInv, NEW p \in Request
  PROVE  /\ TypeOK /\ IdsDistinct /\ RequestOK(p) /\ ArgumentsOK(p)
         /\ IdsOK(p) /\ CarLocked(p) /\ CopiesFresh(p) /\ DecisionHolds(p)
         /\ pc[p] \in PC /\ call[p] \in Call \cup {NoCall} /\ tx[p] \in Tx
         /\ pc[p] \in Route(call[p].op) /\ call[p].op \in Op \cup {"none"}
<1>1. call[p] \in Call \cup {NoCall}
  BY DEF ServiceInv, TypeOK
<1>2. call[p].op \in Op \cup {"none"}
  BY <1>1 DEF Call, NoCall, Args
<1> QED BY <1>1, <1>2 DEF ServiceInv, TypeOK, RequestOK, ArgumentsOK

\* Where p is tells what it is doing.
LEMMA Place ==
  ASSUME ServiceInv, NEW p \in Request
  PROVE  /\ pc[p] = "idle" => call[p].op = "none"
         /\ pc[p] \in {"lookup", "lockRental", "flush"} => call[p].op = "end"
         /\ pc[p] = "lockCar" => call[p].op \in {"update", "delete", "register", "end"}
         /\ pc[p] = "decide" => call[p].op \in {"update", "delete", "register"}
         /\ pc[p] = "retire" => call[p].op = "delete"
         /\ pc[p] = "markInUse" => call[p].op = "register"
         /\ pc[p] = "insert" => call[p].op \in {"add", "register"}
         /\ pc[p] = "readBack" => call[p].op \in {"update", "end"}
         /\ pc[p] # "idle" => call[p].op \in Op
         /\ pc[p] \in InTransaction => call[p].op \in Op
BY Here DEF Route, Op, InTransaction

\* Raising and rolling back keeps p's part of the invariant.
LEMMA RefuseKeeps ==
  ASSUME ServiceInv, NEW p \in Request, NEW e \in Answer, pc[p] \in InTransaction, Refuse(p, e)
  PROVE  Keeps(p) /\ UNCHANGED tables
<1>1. call[p].op \in Op
  BY Place
<1>2. IdsDistinct'
  BY <1>1, RefuseStep DEF ServiceInv, IdsDistinct
<1> QED BY <1>1, <1>2, RefuseStep DEF Keeps

\* The unlocked read of a rental keeps the invariant: the car it names never changes.
LEMMA LookupKeeps ==
  ASSUME ServiceInv, NEW p \in Request, Lookup(p)
  PROVE  Keeps(p) /\ UNCHANGED tables
<1> USE FleetAssumption, ServiceAssumption
<1>1. pc[p] = "lookup" /\ call[p].op = "end" /\ call[p] \in Call
  BY Here, Place DEF Lookup, NoCall, Args
<1>2. PICK r \in Rental : r = call[p].rental
  BY <1>1, Here DEF ArgumentsOK
<1>3. CASE rentals[r] = NULL
  BY <1>1, <1>2, <1>3, RefuseKeeps DEF Lookup, Answer, DomainError, InTransaction
<1>4. CASE rentals[r] # NULL
  <2>1. rentals[r] \in RentalRow /\ rentals[r].car \in Car
    BY <1>4, Here DEF TypeOK, TablesOK, RentalRow
  <2>2. /\ Hold(p, NULL, rentals[r], {}) /\ Goto(p, "lockCar")
        /\ call' = [call EXCEPT ![p].car = rentals[r].car]
        /\ UNCHANGED <<tables, answer, locks>>
    BY <1>2, <1>4 DEF Lookup
  <2>3. /\ tx' \in [Request -> Tx]
        /\ \A x \in Request \ {p} : tx'[x] = tx[x]
    BY <2>1, <2>2, Here, HoldStep
  <2>4. pc' \in [Request -> PC] /\ pc'[p] = "lockCar" /\ \A x \in Request \ {p} : pc'[x] = pc[x]
    BY <2>2, Here, GotoStep DEF PC, InTransaction
  <2>5. PICK new : new = [op |-> "end", car |-> rentals[r].car, rental |-> r,
                          details |-> call[p].details, status |-> call[p].status,
                          today |-> call[p].today]
    OBVIOUS
  <2>6. [call[p] EXCEPT !.car = rentals[r].car] = new
    BY <1>1, <1>2, <2>5 DEF Call
  <2>7. call' = [call EXCEPT ![p] = new]
    BY <2>2, <2>6
  <2>8. new \in Call
    BY <1>1, <1>2, <2>1, <2>5 DEF Call
  <2>9. call' \in [Request -> Call \cup {NoCall}] /\ call'[p] = new
        /\ \A x \in Request \ {p} : call'[x] = call[x]
    BY <2>7, <2>8, Here DEF TypeOK
  <2>10. TypeOK'
    BY <2>2, <2>3, <2>4, <2>9, Here DEF TypeOK, TablesOK, tables, locks
  <2>11. OthersAlone(p)
    BY <2>2, <2>3, <2>4, <2>9 DEF OthersAlone, locks
  <2>12. IdsDistinct'
    BY <2>5, <2>9, Here DEF IdsDistinct
  <2>13. RequestOK(p)'
    <3>1. ArgumentsOK(p)'
      <4>1. call[p].today \in 0..day /\ day' = day
        BY <1>1, <2>2, Here DEF ArgumentsOK, tables
      <4>2. call'[p].op = "end" /\ call'[p].rental = r /\ call'[p].today = call[p].today
        BY <2>5, <2>9
      <4> QED BY <2>4, <4>1, <4>2, Routes DEF ArgumentsOK
    <3>2. IdsOK(p)'
      BY <1>4, <2>1, <2>2, <2>5, <2>9 DEF IdsOK, tables
    <3>3. CarLocked(p)' /\ CopiesFresh(p)' /\ DecisionHolds(p)'
      BY <2>4 DEF CarLocked, PastCarLock, CopiesFresh, DecisionHolds
    <3> QED BY <3>1, <3>2, <3>3 DEF RequestOK
  <2> QED BY <2>2, <2>10, <2>11, <2>12, <2>13 DEF Keeps
<1> QED BY <1>2, <1>3, <1>4

\* A statement inside the transaction that leaves the arguments alone.
LEMMA StatementKeeps ==
  ASSUME ServiceInv, NEW p \in Request, NEW next \in InTransaction,
         pc[p] \in InTransaction \ {"lookup"}, Goto(p, next), next \in Route(call[p].op),
         UNCHANGED <<tables, call, answer>>,
         tx' \in [Request -> Tx], \A x \in Request \ {p} : tx'[x] = tx[x],
         carLock' \in [Car -> Request \cup {NULL}],
         \A x \in Request \ {p}, c \in Car : carLock[c] = x => carLock'[c] = x,
         rentalLock' \in [Rental -> Request \cup {NULL}],
         writer' \in Request \cup {NULL},
         CarLocked(p)', CopiesFresh(p)', DecisionHolds(p)'
  PROVE  Keeps(p) /\ UNCHANGED tables
<1>1. next \in PC
  BY DEF PC
<1>2. pc' \in [Request -> PC] /\ pc'[p] = next /\ \A x \in Request \ {p} : pc'[x] = pc[x]
  BY <1>1, Here, GotoStep
<1>3. TypeOK'
  BY <1>2, Here DEF TypeOK, TablesOK, tables
<1>4. OthersAlone(p)
  BY <1>2 DEF OthersAlone
<1>5. IdsDistinct'
  BY Here DEF IdsDistinct
<1>6. ArgumentsOK(p)'
  BY <1>2, Here DEF ArgumentsOK, tables
<1>7. IdsOK(p)'
  BY <1>2, Here DEF IdsOK, tables
<1> QED BY <1>3, <1>4, <1>5, <1>6, <1>7 DEF Keeps, RequestOK

\* SELECT ... FOR UPDATE on the car: from here on p's copy is the newest row.
LEMMA LockCarKeeps ==
  ASSUME RowLocks, ServiceInv, NEW p \in Request, LockCar(p)
  PROVE  Keeps(p) /\ UNCHANGED tables
<1> USE FleetAssumption, ServiceAssumption
<1>1. pc[p] = "lockCar" /\ call[p].op \in {"update", "delete", "register", "end"}
  BY Place DEF LockCar
<1>2. PICK c \in Car : c = call[p].car
  BY <1>1, Here DEF ArgumentsOK, IdsOK, InTransaction
<1>3. CASE ~IsLive(cars[c])
  BY <1>1, <1>2, <1>3, RefuseKeeps DEF LockCar, Answer, DomainError, InTransaction
<1>4. CASE IsLive(cars[c])
  <2>1. PICK next : next = IF call[p].op = "end" THEN "lockRental" ELSE "decide"
    OBVIOUS
  <2>2. /\ carLock[c] = NULL /\ carLock' = [carLock EXCEPT ![c] = p]
        /\ Hold(p, cars[c], tx[p].rental, {}) /\ Goto(p, next)
        /\ UNCHANGED <<tables, call, answer, rentalLock, writer>>
    BY <1>2, <1>4, <2>1 DEF LockCar
  <2>3. next \in InTransaction /\ next \in Route(call[p].op)
    BY <1>1, <2>1, Routes DEF InTransaction
  <2>4. cars[c] \in CarRow /\ tx[p].rental \in RentalRow \cup {NULL}
    BY <1>4, Here DEF TypeOK, TablesOK, IsLive, Tx
  <2>5. /\ tx' \in [Request -> Tx] /\ tx'[p].car = cars[c]
        /\ \A x \in Request \ {p} : tx'[x] = tx[x]
    BY <2>2, <2>4, Here, HoldStep
  <2>6. pc'[p] = next
    BY <2>2, <2>3, Here, GotoStep DEF PC
  <2>7. /\ carLock' \in [Car -> Request \cup {NULL}] /\ carLock'[c] = p
        /\ \A x \in Request \ {p}, y \in Car : carLock[y] = x => carLock'[y] = x
    BY <2>2, Here DEF TypeOK
  <2>8. CarLocked(p)'
    BY <1>2, <1>4, <2>2, <2>7 DEF CarLocked, IsLive, tables
  <2>9. CopiesFresh(p)' /\ DecisionHolds(p)'
    BY <1>2, <2>1, <2>2, <2>5, <2>6 DEF CopiesFresh, DecisionHolds, tables
  <2>10. rentalLock' \in [Rental -> Request \cup {NULL}] /\ writer' \in Request \cup {NULL}
    BY <2>2, Here DEF TypeOK
  <2> QED BY <1>1, <2>2, <2>3, <2>5, <2>7, <2>8, <2>9, <2>10, StatementKeeps DEF InTransaction
<1> QED BY <1>2, <1>3, <1>4

\* The locked, fresh read of the rental: what p decides on it stays true.
LEMMA LockRentalKeeps ==
  ASSUME RowLocks, ServiceInv, NEW p \in Request, LockRental(p)
  PROVE  Keeps(p) /\ UNCHANGED tables
<1> USE FleetAssumption, ServiceAssumption
<1>1. pc[p] = "lockRental" /\ call[p].op = "end"
  BY Place DEF LockRental
<1>2. PICK r \in Rental : r = call[p].rental
  BY <1>1, Here DEF ArgumentsOK
<1>3. PICK verdict : verdict = EndVerdict(rentals[r], call[p].today)
  OBVIOUS
<1>4. verdict \in {"ok", "RentalNotFoundError", "RentalAlreadyEndedError", "RentalDateError"}
  BY <1>3 DEF EndVerdict
<1>5. CASE verdict # "ok"
  <2>1. Refuse(p, verdict)
    BY <1>2, <1>3, <1>5 DEF LockRental, ReRead
  <2> QED BY <1>1, <1>4, <2>1, RefuseKeeps DEF Answer, DomainError, InTransaction
<1>6. CASE verdict = "ok"
  <2>1. /\ rentalLock' = [rentalLock EXCEPT ![r] = p]
        /\ Hold(p, tx[p].car, rentals[r], {}) /\ Goto(p, "flush")
        /\ UNCHANGED <<tables, call, answer, carLock, writer>>
    BY <1>2, <1>3, <1>6 DEF LockRental, ReRead
  <2>2. rentals[r] \in RentalRow /\ IsOpen(rentals[r]) /\ rentals[r].start <= call[p].today
    <3>1. rentals[r] # NULL /\ IsOpen(rentals[r]) /\ ~(call[p].today < rentals[r].start)
      BY <1>3, <1>6 DEF EndVerdict
    <3>2. rentals[r] \in RentalRow
      BY <3>1, Here DEF TypeOK, TablesOK
    <3>3. rentals[r].start \in Nat /\ call[p].today \in Nat
      BY <1>1, <3>2, Here DEF ArgumentsOK, RentalRow, Day, TypeOK, TablesOK
    <3> QED BY <3>1, <3>2, <3>3
  <2>3. tx[p].car \in CarRow \cup {NULL} /\ tx[p].car = cars[call[p].car]
    BY <1>1, Here DEF Tx, CopiesFresh
  <2>4. /\ tx' \in [Request -> Tx] /\ tx'[p].car = tx[p].car /\ tx'[p].rental = rentals[r]
        /\ \A x \in Request \ {p} : tx'[x] = tx[x]
    BY <2>1, <2>2, <2>3, Here, HoldStep
  <2>5. pc'[p] = "flush"
    BY <2>1, Here, GotoStep DEF PC, InTransaction
  <2>6. CarLocked(p)'
    BY <1>1, <2>1, Here DEF CarLocked, PastCarLock, InTransaction, tables
  <2>7. CopiesFresh(p)' /\ DecisionHolds(p)'
    BY <1>2, <2>1, <2>2, <2>3, <2>4, <2>5 DEF CopiesFresh, DecisionHolds, Returnable, tables
  <2>8. /\ rentalLock' \in [Rental -> Request \cup {NULL}] /\ writer' \in Request \cup {NULL}
        /\ carLock' \in [Car -> Request \cup {NULL}]
    BY <2>1, Here DEF TypeOK
  <2> QED BY <1>1, <2>1, <2>4, <2>6, <2>7, <2>8, StatementKeeps, Routes DEF InTransaction
<1> QED BY <1>4, <1>5, <1>6

\* A write on PostgreSQL: the copies change, and nothing else.
LEMMA WriteKeeps ==
  ASSUME ServiceInv, NEW p \in Request, NEW next \in InTransaction,
         NEW car \in CarRow \cup {NULL}, NEW rental \in RentalRow \cup {NULL},
         NEW dirty \in SUBSET (CarColumns \cup {"rental"}),
         pc[p] \in InTransaction \ {"lookup"}, Hold(p, car, rental, dirty), Write(p),
         Goto(p, next), next \in Route(call[p].op),
         PastCarLock(p)' => PastCarLock(p),
         tx'[p].car = car /\ tx'[p].rental = rental /\ tx'[p].dirty = dirty /\ pc'[p] = next
           => CopiesFresh(p)' /\ DecisionHolds(p)'
  PROVE  Keeps(p) /\ UNCHANGED tables
<1>1. /\ tx' \in [Request -> Tx] /\ \A x \in Request \ {p} : tx'[x] = tx[x]
      /\ tx'[p].car = car /\ tx'[p].rental = rental /\ tx'[p].dirty = dirty
  BY Here, HoldStep
<1>2. UNCHANGED <<tables, call, answer, carLock, rentalLock>>
      /\ writer' \in Request \cup {NULL}
  BY Here, WriteStep
<1>3. pc'[p] = next
  BY Here, GotoStep DEF PC
<1>4. CopiesFresh(p)' /\ DecisionHolds(p)'
  BY <1>1, <1>3
<1>5. CarLocked(p)'
  BY <1>2, Here DEF CarLocked, tables
<1>6. carLock' \in [Car -> Request \cup {NULL}] /\ rentalLock' \in [Rental -> Request \cup {NULL}]
      /\ \A x \in Request \ {p}, c \in Car : carLock[c] = x => carLock'[c] = x
  BY <1>2, Here DEF TypeOK
<1> QED BY <1>1, <1>2, <1>4, <1>5, <1>6, StatementKeeps

\* end_rental's flush leaves p ready to commit a return.
LEMMA FlushEndKeeps ==
  ASSUME ServiceInv, NEW p \in Request, FlushEnd(p)
  PROVE  Keeps(p) /\ UNCHANGED tables
<1> USE FleetAssumption, ServiceAssumption
<1>1. pc[p] = "flush" /\ call[p].op = "end" /\ pc[p] \in InTransaction \ {"lookup"}
  BY Place DEF FlushEnd, InTransaction
<1>2. CASE call[p].today < tx[p].rental.start
  BY <1>1, <1>2, RefuseKeeps DEF FlushEnd, Answer
<1>3. CASE ~(call[p].today < tx[p].rental.start)
  <2>1. PICK c \in Car, r \in Rental : c = call[p].car /\ r = call[p].rental
    BY <1>1, Here DEF ArgumentsOK, IdsOK
  <2>2. /\ cars[c] \in CarRow /\ tx[p].car = cars[c]
        /\ rentals[r] \in RentalRow /\ tx[p].rental = rentals[r] /\ Returnable(p)
    <3>1. IsLive(cars[c]) /\ tx[p].car = cars[c] /\ tx[p].rental = rentals[r] /\ Returnable(p)
      BY <1>1, <2>1, Here DEF CarLocked, PastCarLock, CopiesFresh
    <3> QED BY <2>1, <3>1, Here DEF IsLive, Returnable, IsOpen, TypeOK, TablesOK
  <2>3. PICK car : car = [tx[p].car EXCEPT !.status = "available"]
    OBVIOUS
  <2>4. PICK rental : rental = [tx[p].rental EXCEPT !.returned = call[p].today]
    OBVIOUS
  <2>5. PICK dirty : dirty = IF tx[p].car.status = "available" THEN {"rental"}
                                                               ELSE {"rental", "status"}
    OBVIOUS
  <2>6. Hold(p, car, rental, dirty) /\ Write(p) /\ Goto(p, "commit")
    BY <1>3, <2>3, <2>4, <2>5 DEF FlushEnd
  <2>7. car \in CarRow /\ car.status = "available"
    BY <2>2, <2>3 DEF CarRow, CarStatus
  <2>8. call[p].today \in Day
    BY <1>1, Here DEF ArgumentsOK, TypeOK, TablesOK, Day
  <2>9. rental \in RentalRow
    BY <2>2, <2>4, <2>8 DEF RentalRow
  <2>10. dirty \in SUBSET (CarColumns \cup {"rental"})
    BY <2>5 DEF CarColumns
  <2>11. UNCHANGED <<tables, call>>
    BY <2>6, Here, WriteStep
  <2>12. tx'[p].car = car /\ tx'[p].rental = rental /\ tx'[p].dirty = dirty /\ pc'[p] = "commit"
           => CopiesFresh(p)' /\ DecisionHolds(p)'
    <3> SUFFICES ASSUME tx'[p].car = car, tx'[p].rental = rental, tx'[p].dirty = dirty,
                        pc'[p] = "commit"
                 PROVE  CopiesFresh(p)' /\ DecisionHolds(p)'
      OBVIOUS
    <3>1. CopiesFresh(p)'
      BY DEF CopiesFresh
    <3>2. Returnable(p)'
      BY <2>2, <2>11 DEF Returnable, tables
    <3>3. tx'[p].rental = [rentals'[call'[p].rental] EXCEPT !.returned = call'[p].today]
      BY <2>1, <2>2, <2>4, <2>11 DEF tables
    <3>4. tx'[p].dirty = IF cars'[call'[p].car].status = "available" THEN {"rental"}
                                                                    ELSE {"rental", "status"}
      BY <2>1, <2>2, <2>5, <2>11 DEF tables
    <3>5. call'[p].op = "end"
      BY <1>1, <2>11
    <3> QED BY <2>7, <3>1, <3>2, <3>3, <3>4, <3>5 DEF DecisionHolds
  <2>13. PastCarLock(p)
    BY <1>1 DEF PastCarLock, InTransaction
  <2> QED BY <1>1, <2>6, <2>7, <2>9, <2>10, <2>12, <2>13, WriteKeeps, Routes DEF InTransaction
<1> QED BY <1>2, <1>3

\* update_car leaves p ready to commit the columns that differ.
LEMMA UpdateCarKeeps ==
  ASSUME RowLocks, ServiceInv, NEW p \in Request, UpdateCar(p)
  PROVE  Keeps(p) /\ UNCHANGED tables
<1> USE FleetAssumption, ServiceAssumption
<1>1. pc[p] = "decide" /\ call[p].op = "update" /\ pc[p] \in InTransaction \ {"lookup"}
  BY DEF UpdateCar, InTransaction
<1>2. PICK c \in Car : c = call[p].car
  BY <1>1, Here DEF ArgumentsOK
<1>3. cars[c] \in CarRow /\ tx[p].car = cars[c]
  <2>1. IsLive(cars[c]) /\ tx[p].car = cars[c]
    BY <1>1, <1>2, Here DEF CarLocked, PastCarLock, CopiesFresh
  <2> QED BY <2>1, Here DEF IsLive, TypeOK, TablesOK
<1>4. PICK verdict : verdict = UpdateVerdict(call[p], cars[c])
  OBVIOUS
<1>5. verdict \in {"ok", "CarStatusTransitionError"}
  BY <1>4 DEF UpdateVerdict
<1>6. CASE verdict # "ok"
  <2>1. Refuse(p, "CarStatusTransitionError")
    BY <1>3, <1>4, <1>5, <1>6 DEF UpdateCar
  <2> QED BY <1>1, <2>1, RefuseKeeps DEF Answer, DomainError
<1>7. CASE verdict = "ok"
  <2>1. PICK changed : changed = ChangedColumns(call[p], cars[c])
    OBVIOUS
  <2>2. PICK car : car = [fleet   |-> cars[c].fleet,
                          status  |-> IF "status" \in changed THEN call[p].status ELSE cars[c].status,
                          details |-> IF "details" \in changed THEN call[p].details
                                                              ELSE cars[c].details]
    OBVIOUS
  <2>3. /\ Hold(p, car, NULL, changed) /\ Goto(p, "commit")
        /\ IF changed = {} THEN UNCHANGED <<tables, call, answer, locks>> ELSE Write(p)
    BY <1>3, <1>4, <1>7, <2>1, <2>2 DEF UpdateCar
  <2>4. Write(p)
    BY <2>3 DEF Write, MayWrite, locks
  <2>5. changed \in SUBSET (CarColumns \cup {"rental"})
    BY <2>1 DEF ChangedColumns, CarColumns
  <2>6. call[p].status \in CarStatus \cup {NULL} /\ call[p].details \in Details \cup {NULL}
    BY <1>1, Here DEF Call, NoCall, Args
  <2>7. /\ "status" \in changed => call[p].status # NULL
        /\ "details" \in changed => call[p].details # NULL
    BY <2>1 DEF ChangedColumns
  <2>8. car \in CarRow
    BY <1>3, <2>2, <2>6, <2>7 DEF CarRow
  <2>9. UNCHANGED <<tables, call>>
    BY <2>4, Here, WriteStep
  <2>10. tx'[p].car = car /\ tx'[p].rental = NULL /\ tx'[p].dirty = changed /\ pc'[p] = "commit"
           => CopiesFresh(p)' /\ DecisionHolds(p)'
    <3> SUFFICES ASSUME tx'[p].car = car, tx'[p].dirty = changed, pc'[p] = "commit"
                 PROVE  CopiesFresh(p)' /\ DecisionHolds(p)'
      OBVIOUS
    <3>1. CopiesFresh(p)'
      BY DEF CopiesFresh
    <3>2. /\ UpdateVerdict(call'[p], cars'[call'[p].car]) = "ok"
          /\ changed = ChangedColumns(call'[p], cars'[call'[p].car])
      BY <1>2, <1>4, <1>7, <2>1, <2>9 DEF tables
    <3>3. call'[p].op = "update"
      BY <1>1, <2>9
    <3>4. /\ "status" \in changed => car.status = call'[p].status
          /\ "details" \in changed => car.details = call'[p].details
      BY <2>2, <2>9
    <3> QED BY <3>1, <3>2, <3>3, <3>4 DEF DecisionHolds
  <2>11. PastCarLock(p)
    BY <1>1 DEF PastCarLock, InTransaction
  <2> QED BY <1>1, <2>3, <2>4, <2>5, <2>8, <2>10, <2>11, WriteKeeps, Routes DEF InTransaction
<1> QED BY <1>5, <1>6, <1>7

\* A check on the copies either refuses or goes on.
LEMMA DecideKeeps ==
  ASSUME ServiceInv, NEW p \in Request, NEW verdict \in Answer,
         NEW next \in {"insert", "retire"}, Decide(p, verdict, next),
         next \in Route(call[p].op),
         verdict = "ok" /\ next = "insert" => call[p].op = "register" /\ Rentable(p),
         verdict = "ok" /\ next = "retire" => OpenRentals(call[p].car) = {}
  PROVE  Keeps(p) /\ UNCHANGED tables
<1>1. pc[p] = "decide" /\ pc[p] \in InTransaction \ {"lookup"} /\ next \in InTransaction
  BY DEF Decide, InTransaction
<1>2. CASE verdict # "ok"
  BY <1>1, <1>2, RefuseKeeps DEF Decide
<1>3. CASE verdict = "ok"
  <2>1. Goto(p, next) /\ UNCHANGED <<tables, call, tx, answer, locks>>
    BY <1>3 DEF Decide
  <2>2. pc'[p] = next
    BY <1>1, <2>1, Here, GotoStep DEF PC
  <2>3. CarLocked(p)'
    BY <1>1, <2>1, Here DEF CarLocked, PastCarLock, InTransaction, tables, locks
  <2>4. CopiesFresh(p)'
    <3>1. tx'[p].car = cars'[call'[p].car]
      BY <1>1, <2>1, Here DEF CopiesFresh, tables
    <3>2. next = "insert" => Rentable(p)'
      BY <1>3, <2>1 DEF Rentable, OpenRentals, tables
    <3>3. next = "retire" => OpenRentals(call[p].car)' = {}
      BY <1>3, <2>1 DEF OpenRentals, tables
    <3> QED BY <2>2, <3>1, <3>2, <3>3 DEF CopiesFresh
  <2>5. DecisionHolds(p)'
    BY <2>2 DEF DecisionHolds
  <2>6. /\ tx' \in [Request -> Tx] /\ \A x \in Request \ {p} : tx'[x] = tx[x]
        /\ carLock' \in [Car -> Request \cup {NULL}]
        /\ \A x \in Request \ {p}, c \in Car : carLock[c] = x => carLock'[c] = x
        /\ rentalLock' \in [Rental -> Request \cup {NULL}]
        /\ writer' \in Request \cup {NULL}
    BY <2>1, Here DEF TypeOK, locks
  <2> QED BY <1>1, <2>1, <2>3, <2>4, <2>5, <2>6, StatementKeeps
<1> QED BY <1>2, <1>3

\* register_rental goes on only with a car that is free.
LEMMA CheckAvailableKeeps ==
  ASSUME ServiceInv, NEW p \in Request, CheckAvailable(p)
  PROVE  Keeps(p) /\ UNCHANGED tables
<1>1. pc[p] = "decide" /\ call[p].op = "register"
  BY DEF CheckAvailable, Decide
<1>2. PICK verdict : verdict = RegisterVerdict(tx[p].car, OpenRentals(call[p].car))
  OBVIOUS
<1>3. verdict \in {"ok", "CarNotAvailableError"}
  BY <1>2 DEF RegisterVerdict
<1>4. verdict = "ok" => Rentable(p)
  BY <1>1, <1>2, Here DEF RegisterVerdict, Rentable, CopiesFresh
<1>5. Decide(p, verdict, "insert") /\ verdict \in Answer
  BY <1>2, <1>3 DEF CheckAvailable, Answer, DomainError
<1> QED BY <1>1, <1>4, <1>5, DecideKeeps, Routes

\* delete_car goes on only with a car that is not out.
LEMMA CheckNotOutKeeps ==
  ASSUME ServiceInv, NEW p \in Request, CheckNotOut(p)
  PROVE  Keeps(p) /\ UNCHANGED tables
<1>1. pc[p] = "decide" /\ call[p].op = "delete"
  BY DEF CheckNotOut, Decide
<1>2. PICK verdict : verdict = DeleteVerdict(OpenRentals(call[p].car))
  OBVIOUS
<1>3. verdict \in {"ok", "CarHasActiveRentalError"}
      /\ (verdict = "ok" => OpenRentals(call[p].car) = {})
  BY <1>2 DEF DeleteVerdict
<1>4. Decide(p, verdict, "retire") /\ verdict \in Answer
  BY <1>2, <1>3 DEF CheckNotOut, Answer, DomainError
<1> QED BY <1>1, <1>3, <1>4, DecideKeeps, Routes

\* soft_delete leaves p ready to commit a retirement.
LEMMA RetireKeeps ==
  ASSUME ServiceInv, NEW p \in Request, Retire(p)
  PROVE  Keeps(p) /\ UNCHANGED tables
<1> USE FleetAssumption, ServiceAssumption
<1>1. pc[p] = "retire" /\ call[p].op = "delete" /\ pc[p] \in InTransaction \ {"lookup"}
      /\ PastCarLock(p)
  BY Place DEF Retire, InTransaction, PastCarLock
<1>2. tx[p].car \in CarRow
  BY <1>1, Here DEF CarLocked, CopiesFresh, IsLive, Tx
<1>3. PICK car : car = [tx[p].car EXCEPT !.fleet = "retired"]
  OBVIOUS
<1>4. car \in CarRow /\ car.fleet = "retired"
  BY <1>2, <1>3 DEF CarRow, Fleet
<1>5. Hold(p, car, NULL, {"fleet"}) /\ Write(p) /\ Goto(p, "commit")
  BY <1>3 DEF Retire
<1>6. tx'[p].car = car /\ tx'[p].rental = NULL /\ tx'[p].dirty = {"fleet"} /\ pc'[p] = "commit"
        => CopiesFresh(p)' /\ DecisionHolds(p)'
  <2>1. UNCHANGED <<tables, call>>
    BY <1>5, Here, WriteStep
  <2>2. OpenRentals(call[p].car)' = {} /\ call'[p].op = "delete"
    BY <1>1, <2>1, Here DEF CopiesFresh, OpenRentals, tables
  <2> QED BY <1>4, <2>2 DEF CopiesFresh, DecisionHolds
<1>7. {"fleet"} \in SUBSET (CarColumns \cup {"rental"})
  BY DEF CarColumns
<1> QED BY <1>1, <1>4, <1>5, <1>6, <1>7, WriteKeeps, Routes DEF InTransaction

\* add_car leaves p ready to commit a new, free car.
LEMMA InsertCarKeeps ==
  ASSUME ServiceInv, NEW p \in Request, InsertCar(p)
  PROVE  Keeps(p) /\ UNCHANGED tables
<1>1. pc[p] = "insert" /\ call[p].op = "add" /\ pc[p] \in InTransaction \ {"lookup"}
  BY DEF InsertCar, InTransaction
<1>2. PICK car : car = [fleet |-> "live", status |-> "available", details |-> call[p].details]
  OBVIOUS
<1>3. car \in CarRow
  BY <1>1, <1>2, Here DEF ArgumentsOK, CarRow, Fleet, CarStatus
<1>4. Hold(p, car, NULL, CarColumns) /\ Write(p) /\ Goto(p, "commit")
  BY <1>2 DEF InsertCar
<1>5. UNCHANGED <<tables, call>>
  BY <1>4, Here, WriteStep
<1>6. tx'[p].car = car /\ tx'[p].rental = NULL /\ tx'[p].dirty = CarColumns /\ pc'[p] = "commit"
        => CopiesFresh(p)' /\ DecisionHolds(p)'
  BY <1>1, <1>2, <1>5 DEF CopiesFresh, DecisionHolds
<1>7. ~PastCarLock(p)'
  BY <1>1, <1>5 DEF PastCarLock
<1> QED BY <1>1, <1>3, <1>4, <1>6, <1>7, WriteKeeps, Routes DEF InTransaction

\* The insert finds no committed open rental of the car p holds.
LEMMA InsertRentalKeeps ==
  ASSUME ServiceInv, NEW p \in Request, InsertRental(p)
  PROVE  Keeps(p) /\ UNCHANGED tables
<1> USE FleetAssumption, ServiceAssumption
<1>1. pc[p] = "insert" /\ call[p].op = "register" /\ pc[p] \in InTransaction \ {"lookup"}
      /\ PastCarLock(p)
  BY DEF InsertRental, InTransaction, PastCarLock
<1>2. Rentable(p) /\ tx[p].car = cars[call[p].car] /\ tx[p].car \in CarRow \cup {NULL}
  BY <1>1, Here DEF CopiesFresh, Tx
<1>3. PICK rental : rental = NewRental(p)
  OBVIOUS
<1>4. rental \in RentalRow
  BY <1>1, <1>3, Here DEF NewRental, ArgumentsOK, RentalRow, Day, TypeOK, TablesOK
<1>5. Hold(p, tx[p].car, rental, {"rental"}) /\ Write(p) /\ Goto(p, "markInUse")
  BY <1>2, <1>3 DEF InsertRental, Rentable, NewRental
<1>6. UNCHANGED <<tables, call>>
  BY <1>5, Here, WriteStep
<1>7. tx'[p].car = tx[p].car /\ tx'[p].rental = rental /\ tx'[p].dirty = {"rental"}
      /\ pc'[p] = "markInUse" => CopiesFresh(p)' /\ DecisionHolds(p)'
  BY <1>2, <1>3, <1>6 DEF CopiesFresh, DecisionHolds, Rentable, OpenRentals, NewRental, tables
<1> QED BY <1>1, <1>2, <1>4, <1>5, <1>7, WriteKeeps, Routes DEF InTransaction

\* register_rental leaves p ready to commit the rental and its car.
LEMMA MarkInUseKeeps ==
  ASSUME ServiceInv, NEW p \in Request, MarkInUse(p)
  PROVE  Keeps(p) /\ UNCHANGED tables
<1> USE FleetAssumption, ServiceAssumption
<1>1. pc[p] = "markInUse" /\ call[p].op = "register" /\ pc[p] \in InTransaction \ {"lookup"}
      /\ PastCarLock(p)
  BY Place DEF MarkInUse, InTransaction, PastCarLock
<1>2. Rentable(p) /\ tx[p].car \in CarRow /\ tx[p].rental = NewRental(p)
      /\ tx[p].rental \in RentalRow \cup {NULL}
  BY <1>1, Here DEF CopiesFresh, CarLocked, IsLive, Tx
<1>3. PICK car : car = [tx[p].car EXCEPT !.status = "in_use"]
  OBVIOUS
<1>4. car \in CarRow /\ car.status = "in_use"
  BY <1>2, <1>3 DEF CarRow, CarStatus
<1>5. Hold(p, car, tx[p].rental, {"rental", "status"}) /\ Write(p) /\ Goto(p, "commit")
  BY <1>3 DEF MarkInUse
<1>6. UNCHANGED <<tables, call>>
  BY <1>5, Here, WriteStep
<1>7. tx'[p].car = car /\ tx'[p].rental = tx[p].rental /\ tx'[p].dirty = {"rental", "status"}
      /\ pc'[p] = "commit" => CopiesFresh(p)' /\ DecisionHolds(p)'
  <2>1. Rentable(p)' /\ NewRental(p)' = NewRental(p) /\ call'[p].op = "register"
    BY <1>1, <1>2, <1>6 DEF Rentable, OpenRentals, NewRental, tables
  <2> QED BY <1>2, <1>4, <2>1 DEF CopiesFresh, DecisionHolds
<1>8. {"rental", "status"} \in SUBSET (CarColumns \cup {"rental"})
  BY DEF CarColumns
<1> QED BY <1>1, <1>2, <1>4, <1>5, <1>7, <1>8, WriteKeeps, Routes DEF InTransaction

----------------------------------------------------------------------------
(* Arriving, answering, failing. *)

\* A new request keeps its own part of the invariant.
LEMMA BeginKeeps ==
  ASSUME ServiceInv, NEW p \in Request, NEW new \in Call,
         NEW first \in {"insert", "lockCar", "lookup", "reply"}, Begin(p, new, first),
         answer' \in [Request -> Answer \cup {NULL}], first \in Route(new.op),
         new.op # "end" => new.car \in Car,
         new.op = "add" => new.details \in Details /\ FreshCar(new.car),
         new.op = "end" => first = "lookup" /\ new.rental \in Rental /\ new.today = day,
         first = "insert" => new.op = "add",
         new.op = "register" /\ first # "reply" => new.rental \in Rental /\ new.today = day,
         new.op = "register" /\ new.rental # NULL => FreshRental(new.rental)
  PROVE  Keeps(p) /\ UNCHANGED tables
<1> USE FleetAssumption, ServiceAssumption
<1>1. /\ call' \in [Request -> Call \cup {NoCall}] /\ call'[p] = new
      /\ \A x \in Request \ {p} : call'[x] = call[x]
      /\ UNCHANGED <<tables, tx, locks>>
  BY Here DEF Begin, TypeOK
<1>2. first \in PC
  BY DEF PC, InTransaction
<1>3. pc' \in [Request -> PC] /\ pc'[p] = first /\ \A x \in Request \ {p} : pc'[x] = pc[x]
  BY <1>2, Here DEF Begin, TypeOK
<1>4. TypeOK'
  BY <1>1, <1>3, Here DEF TypeOK, TablesOK, tables, locks
<1>5. OthersAlone(p)
  BY <1>1, <1>3 DEF OthersAlone, locks
<1>6. IdsDistinct'
  <2> SUFFICES ASSUME NEW x \in Request \ {p}
               PROVE  /\ new.op = "add" /\ call[x].op = "add" => new.car # call[x].car
                      /\ new.op = "register" /\ call[x].op = "register" =>
                           ((new.rental # NULL \/ call[x].rental # NULL)
                              => new.rental # call[x].rental)
    BY <1>1, Here DEF IdsDistinct
  <2> QED BY DEF FreshCar, FreshRental
<1>7. ArgumentsOK(p)'
  <2>1. day \in 0..day /\ day' = day
    BY <1>1, Here DEF TypeOK, TablesOK, Day, tables
  <2>2. new.op \in Op
    BY DEF Call
  <2> QED BY <1>1, <1>3, <2>1, <2>2 DEF ArgumentsOK, InTransaction, Op
<1>8. IdsOK(p)'
  BY <1>1, <1>3 DEF IdsOK, InTransaction, FreshCar, FreshRental, tables
<1>9. CarLocked(p)' /\ CopiesFresh(p)' /\ DecisionHolds(p)'
  BY <1>1, <1>3 DEF CarLocked, PastCarLock, CopiesFresh, DecisionHolds, InTransaction
<1> QED BY <1>1, <1>4, <1>5, <1>6, <1>7, <1>8, <1>9 DEF Keeps, RequestOK

\* Every kind of arrival keeps the invariant, the drawn ids included.
LEMMA ArriveKeeps ==
  ASSUME ServiceInv, NEW p \in Request, Arrive(p)
  PROVE  Keeps(p) /\ UNCHANGED tables
<1> USE FleetAssumption, ServiceAssumption
<1>1. answer' = answer => answer' \in [Request -> Answer \cup {NULL}]
  BY Here DEF TypeOK
<1>2. day \in Day
  BY Here DEF TypeOK, TablesOK
<1>3. CASE BeginAdd(p)
  <2>1. PICK c \in Car, d \in Details :
          FreshCar(c) /\ Begin(p, Args("add", c, NULL, d, NULL, NULL), "insert")
    BY <1>3 DEF BeginAdd
  <2>2. PICK new : new = Args("add", c, NULL, d, NULL, NULL)
    OBVIOUS
  <2>3. new \in Call /\ new.op = "add" /\ new.car = c /\ new.details = d
    BY <2>2 DEF Args, Call, Op
  <2> QED BY <1>1, <1>3, <2>1, <2>2, <2>3, BeginKeeps, Routes DEF BeginAdd
<1>4. CASE BeginUpdate(p)
  <2>1. PICK c \in Car, d \in Details \cup {NULL}, s \in CarStatus \cup {NULL} :
          Begin(p, Args("update", c, NULL, d, s, NULL), "lockCar")
    BY <1>4 DEF BeginUpdate
  <2>2. PICK new : new = Args("update", c, NULL, d, s, NULL)
    OBVIOUS
  <2>3. new \in Call /\ new.op = "update" /\ new.car = c
    BY <2>2 DEF Args, Call, Op
  <2> QED BY <1>1, <1>4, <2>1, <2>2, <2>3, BeginKeeps, Routes DEF BeginUpdate
<1>5. CASE BeginDelete(p)
  <2>1. PICK c \in Car : Begin(p, Args("delete", c, NULL, NULL, NULL, NULL), "lockCar")
    BY <1>5 DEF BeginDelete
  <2>2. PICK new : new = Args("delete", c, NULL, NULL, NULL, NULL)
    OBVIOUS
  <2>3. new \in Call /\ new.op = "delete" /\ new.car = c
    BY <2>2 DEF Args, Call, Op
  <2> QED BY <1>1, <1>5, <2>1, <2>2, <2>3, BeginKeeps, Routes DEF BeginDelete
<1>6. CASE BeginRegister(p)
  <2>1. PICK c \in Car, r \in Rental :
          FreshRental(r) /\ Begin(p, Args("register", c, r, NULL, NULL, day), "lockCar")
    BY <1>6 DEF BeginRegister
  <2>2. PICK new : new = Args("register", c, r, NULL, NULL, day)
    OBVIOUS
  <2>3. new \in Call /\ new.op = "register" /\ new.car = c /\ new.rental = r /\ new.today = day
    BY <1>2, <2>2 DEF Args, Call, Op
  <2> QED BY <1>1, <1>6, <2>1, <2>2, <2>3, BeginKeeps, Routes DEF BeginRegister
<1>7. CASE RefuseStartDate(p)
  <2>1. PICK c \in Car, start \in Day \ {day} :
          Begin(p, Args("register", c, NULL, NULL, NULL, start), "reply")
    BY <1>7 DEF RefuseStartDate
  <2>2. PICK new : new = Args("register", c, NULL, NULL, NULL, start)
    OBVIOUS
  <2>3. new \in Call /\ new.op = "register" /\ new.car = c /\ new.rental = NULL
    BY <2>2 DEF Args, Call, Op
  <2>4. answer' \in [Request -> Answer \cup {NULL}]
    BY <1>7, Here, AnswerStep DEF RefuseStartDate, Answer, DomainError
  <2> QED BY <2>1, <2>2, <2>3, <2>4, BeginKeeps, Routes
<1>8. CASE BeginEnd(p)
  <2>1. PICK r \in Rental : Begin(p, Args("end", NULL, r, NULL, NULL, day), "lookup")
    BY <1>8 DEF BeginEnd
  <2>2. PICK new : new = Args("end", NULL, r, NULL, NULL, day)
    OBVIOUS
  <2>3. new \in Call /\ new.op = "end" /\ new.rental = r /\ new.today = day
    BY <1>2, <2>2 DEF Args, Call, Op
  <2> QED BY <1>1, <1>8, <2>1, <2>2, <2>3, BeginKeeps, Routes DEF BeginEnd
<1> QED BY <1>3, <1>4, <1>5, <1>6, <1>7, <1>8 DEF Arrive

\* After the commit a request only moves on to its answer.
LEMMA AfterCommitKeeps ==
  ASSUME ServiceInv, NEW p \in Request, NEW next \in {"readBack", "reply"}, Goto(p, next),
         next \in Route(call[p].op), UNCHANGED <<tables, call, tx, locks>>,
         answer' \in [Request -> Answer \cup {NULL}]
  PROVE  Keeps(p) /\ UNCHANGED tables
<1>1. next \in PC /\ next \notin InTransaction
  BY DEF PC, InTransaction
<1>2. pc' \in [Request -> PC] /\ pc'[p] = next /\ \A x \in Request \ {p} : pc'[x] = pc[x]
  BY <1>1, Here, GotoStep
<1>3. TypeOK'
  BY <1>2, Here DEF TypeOK, TablesOK, tables, locks
<1>4. OthersAlone(p)
  BY <1>2 DEF OthersAlone, locks
<1>5. IdsDistinct'
  BY Here DEF IdsDistinct
<1>6. RequestOK(p)'
  BY <1>1, <1>2, OutsideTx DEF tables
<1> QED BY <1>3, <1>4, <1>5, <1>6 DEF Keeps

\* Publishing keeps p's part of the invariant.
LEMMA PublishKeeps ==
  ASSUME ServiceInv, NEW p \in Request, Publish(p)
  PROVE  Keeps(p) /\ UNCHANGED tables
<1>1. pc[p] = "publish" /\ call[p].op \in Op
  BY Place DEF Publish
<1>2. PICK next : next = IF call[p].op \in {"update", "end"} THEN "readBack" ELSE "reply"
  OBVIOUS
<1>3. next \in {"readBack", "reply"} /\ next \in Route(call[p].op)
  BY <1>1, <1>2, ReplyOnRoute, Routes
<1>4. Goto(p, next) /\ UNCHANGED <<tables, call, tx, answer, locks>>
  BY <1>2 DEF Publish
<1>5. answer' \in [Request -> Answer \cup {NULL}]
  BY <1>4, Here DEF TypeOK
<1> QED BY <1>3, <1>4, <1>5, AfterCommitKeeps

\* Building the response keeps p's part of the invariant.
LEMMA ReadBackKeeps ==
  ASSUME ServiceInv, NEW p \in Request, ReadBack(p)
  PROVE  Keeps(p) /\ UNCHANGED tables
<1>1. pc[p] = "readBack" /\ call[p].op \in Op
  BY Place DEF ReadBack
<1>2. Goto(p, "reply") /\ UNCHANGED <<tables, call, tx, locks>>
  BY DEF ReadBack
<1>3. answer' \in [Request -> Answer \cup {NULL}]
  BY Here, AnswerStep DEF ReadBack, TypeOK, Answer
<1> QED BY <1>1, <1>2, <1>3, AfterCommitKeeps, ReplyOnRoute

\* Answering keeps p's part of the invariant.
LEMMA ReplyKeeps ==
  ASSUME ServiceInv, NEW p \in Request, Reply(p)
  PROVE  Keeps(p) /\ UNCHANGED tables
<1> USE FleetAssumption, ServiceAssumption
<1>1. UNCHANGED <<tables, tx, locks>>
  BY DEF Reply
<1>2. pc' \in [Request -> PC] /\ pc'[p] = "idle" /\ \A x \in Request \ {p} : pc'[x] = pc[x]
  BY Here, GotoStep DEF Reply, PC
<1>3. call' \in [Request -> Call \cup {NoCall}] /\ call'[p] = NoCall
      /\ \A x \in Request \ {p} : call'[x] = call[x]
  BY Here DEF Reply, TypeOK
<1>4. answer' \in [Request -> Answer \cup {NULL}]
  BY Here, AnswerStep DEF Reply
<1>5. TypeOK'
  BY <1>1, <1>2, <1>3, <1>4, Here DEF TypeOK, TablesOK, tables, locks
<1>6. OthersAlone(p)
  BY <1>1, <1>2, <1>3 DEF OthersAlone, locks
<1>7. NoCall.op = "none"
  BY DEF NoCall, Args
<1>8. IdsDistinct'
  BY <1>3, <1>7, Here DEF IdsDistinct
<1>9. RequestOK(p)'
  BY <1>2, <1>3, <1>7, Routes DEF RequestOK, ArgumentsOK, IdsOK, CarLocked, PastCarLock,
     CopiesFresh, DecisionHolds, InTransaction
<1> QED BY <1>1, <1>5, <1>6, <1>8, <1>9 DEF Keeps

\* A statement that fails keeps p's part of the invariant.
LEMMA AbortKeeps ==
  ASSUME ServiceInv, NEW p \in Request, Abort(p)
  PROVE  Keeps(p) /\ UNCHANGED tables
BY RefuseKeeps DEF Abort, Answer

----------------------------------------------------------------------------
(* A commit is a step of the contract. *)

\* The contract's rules are the service's: both modules extend FleetTables.
LEMMA SameRules ==
  /\ \A row : Contract!IsLive(row) = IsLive(row) /\ Contract!IsOpen(row) = IsOpen(row)
  /\ \A c : Contract!OpenRentals(c) = OpenRentals(c)
  /\ \A body, row : /\ Contract!ChangedColumns(body, row) = ChangedColumns(body, row)
                    /\ Contract!UpdateVerdict(body, row) = UpdateVerdict(body, row)
BY DEF Contract!IsLive, IsLive, Contract!IsOpen, IsOpen, Contract!OpenRentals, OpenRentals,
       Contract!ChangedColumns, ChangedColumns, Contract!UpdateVerdict, UpdateVerdict,
       Contract!AllowedTargets, AllowedTargets

\* At its commit a request still has the car's row, as it was locked.
LEMMA AtCommit ==
  ASSUME ServiceInv, NEW p \in Request, pc[p] = "commit"
  PROVE  /\ call[p] \in Call /\ call[p].op \in Op /\ call[p].car \in Car
         /\ cars \in [Car -> CarRow \cup {NULL}] /\ rentals \in [Rental -> RentalRow \cup {NULL}]
         /\ DecisionHolds(p) /\ tx[p].car \in CarRow \cup {NULL}
         /\ call[p].op # "add" => cars[call[p].car] \in CarRow /\ IsLive(cars[call[p].car])
<1>1. call[p].op \in Op /\ call[p] \in Call /\ tx[p].car \in CarRow \cup {NULL}
  BY Here, Place DEF InTransaction, NoCall, Args, Op, Tx
<1>2. call[p].car \in Car
  BY <1>1, Here DEF ArgumentsOK, IdsOK, InTransaction, Op
<1>3. call[p].op # "add" => IsLive(cars[call[p].car])
  BY Here DEF CarLocked, PastCarLock, InTransaction
<1> QED BY <1>1, <1>2, <1>3, Here DEF TypeOK, TablesOK, IsLive

\* The commit of add_car is the contract's Add.
LEMMA CommitAdd ==
  ASSUME ServiceInv, NEW p \in Request, pc[p] = "commit", Apply(p), call[p].op = "add"
  PROVE  Contract!Add(call[p].car, call[p].details) /\ call[p].details \in Details
<1>1. /\ tx[p].dirty = CarColumns
      /\ tx[p].car = [fleet |-> "live", status |-> "available", details |-> call[p].details]
  BY AtCommit DEF DecisionHolds
<1>2. cars[call[p].car] = NULL /\ call[p].details \in Details
  BY Here DEF IdsOK, ArgumentsOK, InTransaction
<1>3. "rental" \notin CarColumns /\ CarColumns \cap CarColumns # {}
  BY DEF CarColumns
<1> QED BY <1>1, <1>2, <1>3 DEF Apply, Saved, Contract!Add

\* The commit of update_car is the contract's Change, or changes nothing.
LEMMA CommitUpdate ==
  ASSUME ServiceInv, NEW p \in Request, pc[p] = "commit", Apply(p), call[p].op = "update"
  PROVE  \/ UNCHANGED tables
         \/ \E body \in Contract!Body : Contract!Change(call[p].car, body)
<1> USE FleetAssumption
<1>1. PICK c \in Car : c = call[p].car
  BY AtCommit
<1>2. PICK body : body = [details |-> call[p].details, status |-> call[p].status]
  OBVIOUS
<1>3. body \in Contract!Body /\ body.details = call[p].details /\ body.status = call[p].status
  BY <1>2, AtCommit DEF Call, Contract!Body, Contract!CarStatus, CarStatus
<1>4. cars[c] \in CarRow /\ IsLive(cars[c])
  BY <1>1, AtCommit
<1>5. PICK dirty : dirty = tx[p].dirty
  OBVIOUS
<1>6. /\ dirty = ChangedColumns(body, cars[c])
      /\ UpdateVerdict(body, cars[c]) = "ok"
      /\ "status" \in dirty => tx[p].car.status = body.status
      /\ "details" \in dirty => tx[p].car.details = body.details
  <2>1. /\ dirty = ChangedColumns(call[p], cars[c])
        /\ UpdateVerdict(call[p], cars[c]) = "ok"
        /\ "status" \in dirty => tx[p].car.status = call[p].status
        /\ "details" \in dirty => tx[p].car.details = call[p].details
    BY <1>1, <1>5, AtCommit DEF DecisionHolds
  <2>2. ChangedColumns(call[p], cars[c]) = ChangedColumns(body, cars[c])
    BY <1>3 DEF ChangedColumns
  <2>3. UpdateVerdict(call[p], cars[c]) = UpdateVerdict(body, cars[c])
    BY <1>3, <2>2 DEF UpdateVerdict
  <2> QED BY <1>3, <2>1, <2>2, <2>3
<1>7. "rental" \notin dirty /\ "fleet" \notin dirty /\ dirty \subseteq CarColumns
  BY <1>6 DEF ChangedColumns, CarColumns
<1>8. CASE dirty = {}
  BY <1>5, <1>8 DEF Apply, tables
<1>9. CASE dirty # {}
  <2>1. PICK row : row = Saved(cars[c], tx[p].car, dirty)
    OBVIOUS
  <2>2. cars' = [cars EXCEPT ![c] = row] /\ UNCHANGED <<rentals, day>>
    BY <1>1, <1>5, <1>7, <1>9, <2>1 DEF Apply
  <2>3. row = [fleet   |-> "live",
               status  |-> IF body.status = NULL THEN cars[c].status ELSE body.status,
               details |-> IF body.details = NULL THEN cars[c].details ELSE body.details]
    <3>1. cars[c] # NULL /\ cars[c].fleet = "live"
      BY <1>4 DEF IsLive
    <3>2. /\ "status" \in dirty <=> (body.status # NULL /\ body.status # cars[c].status)
          /\ "details" \in dirty <=> (body.details # NULL /\ body.details # cars[c].details)
      BY <1>6 DEF ChangedColumns
    <3>3. row = [fleet   |-> cars[c].fleet,
                 status  |-> IF "status" \in dirty THEN tx[p].car.status ELSE cars[c].status,
                 details |-> IF "details" \in dirty THEN tx[p].car.details ELSE cars[c].details]
      BY <1>7, <2>1, <3>1 DEF Saved
    <3> QED BY <1>6, <3>1, <3>2, <3>3
  <2>4. Contract!Change(c, body)
    BY <1>4, <1>6, <1>9, <2>2, <2>3, SameRules DEF Contract!Change
  <2> QED BY <1>1, <1>3, <2>4
<1> QED BY <1>8, <1>9

\* The commit of delete_car is the contract's Retire.
LEMMA CommitDelete ==
  ASSUME ServiceInv, NEW p \in Request, pc[p] = "commit", Apply(p), call[p].op = "delete"
  PROVE  Contract!Retire(call[p].car)
<1> USE FleetAssumption
<1>1. PICK c \in Car : c = call[p].car
  BY AtCommit
<1>2. cars[c] \in CarRow /\ IsLive(cars[c]) /\ cars[c] # NULL
  BY <1>1, AtCommit
<1>3. tx[p].dirty = {"fleet"} /\ tx[p].car.fleet = "retired" /\ OpenRentals(c) = {}
  BY <1>1, AtCommit DEF DecisionHolds
<1>4. "rental" \notin {"fleet"} /\ {"fleet"} \cap CarColumns # {}
  BY DEF CarColumns
<1>5. cars' = [cars EXCEPT ![c] = Saved(cars[c], tx[p].car, {"fleet"})]
      /\ UNCHANGED <<rentals, day>>
  BY <1>1, <1>3, <1>4 DEF Apply
<1>6. Saved(cars[c], tx[p].car, {"fleet"}) =
      [fleet |-> "retired", status |-> cars[c].status, details |-> cars[c].details]
  BY <1>2, <1>3 DEF Saved
<1>7. cars' = [cars EXCEPT ![c].fleet = "retired"]
  <2>1. cars \in [Car -> CarRow \cup {NULL}]
    BY AtCommit
  <2>2. [cars EXCEPT ![c].fleet = "retired"] =
        [cars EXCEPT ![c] = [fleet |-> "retired", status |-> cars[c].status,
                             details |-> cars[c].details]]
    BY <1>2, <2>1, SetFleet
  <2> QED BY <1>5, <1>6, <2>2
<1> QED BY <1>1, <1>2, <1>3, <1>5, <1>7, SameRules DEF Contract!Retire

\* The commit of register_rental is the contract's Rent.
LEMMA CommitRegister ==
  ASSUME ServiceInv, NEW p \in Request, pc[p] = "commit", Apply(p), call[p].op = "register"
  PROVE  /\ Contract!Rent(call[p].car, call[p].rental, call[p].today)
         /\ call[p].rental \in Rental /\ call[p].today \in Day
<1> USE FleetAssumption
<1>1. PICK c \in Car, r \in Rental : c = call[p].car /\ r = call[p].rental
  BY AtCommit, Here DEF ArgumentsOK, InTransaction
<1>2. cars[c] \in CarRow /\ IsLive(cars[c]) /\ cars[c] # NULL
  BY <1>1, AtCommit
<1>3. tx[p].dirty = {"rental", "status"} /\ tx[p].car.status = "in_use" /\ Rentable(p)
      /\ tx[p].rental = [car |-> c, start |-> call[p].today, returned |-> NULL]
  BY <1>1, AtCommit DEF DecisionHolds, NewRental
<1>4. {"rental", "status"} \cap CarColumns # {}
  BY DEF CarColumns
<1>5. cars' = [cars EXCEPT ![c] = Saved(cars[c], tx[p].car, {"rental", "status"})]
      /\ rentals' = [rentals EXCEPT ![r] = tx[p].rental] /\ day' = day
  BY <1>1, <1>3, <1>4 DEF Apply
<1>6. Saved(cars[c], tx[p].car, {"rental", "status"}) =
      [fleet |-> cars[c].fleet, status |-> "in_use", details |-> cars[c].details]
  BY <1>2, <1>3 DEF Saved
<1>7. cars' = [cars EXCEPT ![c].status = "in_use"]
  <2>1. cars \in [Car -> CarRow \cup {NULL}]
    BY AtCommit
  <2>2. [cars EXCEPT ![c].status = "in_use"] =
        [cars EXCEPT ![c] = [fleet |-> cars[c].fleet, status |-> "in_use",
                             details |-> cars[c].details]]
    BY <1>2, <2>1, SetStatus
  <2> QED BY <1>5, <1>6, <2>2
<1>8. rentals[r] = NULL /\ call[p].today \in 0..day /\ call[p].today \in Day
  BY <1>1, Here DEF IdsOK, ArgumentsOK, InTransaction, TypeOK, TablesOK, Day
<1>9. call[p].today <= day
  BY <1>8
<1> QED BY <1>1, <1>2, <1>3, <1>5, <1>7, <1>8, <1>9, SameRules DEF Contract!Rent, Rentable

\* The commit of end_rental is the contract's Return.
LEMMA CommitEnd ==
  ASSUME ServiceInv, NEW p \in Request, pc[p] = "commit", Apply(p), call[p].op = "end"
  PROVE  /\ Contract!Return(call[p].rental, call[p].today)
         /\ call[p].rental \in Rental /\ call[p].today \in Day
         /\ rentals[call[p].rental].car = call[p].car
<1> USE FleetAssumption
<1>1. PICK c \in Car, r \in Rental : c = call[p].car /\ r = call[p].rental
  BY AtCommit, Here DEF ArgumentsOK
<1>2. cars[c] \in CarRow /\ IsLive(cars[c]) /\ cars[c] # NULL
  BY <1>1, AtCommit
<1>3. PICK dirty : dirty = IF cars[c].status = "available" THEN {"rental"}
                                                          ELSE {"rental", "status"}
  OBVIOUS
<1>4. tx[p].dirty = dirty /\ tx[p].car.status = "available" /\ Returnable(p)
      /\ tx[p].rental = [rentals[r] EXCEPT !.returned = call[p].today]
  BY <1>1, <1>3, AtCommit DEF DecisionHolds
<1>5. rentals' = [rentals EXCEPT ![r].returned = call[p].today] /\ day' = day
  BY <1>1, <1>3, <1>4 DEF Apply
<1>6. cars' = [cars EXCEPT ![c].status = "available"]
  <2>1. cars \in [Car -> CarRow \cup {NULL}]
    BY AtCommit
  <2>2. [cars EXCEPT ![c].status = "available"] =
        [cars EXCEPT ![c] = [fleet |-> cars[c].fleet, status |-> "available",
                             details |-> cars[c].details]]
    BY <1>2, <2>1, SetStatus
  <2>3. CASE cars[c].status = "available"
    <3>1. dirty \cap CarColumns = {}
      BY <1>3, <2>3 DEF CarColumns
    <3>2. cars' = cars
      BY <1>4, <3>1 DEF Apply
    <3>3. cars[c] = [fleet |-> cars[c].fleet, status |-> "available", details |-> cars[c].details]
      BY <1>2, <2>3 DEF CarRow
    <3> QED BY <2>1, <2>2, <3>2, <3>3
  <2>4. CASE cars[c].status # "available"
    <3>1. dirty = {"rental", "status"} /\ {"rental", "status"} \cap CarColumns # {}
      BY <1>3, <2>4 DEF CarColumns
    <3>2. cars' = [cars EXCEPT ![c] = Saved(cars[c], tx[p].car, {"rental", "status"})]
      BY <1>1, <1>4, <3>1 DEF Apply
    <3>3. Saved(cars[c], tx[p].car, {"rental", "status"}) =
          [fleet |-> cars[c].fleet, status |-> "available", details |-> cars[c].details]
      BY <1>2, <1>4 DEF Saved
    <3> QED BY <2>2, <3>2, <3>3
  <2> QED BY <2>3, <2>4
<1>7. rentals[r].car = c /\ call[p].today \in 0..day /\ call[p].today \in Day
  BY <1>1, Here DEF IdsOK, ArgumentsOK, InTransaction, TypeOK, TablesOK, Day
<1>8. call[p].today <= day
  BY <1>7
<1> QED BY <1>1, <1>2, <1>4, <1>5, <1>6, <1>7, <1>8, SameRules DEF Contract!Return, Returnable

\* Whatever p commits, on whatever it read before, is one operation of the
\* contract on the newest committed rows, or changes nothing.
THEOREM CommitImplementsContract ==
  ASSUME ServiceInv, NEW p \in Request, pc[p] = "commit", Apply(p)
  PROVE  Contract!Next \/ UNCHANGED tables
<1>1. call[p].op \in Op /\ call[p].car \in Car
  BY AtCommit
<1>2. CASE call[p].op = "add"
  BY <1>1, <1>2, CommitAdd DEF Contract!Next
<1>3. CASE call[p].op = "update"
  BY <1>1, <1>3, CommitUpdate DEF Contract!Next
<1>4. CASE call[p].op = "delete"
  BY <1>1, <1>4, CommitDelete DEF Contract!Next
<1>5. CASE call[p].op = "register"
  BY <1>1, <1>5, CommitRegister DEF Contract!Next, Contract!Day, Day
<1>6. CASE call[p].op = "end"
  BY <1>6, CommitEnd DEF Contract!Next, Contract!Day, Day
<1> QED BY <1>1, <1>2, <1>3, <1>4, <1>5, <1>6 DEF Op

----------------------------------------------------------------------------
(* What a commit of p changes: its own car, and one rental of it. *)

TouchesOnly(p) ==
  /\ TablesOK'
  /\ day' = day
  /\ \A x \in Car : x # call[p].car => cars'[x] = cars[x]
  /\ \A r \in Rental :
       rentals'[r] # rentals[r] =>
         /\ r = call[p].rental
         /\ \/ call[p].op = "register" /\ rentals[r] = NULL
            \/ call[p].op = "end" /\ rentals[r] # NULL
         /\ rentals'[r] # NULL /\ rentals'[r].car = call[p].car
         /\ rentals[r] # NULL => rentals[r].car = call[p].car

\* A commit touches the rows p has locked or drawn, and no others.
LEMMA ApplyTouchesOnly ==
  ASSUME ServiceInv, NEW p \in Request, pc[p] = "commit", Apply(p)
  PROVE  TouchesOnly(p)
<1> USE FleetAssumption
<1>1. PICK c \in Car : c = call[p].car
  BY AtCommit
<1>2. TablesOK /\ day \in Day
  BY Here DEF TypeOK, TablesOK
<1>3. PICK row : row = Saved(cars[c], tx[p].car, tx[p].dirty)
  OBVIOUS
<1>4. tx[p].dirty \cap CarColumns # {} => row \in CarRow
  <2>1. cars[c] \in CarRow \cup {NULL} /\ tx[p].car \in CarRow \cup {NULL}
    BY <1>1, AtCommit
  <2>2. CASE call[p].op = "add"
    <3>1. cars[c] = NULL
      BY <1>1, <2>2, Here DEF IdsOK, InTransaction
    <3>2. tx[p].car # NULL
      <4>1. tx[p].car = [fleet |-> "live", status |-> "available", details |-> call[p].details]
        BY <2>2, AtCommit DEF DecisionHolds
      <4>2. call[p].details \in Details
        BY <2>2, Here DEF ArgumentsOK
      <4> QED BY <4>1, <4>2 DEF CarRow, Fleet, CarStatus
    <3> QED BY <1>3, <2>1, <3>1, <3>2 DEF Saved
  <2>3. CASE call[p].op = "update"
    <3>1. cars[c] \in CarRow /\ cars[c] # NULL
      BY <1>1, <2>3, AtCommit DEF IsLive
    <3>2. call[p].status \in CarStatus \cup {NULL} /\ call[p].details \in Details \cup {NULL}
      BY AtCommit DEF Call
    <3>3. tx[p].dirty = ChangedColumns(call[p], cars[c])
          /\ ("status" \in tx[p].dirty => tx[p].car.status = call[p].status)
          /\ ("details" \in tx[p].dirty => tx[p].car.details = call[p].details)
      BY <1>1, <2>3, AtCommit DEF DecisionHolds
    <3>4. /\ "fleet" \notin tx[p].dirty
          /\ "status" \in tx[p].dirty => call[p].status # NULL
          /\ "details" \in tx[p].dirty => call[p].details # NULL
      BY <3>3 DEF ChangedColumns
    <3>5. row = [fleet   |-> cars[c].fleet,
                 status  |-> IF "status" \in tx[p].dirty THEN call[p].status ELSE cars[c].status,
                 details |-> IF "details" \in tx[p].dirty THEN call[p].details
                                                         ELSE cars[c].details]
      BY <1>3, <3>1, <3>3, <3>4 DEF Saved
    <3> QED BY <3>1, <3>2, <3>4, <3>5 DEF CarRow
  <2>4. CASE call[p].op \in {"delete", "register", "end"}
    <3>1. cars[c] \in CarRow /\ cars[c] # NULL
      BY <1>1, <2>4, AtCommit DEF IsLive
    <3>2. /\ "fleet" \in tx[p].dirty => tx[p].car.fleet = "retired"
          /\ "status" \in tx[p].dirty => tx[p].car.status \in CarStatus
          /\ "details" \notin tx[p].dirty
      <4>1. CASE call[p].op = "delete"
        <5>1. tx[p].dirty = {"fleet"} /\ tx[p].car.fleet = "retired"
          BY <4>1, AtCommit DEF DecisionHolds
        <5> QED BY <5>1
      <4>2. CASE call[p].op = "register"
        <5>1. tx[p].dirty = {"rental", "status"} /\ tx[p].car.status = "in_use"
          BY <4>2, AtCommit DEF DecisionHolds
        <5> QED BY <5>1 DEF CarStatus
      <4>3. CASE call[p].op = "end"
        <5>1. tx[p].car.status = "available"
          BY <4>3, AtCommit DEF DecisionHolds
        <5>2. tx[p].dirty = {"rental"} \/ tx[p].dirty = {"rental", "status"}
          BY <4>3, AtCommit DEF DecisionHolds
        <5> QED BY <5>1, <5>2 DEF CarStatus
      <4> QED BY <2>4, <4>1, <4>2, <4>3
    <3>3. row = [fleet   |-> IF "fleet" \in tx[p].dirty THEN tx[p].car.fleet ELSE cars[c].fleet,
                 status  |-> IF "status" \in tx[p].dirty THEN tx[p].car.status
                                                        ELSE cars[c].status,
                 details |-> cars[c].details]
      BY <1>3, <3>1, <3>2 DEF Saved
    <3> QED BY <3>1, <3>2, <3>3 DEF CarRow, Fleet
  <2> QED BY <2>2, <2>3, <2>4, AtCommit DEF Op
<1>5. /\ cars' \in [Car -> CarRow \cup {NULL}]
      /\ \A x \in Car : x # call[p].car => cars'[x] = cars[x]
  BY <1>1, <1>2, <1>3, <1>4 DEF Apply, TablesOK
<1>6. CASE call[p].op \in {"add", "update", "delete"}
  <2>1. "rental" \notin tx[p].dirty
    <3>1. CASE call[p].op = "add"
      <4>1. tx[p].dirty = CarColumns
        BY <3>1, AtCommit DEF DecisionHolds
      <4> QED BY <4>1 DEF CarColumns
    <3>2. CASE call[p].op = "update"
      <4>1. tx[p].dirty = ChangedColumns(call[p], cars[c])
        BY <1>1, <3>2, AtCommit DEF DecisionHolds
      <4> QED BY <4>1 DEF ChangedColumns
    <3>3. CASE call[p].op = "delete"
      <4>1. tx[p].dirty = {"fleet"}
        BY <3>3, AtCommit DEF DecisionHolds
      <4> QED BY <4>1
    <3> QED BY <1>6, <3>1, <3>2, <3>3
  <2>2. rentals' = rentals /\ day' = day
    BY <2>1 DEF Apply
  <2> QED BY <1>2, <1>5, <2>2 DEF TouchesOnly, TablesOK
<1>7. CASE call[p].op \in {"register", "end"}
  <2>1. PICK r \in Rental : r = call[p].rental
    BY <1>7, Here DEF ArgumentsOK, InTransaction
  <2>2. "rental" \in tx[p].dirty
    <3>1. CASE call[p].op = "register"
      <4>1. tx[p].dirty = {"rental", "status"}
        BY <3>1, AtCommit DEF DecisionHolds
      <4> QED BY <4>1
    <3>2. CASE call[p].op = "end"
      <4>1. tx[p].dirty = {"rental"} \/ tx[p].dirty = {"rental", "status"}
        BY <3>2, AtCommit DEF DecisionHolds
      <4> QED BY <4>1
    <3> QED BY <1>7, <3>1, <3>2
  <2>3. rentals' = [rentals EXCEPT ![r] = tx[p].rental] /\ day' = day
    BY <2>1, <2>2 DEF Apply
  <2>4. tx[p].rental \in RentalRow /\ tx[p].rental.car = c
    <3>1. call[p].today \in Day
      BY <1>2, <1>7, Here DEF ArgumentsOK, InTransaction, Day
    <3>2. CASE call[p].op = "register"
      <4>1. tx[p].rental = [car |-> c, start |-> call[p].today, returned |-> NULL]
        BY <1>1, <3>2, AtCommit DEF DecisionHolds, NewRental
      <4> QED BY <3>1, <4>1 DEF RentalRow
    <3>3. CASE call[p].op = "end"
      <4>1. tx[p].rental = [rentals[r] EXCEPT !.returned = call[p].today] /\ IsOpen(rentals[r])
        BY <2>1, <3>3, AtCommit DEF DecisionHolds, Returnable
      <4>2. rentals[r] \in RentalRow
        BY <4>1, AtCommit DEF IsOpen
      <4>3. rentals[r].car = c
        BY <1>1, <2>1, <3>3, Here DEF IdsOK, InTransaction
      <4> QED BY <3>1, <4>1, <4>2, <4>3 DEF RentalRow
    <3> QED BY <1>7, <3>2, <3>3
  <2>5. /\ call[p].op = "register" => rentals[r] = NULL
        /\ call[p].op = "end" => rentals[r] # NULL /\ rentals[r].car = c
    BY <1>1, <2>1, Here DEF IdsOK, InTransaction
  <2>6. rentals' \in [Rental -> RentalRow \cup {NULL}]
    BY <2>3, <2>4, AtCommit
  <2>7. \A s \in Rental : rentals'[s] # rentals[s] => s = r
    BY <2>3, AtCommit
  <2>8. rentals'[r] # NULL /\ rentals'[r].car = c
    BY <2>3, <2>4, AtCommit
  <2> QED BY <1>1, <1>2, <1>5, <1>7, <2>1, <2>3, <2>5, <2>6, <2>7, <2>8 DEF TouchesOnly, TablesOK
<1> QED BY <1>6, <1>7, AtCommit DEF Op

----------------------------------------------------------------------------
(* A request that does not move keeps its conditions when the day advances, *)
(* or when another request commits.                                         *)

\* What another request knows stays true when its rows are left alone.
LEMMA Still ==
  ASSUME ServiceInv, NEW x \in Request,
         pc'[x] = pc[x], call'[x] = call[x], tx'[x] = tx[x], day' \in Nat, day <= day',
         call[x].op = "add" /\ pc[x] \in InTransaction => cars'[call[x].car] = cars[call[x].car],
         call[x].op = "register" /\ pc[x] \in InTransaction =>
           rentals'[call[x].rental] = rentals[call[x].rental],
         call[x].op = "end" /\ pc[x] \in InTransaction \ {"lookup"} =>
           /\ rentals'[call[x].rental] # NULL
           /\ rentals'[call[x].rental].car = rentals[call[x].rental].car,
         PastCarLock(x) => /\ carLock'[call[x].car] = x
                           /\ cars'[call[x].car] = cars[call[x].car]
                           /\ OpenRentals(call[x].car)' = OpenRentals(call[x].car)
                           /\ call[x].op = "end" =>
                                rentals'[call[x].rental] = rentals[call[x].rental]
  PROVE  RequestOK(x)'
<1>1. ArgumentsOK(x)'
  <2>1. 0..day \subseteq 0..day'
    BY Here DEF TypeOK, TablesOK, Day
  <2> QED BY <2>1, Here DEF ArgumentsOK
<1>2. IdsOK(x)'
  BY Here DEF IdsOK
<1>3. CarLocked(x)'
  BY Here DEF CarLocked, PastCarLock
<1>4. CASE PastCarLock(x)
  <2>1. /\ Rentable(x)' = Rentable(x) /\ NewRental(x)' = NewRental(x)
        /\ call[x].op = "end" => Returnable(x)' = Returnable(x)
    BY <1>4 DEF Rentable, NewRental, Returnable
  <2>2. CopiesFresh(x)'
    BY <1>4, <2>1, Here, Place DEF CopiesFresh
  <2>3. DecisionHolds(x)'
    <3>0. CASE pc[x] # "commit"
      BY <3>0 DEF DecisionHolds
    <3>1. CASE pc[x] = "commit" /\ call[x].op = "end"
      <4>1. PICK row : row = cars[call[x].car]
        OBVIOUS
      <4>2. PICK rental : rental = rentals[call[x].rental]
        OBVIOUS
      <4>3. /\ Returnable(x)
            /\ tx[x].dirty = IF row.status = "available" THEN {"rental"}
                                                        ELSE {"rental", "status"}
            /\ tx[x].car.status = "available"
            /\ tx[x].rental = [rental EXCEPT !.returned = call[x].today]
        BY <3>1, <4>1, <4>2, Here DEF DecisionHolds
      <4>4. cars'[call'[x].car] = row /\ rentals'[call'[x].rental] = rental
        BY <1>4, <3>1, <4>1, <4>2
      <4>5. /\ Returnable(x)'
            /\ tx'[x].dirty = IF row.status = "available" THEN {"rental"}
                                                         ELSE {"rental", "status"}
            /\ tx'[x].car.status = "available"
            /\ tx'[x].rental = [rental EXCEPT !.returned = call'[x].today]
        BY <2>1, <3>1, <4>3
      <4> QED BY <3>1, <4>4, <4>5 DEF DecisionHolds
    <3>2. CASE pc[x] = "commit" /\ call[x].op = "register"
      <4>1. /\ Rentable(x)
            /\ tx[x].dirty = {"rental", "status"}
            /\ tx[x].car.status = "in_use"
            /\ tx[x].rental = NewRental(x)
        BY <3>2, Here DEF DecisionHolds
      <4>2. /\ Rentable(x)'
            /\ tx'[x].dirty = {"rental", "status"}
            /\ tx'[x].car.status = "in_use"
            /\ tx'[x].rental = NewRental(x)'
        BY <2>1, <4>1
      <4> QED BY <3>2, <4>2 DEF DecisionHolds
    <3>3. CASE pc[x] = "commit" /\ call[x].op = "update"
      <4>1. PICK row : row = cars[call[x].car]
        OBVIOUS
      <4>2. /\ UpdateVerdict(call[x], row) = "ok"
            /\ tx[x].dirty = ChangedColumns(call[x], row)
            /\ "status" \in tx[x].dirty => tx[x].car.status = call[x].status
            /\ "details" \in tx[x].dirty => tx[x].car.details = call[x].details
        BY <3>3, <4>1, Here DEF DecisionHolds
      <4>3. cars'[call'[x].car] = row
        BY <1>4, <4>1
      <4> QED BY <3>3, <4>2, <4>3 DEF DecisionHolds
    <3>4. CASE pc[x] = "commit" /\ call[x].op = "delete"
      <4>1. /\ OpenRentals(call[x].car) = {}
            /\ tx[x].dirty = {"fleet"}
            /\ tx[x].car.fleet = "retired"
        BY <3>4, Here DEF DecisionHolds
      <4>2. OpenRentals(call[x].car)' = {}
        BY <1>4, <4>1
      <4> QED BY <3>4, <4>1, <4>2 DEF DecisionHolds
    <3> QED BY <1>4, <3>0, <3>1, <3>2, <3>3, <3>4, Place DEF PastCarLock, Op
  <2> QED BY <1>1, <1>2, <1>3, <2>2, <2>3 DEF RequestOK
<1>5. CASE ~PastCarLock(x)
  <2>1. pc[x] \in InTransaction \ {"lookup", "lockCar"} => call[x].op = "add"
    BY <1>5 DEF PastCarLock
  <2>2. CopiesFresh(x)'
    BY <2>1, Place DEF CopiesFresh, InTransaction
  <2>3. DecisionHolds(x)'
    <3>1. CASE pc[x] # "commit"
      BY <3>1 DEF DecisionHolds
    <3>2. CASE pc[x] = "commit"
      <4>1. call[x].op = "add"
        BY <2>1, <3>2 DEF InTransaction
      <4>2. /\ tx[x].dirty = CarColumns
            /\ tx[x].car = [fleet |-> "live", status |-> "available",
                            details |-> call[x].details]
        BY <3>2, <4>1, Here DEF DecisionHolds
      <4> QED BY <3>2, <4>1, <4>2 DEF DecisionHolds
    <3> QED BY <3>1, <3>2
  <2> QED BY <1>1, <1>2, <1>3, <2>2, <2>3 DEF RequestOK
<1> QED BY <1>4, <1>5

\* A step of p that keeps p's part and leaves the tables alone keeps the invariant.
LEMMA OthersStill ==
  ASSUME ServiceInv, NEW p \in Request, Keeps(p), UNCHANGED tables
  PROVE  ServiceInv'
<1>1. ASSUME NEW x \in Request \ {p} PROVE RequestOK(x)'
  <2>1. /\ pc'[x] = pc[x] /\ call'[x] = call[x] /\ tx'[x] = tx[x]
        /\ \A c \in Car : carLock[c] = x => carLock'[c] = x
    BY DEF Keeps, OthersAlone
  <2>2. PastCarLock(x) => call[x].car \in Car /\ carLock[call[x].car] = x
    <3>1. PastCarLock(x) => call[x].op \in Op
      BY Place DEF PastCarLock
    <3> QED BY <3>1, Here DEF PastCarLock, ArgumentsOK, IdsOK, CarLocked, Op
  <2>3. cars' = cars /\ rentals' = rentals /\ day' = day /\ day' \in Nat /\ day <= day'
    BY Here DEF tables, TypeOK, TablesOK, Day
  <2>4. OpenRentals(call[x].car)' = OpenRentals(call[x].car)
    BY <2>1, <2>3 DEF OpenRentals
  <2>5. call[x].op = "end" /\ pc[x] \in InTransaction \ {"lookup"} => rentals[call[x].rental] # NULL
    BY Here DEF IdsOK
  <2> QED BY <2>1, <2>2, <2>3, <2>4, <2>5, Still
<1> QED BY <1>1 DEF ServiceInv, Keeps

\* The others hold other cars and drew other ids, so a commit of p leaves what
\* they rely on as it was.
LEMMA CommitKeeps ==
  ASSUME ServiceInv, NEW p \in Request, NEW next \in {"publish", "reply"}, NEW a \in Answer,
         pc[p] = "commit", Apply(p), CloseTx(p), Goto(p, next),
         answer' = [answer EXCEPT ![p] = a], UNCHANGED call
  PROVE  ServiceInv'
<1> USE FleetAssumption, ServiceAssumption
<1>1. TouchesOnly(p) /\ TablesOK' /\ day' = day /\ day \in Nat
  BY ApplyTouchesOnly, Here DEF TouchesOnly, TypeOK, TablesOK, Day
<1>2. /\ call[p].op \in Op /\ call[p].car \in Car
      /\ call[p].op # "add" => PastCarLock(p) /\ carLock[call[p].car] = p
  BY AtCommit, Here DEF PastCarLock, CarLocked, InTransaction
<1>3. next \in PC /\ next \notin InTransaction /\ next \in Route(call[p].op)
  BY <1>2, Routes DEF PC, InTransaction, Op
<1>4. pc' \in [Request -> PC] /\ pc'[p] = next /\ \A x \in Request \ {p} : pc'[x] = pc[x]
  BY <1>3, Here, GotoStep
<1>5. TypeOK'
  BY <1>1, <1>4, Here, CloseTxStep, AnswerStep DEF TypeOK
<1>6. IdsDistinct'
  BY Here DEF IdsDistinct
<1>7. RequestOK(p)'
  BY <1>1, <1>3, <1>4, OutsideTx
<1>8. ASSUME NEW x \in Request \ {p} PROVE RequestOK(x)'
  <2>1. /\ pc'[x] = pc[x] /\ call'[x] = call[x] /\ tx'[x] = tx[x]
        /\ \A c \in Car : carLock[c] = x => carLock'[c] = x
    BY <1>4, Here, CloseTxStep
  <2>2. call[x].op = "add" /\ pc[x] \in InTransaction => cars'[call[x].car] = cars[call[x].car]
    <3> SUFFICES ASSUME call[x].op = "add", pc[x] \in InTransaction
                 PROVE  cars'[call[x].car] = cars[call[x].car]
      OBVIOUS
    <3>1. call[x].car \in Car /\ cars[call[x].car] = NULL
      BY Here DEF ArgumentsOK, IdsOK
    <3>2. call[x].car # call[p].car
      <4>1. CASE call[p].op = "add"
        BY <4>1, Here DEF IdsDistinct
      <4>2. CASE call[p].op # "add"
        BY <3>1, <4>2, AtCommit DEF IsLive
      <4> QED BY <4>1, <4>2
    <3> QED BY <1>1, <3>1, <3>2 DEF TouchesOnly
  <2>3. call[x].op = "register" /\ pc[x] \in InTransaction =>
           rentals'[call[x].rental] = rentals[call[x].rental]
    <3> SUFFICES ASSUME call[x].op = "register", pc[x] \in InTransaction
                 PROVE  rentals'[call[x].rental] = rentals[call[x].rental]
      OBVIOUS
    <3>1. /\ call[x].rental \in Rental /\ call[x].rental # NULL
          /\ rentals[call[x].rental] = NULL
      BY Here DEF ArgumentsOK, IdsOK
    <3>2. call[p].op = "register" => call[x].rental # call[p].rental
      BY <3>1, Here DEF IdsDistinct
    <3> QED BY <1>1, <3>1, <3>2 DEF TouchesOnly
  <2>4. call[x].op = "end" /\ pc[x] \in InTransaction \ {"lookup"} =>
           /\ rentals'[call[x].rental] # NULL
           /\ rentals'[call[x].rental].car = rentals[call[x].rental].car
    <3> SUFFICES ASSUME call[x].op = "end", pc[x] \in InTransaction \ {"lookup"}
                 PROVE  /\ rentals'[call[x].rental] # NULL
                        /\ rentals'[call[x].rental].car = rentals[call[x].rental].car
      OBVIOUS
    <3>1. call[x].rental \in Rental /\ rentals[call[x].rental] # NULL
      BY Here DEF ArgumentsOK, IdsOK
    <3> QED BY <1>1, <3>1 DEF TouchesOnly
  <2>5. PastCarLock(x) =>
          /\ carLock'[call[x].car] = x
          /\ cars'[call[x].car] = cars[call[x].car]
          /\ OpenRentals(call[x].car)' = OpenRentals(call[x].car)
          /\ call[x].op = "end" => rentals'[call[x].rental] = rentals[call[x].rental]
    <3> SUFFICES ASSUME PastCarLock(x)
                 PROVE  /\ carLock'[call[x].car] = x
                        /\ cars'[call[x].car] = cars[call[x].car]
                        /\ OpenRentals(call[x].car)' = OpenRentals(call[x].car)
                        /\ call[x].op = "end" => rentals'[call[x].rental] = rentals[call[x].rental]
      OBVIOUS
    <3>1. call[x].op \in Op
      BY Place DEF PastCarLock
    <3>2. PICK c \in Car : c = call[x].car /\ carLock[c] = x /\ IsLive(cars[c])
      BY <3>1, Here DEF PastCarLock, ArgumentsOK, IdsOK, CarLocked, Op
    <3>3. c # call[p].car
      <4>1. CASE call[p].op = "add"
        BY <3>2, <4>1, Here DEF IdsOK, IsLive, InTransaction
      <4>2. CASE call[p].op # "add"
        BY <1>2, <3>2, <4>2
      <4> QED BY <4>1, <4>2
    <3>4. cars'[c] = cars[c] /\ carLock'[c] = x
      BY <1>1, <2>1, <3>2, <3>3 DEF TouchesOnly
    <3>5. \A r \in Rental : rentals'[r] # rentals[r] =>
            /\ rentals[r] = NULL \/ rentals[r].car # c
            /\ rentals'[r].car # c
      BY <1>1, <3>3 DEF TouchesOnly
    <3>6. OpenRentals(c)' = OpenRentals(c)
      BY <3>5 DEF OpenRentals, IsOpen
    <3>7. call[x].op = "end" => /\ call[x].rental \in Rental
                               /\ rentals[call[x].rental] # NULL
                               /\ rentals[call[x].rental].car = c
      BY <3>2, Here DEF ArgumentsOK, IdsOK, PastCarLock
    <3>8. call[x].op = "end" => rentals'[call[x].rental] = rentals[call[x].rental]
      BY <3>5, <3>7
    <3>9. OpenRentals(call[x].car)' = OpenRentals(call[x].car)
      BY <2>1, <3>2, <3>6 DEF OpenRentals
    <3> QED BY <3>2, <3>4, <3>8, <3>9
  <2>6. day' \in Nat /\ day <= day'
    BY <1>1
  <2> QED BY <2>1, <2>2, <2>3, <2>4, <2>5, <2>6, Still
<1> QED BY <1>5, <1>6, <1>7, <1>8 DEF ServiceInv

----------------------------------------------------------------------------
(* The invariant holds. *)

\* Midnight keeps the invariant: today was read before, and days only grow.
LEMMA TickKeeps ==
  ASSUME ServiceInv, Tick
  PROVE  ServiceInv'
<1> USE FleetAssumption
<1>1. /\ UNCHANGED <<cars, rentals, pc, call, tx, answer, carLock, rentalLock, writer>>
      /\ day \in Nat /\ day' \in Day /\ day' \in Nat /\ day <= day'
  BY DEF ServiceInv, TypeOK, TablesOK, Tick, Day, locks
<1>2. TypeOK' /\ IdsDistinct'
  BY <1>1 DEF ServiceInv, TypeOK, TablesOK, IdsDistinct
<1>3. ASSUME NEW x \in Request PROVE RequestOK(x)'
  <2>1. OpenRentals(call[x].car)' = OpenRentals(call[x].car)
    BY <1>1 DEF OpenRentals
  <2>2. PastCarLock(x) => carLock[call[x].car] = x
    BY Here DEF CarLocked
  <2>3. call[x].op = "end" /\ pc[x] \in InTransaction \ {"lookup"} => rentals[call[x].rental] # NULL
    BY Here DEF IdsOK
  <2> QED BY <1>1, <2>1, <2>2, <2>3, Still
<1> QED BY <1>2, <1>3 DEF ServiceInv

\* Nobody is in a request: at the start, and when the process has come back.
LEMMA AllIdle ==
  ASSUME TablesOK', day' \in Nat,
         pc' = [p \in Request |-> "idle"], call' = [p \in Request |-> NoCall],
         tx' = [p \in Request |-> NoTx], answer' = [p \in Request |-> NULL],
         carLock' = [c \in Car |-> NULL], rentalLock' = [r \in Rental |-> NULL], writer' = NULL
  PROVE  ServiceInv'
<1>1. NoCall.op = "none"
  BY DEF NoCall, Args
<1>2. TypeOK'
  BY DEF TypeOK, PC, NoTx, Tx
<1>3. IdsDistinct'
  BY <1>1 DEF IdsDistinct
<1>4. ASSUME NEW x \in Request PROVE RequestOK(x)'
  BY <1>1, Routes DEF RequestOK, ArgumentsOK, IdsOK, CarLocked, PastCarLock, CopiesFresh,
     DecisionHolds, InTransaction
<1> QED BY <1>2, <1>3, <1>4 DEF ServiceInv

\* The invariant holds when the service starts.
LEMMA ServiceInvInit == Init => ServiceInv
<1> SUFFICES ASSUME Init PROVE ServiceInv
  OBVIOUS
<1>1. NoCall.op = "none"
  BY DEF NoCall, Args
<1>2. TypeOK
  BY FleetAssumption DEF Init, TablesInit, TypeOK, TablesOK, Day, PC, NoTx, Tx
<1>3. IdsDistinct
  BY <1>1 DEF Init, IdsDistinct
<1>4. ASSUME NEW x \in Request PROVE RequestOK(x)
  BY <1>1, Routes DEF Init, RequestOK, ArgumentsOK, IdsOK, CarLocked, PastCarLock, CopiesFresh,
     DecisionHolds, InTransaction
<1> QED BY <1>2, <1>3, <1>4 DEF ServiceInv

\* Every step of a request but its commit.
LEMMA StatementsKeep ==
  ASSUME RowLocks, ServiceInv, NEW p \in Request,
         Arrive(p) \/ Serve(p) \/ Abort(p), ~Commit(p)
  PROVE  ServiceInv' /\ UNCHANGED tables
<1>1. Keeps(p) /\ UNCHANGED tables
  BY ArriveKeeps, LookupKeeps, LockCarKeeps, LockRentalKeeps, FlushEndKeeps, UpdateCarKeeps,
     CheckAvailableKeeps, CheckNotOutKeeps, RetireKeeps, InsertCarKeeps, InsertRentalKeeps,
     MarkInUseKeeps, PublishKeeps, ReadBackKeeps, ReplyKeeps, AbortKeeps DEF Serve
<1> QED BY <1>1, OthersStill

\* Commits, acknowledged or not, keep the invariant for every request.
LEMMA CommitsKeep ==
  ASSUME ServiceInv, NEW p \in Request, Commit(p) \/ CommitUnacknowledged(p)
  PROVE  ServiceInv' /\ (Contract!Next \/ UNCHANGED tables)
<1>1. pc[p] = "commit" /\ Apply(p) /\ CloseTx(p) /\ UNCHANGED call
  BY DEF Commit, CommitUnacknowledged
<1>2. PICK next \in {"publish", "reply"}, a \in Answer :
        Goto(p, next) /\ answer' = [answer EXCEPT ![p] = a]
  BY DEF Commit, CommitUnacknowledged, Answer
<1> QED BY <1>1, <1>2, CommitKeeps, CommitImplementsContract

\* Every step of the service keeps the invariant.
LEMMA StepKeeps ==
  ASSUME RowLocks, ServiceInv, [Next]_vars
  PROVE  ServiceInv' /\ [Contract!Next]_tables
<1>1. ASSUME NEW p \in Request, Arrive(p) \/ Serve(p) \/ CommitUnacknowledged(p) \/ Abort(p)
      PROVE  ServiceInv' /\ [Contract!Next]_tables
  BY <1>1, StatementsKeep, CommitsKeep
<1>2. ASSUME Crash PROVE ServiceInv' /\ UNCHANGED tables
  BY <1>2, AllIdle DEF Crash, ServiceInv, TypeOK, TablesOK, Day, tables
<1>3. ASSUME Tick PROVE ServiceInv' /\ Contract!Tick
  BY <1>3, TickKeeps DEF Tick, Contract!Tick
<1>4. CASE UNCHANGED vars
  <2>1. UNCHANGED <<cars, rentals, day, pc, call, tx, answer, carLock, rentalLock, writer>>
    BY <1>4 DEF vars
  <2>2. TypeOK' /\ IdsDistinct'
    BY <2>1 DEF ServiceInv, TypeOK, TablesOK, IdsDistinct
  <2>3. ASSUME NEW x \in Request PROVE RequestOK(x)'
    <3>1. day' \in Nat /\ day <= day'
      BY <2>1 DEF ServiceInv, TypeOK, TablesOK, Day
    <3>2. \A c : OpenRentals(c)' = OpenRentals(c)
      BY <2>1 DEF OpenRentals
    <3>3. IdsOK(x) /\ CarLocked(x)
      BY DEF ServiceInv, RequestOK
    <3> QED BY <2>1, <3>1, <3>2, <3>3, Still DEF IdsOK, CarLocked
  <2>4. ServiceInv'
    BY <2>2, <2>3 DEF ServiceInv
  <2> QED BY <2>1, <2>4 DEF tables
<1> QED BY <1>1, <1>2, <1>3, <1>4 DEF Next, Contract!Next

\* On PostgreSQL the inductive invariant always holds: whoever is past its
\* locked read of a car holds that car, and decided on its newest row.
THEOREM ServiceInvariant ==
  ASSUME RowLocks
  PROVE  Spec => []ServiceInv
<1>1. ServiceInv /\ [Next]_vars => ServiceInv'
  BY StepKeeps
<1> QED BY <1>1, ServiceInvInit, PTL DEF Spec

\* On PostgreSQL the service implements its contract: in whatever order the
\* statements of the requests interleave, fail or are cut off by a crash, what
\* reaches the tables is a sequence of whole operations on their newest rows.
THEOREM ServiceImplementsContract ==
  ASSUME RowLocks
  PROVE  Spec => ContractSpec
<1>1. Init => Contract!Init
  BY DEF Init, TablesInit, Contract!Init, Contract!TablesInit
<1>2. ServiceInv /\ [Next]_vars => [Contract!Next]_(Contract!tables)
  BY StepKeeps DEF tables, Contract!tables
<1> QED BY <1>1, <1>2, ServiceInvariant, PTL DEF Spec, ContractSpec, Contract!Spec

----------------------------------------------------------------------------
(* What the tables promise: every operation of the contract keeps it. *)

\* Every operation of the contract keeps the tables consistent.
LEMMA ContractKeepsInv == TablesInv /\ [Contract!Next]_tables => TablesInv'
<1> SUFFICES ASSUME TablesInv, [Contract!Next]_tables PROVE TablesInv'
  OBVIOUS
<1>0. cars \in [Car -> CarRow \cup {NULL}] /\ rentals \in [Rental -> RentalRow \cup {NULL}]
  BY DEF TablesInv, TablesOK
<1>1. ASSUME NEW c \in Car, NEW d \in Details, Contract!Add(c, d) PROVE TablesInv'
  BY <1>1, AddKeepsInv, SameRules DEF Contract!Add
<1>2. ASSUME NEW c \in Car, NEW body \in Contract!Body, Contract!Change(c, body) PROVE TablesInv'
  <2>1. cars[c] \in CarRow /\ IsLive(cars[c]) /\ cars[c].fleet = "live"
    BY <1>0, <1>2, SameRules DEF Contract!Change, IsLive
  <2>2. PICK car : car = [fleet   |-> "live",
                          status  |-> IF body.status = NULL THEN cars[c].status ELSE body.status,
                          details |-> IF body.details = NULL THEN cars[c].details
                                                            ELSE body.details]
    OBVIOUS
  <2>3. car \in CarRow /\ car.fleet = "live" /\ (car.status = "in_use" <=> cars[c].status = "in_use")
    BY <1>2, <2>1, <2>2, UpdateKeepsInUse, SameRules
       DEF Contract!Change, Contract!Body, Contract!CarStatus, CarStatus
  <2>4. cars' = [cars EXCEPT ![c] = car] /\ UNCHANGED <<rentals, day>>
    BY <1>2, <2>2, SameRules DEF Contract!Change
  <2> QED BY <2>1, <2>3, <2>4, ChangeKeepsInv
<1>3. ASSUME NEW c \in Car, Contract!Retire(c) PROVE TablesInv'
  BY <1>3, RetireKeepsInv, SameRules DEF Contract!Retire
<1>4. ASSUME NEW c \in Car, NEW r \in Rental, NEW start \in Day, Contract!Rent(c, r, start)
      PROVE  TablesInv'
  <2>1. cars[c] \in CarRow /\ IsLive(cars[c]) /\ cars[c].fleet = "live"
    BY <1>0, <1>4, SameRules DEF Contract!Rent, IsLive
  <2>2. PICK row \in RentalRow : row = [car |-> c, start |-> start, returned |-> NULL]
    BY DEF RentalRow
  <2>3. PICK car \in CarRow : car = [fleet |-> cars[c].fleet, status |-> "in_use",
                                    details |-> cars[c].details]
    BY <2>1 DEF CarRow, CarStatus
  <2>4. cars' = [cars EXCEPT ![c] = [fleet |-> cars[c].fleet, status |-> "in_use",
                                     details |-> cars[c].details]]
    <3>1. cars' = [cars EXCEPT ![c].status = "in_use"]
      BY <1>4, SameRules DEF Contract!Rent
    <3>2. cars \in [Car -> CarRow \cup {NULL}] /\ cars[c] \in CarRow
      BY <1>0, <2>1
    <3>3. [cars[c] EXCEPT !.status = "in_use"] =
          [fleet |-> cars[c].fleet, status |-> "in_use", details |-> cars[c].details]
      BY <3>2 DEF CarRow
    <3> QED BY <3>1, <3>3
  <2>5. /\ rentals' = [rentals EXCEPT ![r] = row] /\ rentals[r] = NULL
        /\ OpenRentals(c) = {} /\ UNCHANGED day
    BY <1>4, <2>2, SameRules DEF Contract!Rent
  <2> QED BY <2>1, <2>2, <2>3, <2>4, <2>5, RentKeepsInv
<1>5. ASSUME NEW r \in Rental, NEW returned \in Day, Contract!Return(r, returned) PROVE TablesInv'
  <2>1. rentals[r] \in RentalRow /\ IsOpen(rentals[r]) /\ IsLive(cars[rentals[r].car])
    BY <1>0, <1>5, SameRules DEF Contract!Return, IsOpen
  <2>2. PICK c \in Car : c = rentals[r].car
    BY <2>1 DEF RentalRow
  <2>3. cars[c] \in CarRow /\ cars[c].fleet = "live"
    BY <1>0, <2>1, <2>2 DEF IsLive
  <2>4. PICK row \in RentalRow : row = [car |-> rentals[r].car, start |-> rentals[r].start,
                                       returned |-> returned]
    BY <2>1 DEF RentalRow
  <2>5. rentals' = [rentals EXCEPT ![r] = [car |-> rentals[r].car, start |-> rentals[r].start,
                                           returned |-> returned]]
    <3>1. rentals' = [rentals EXCEPT ![r].returned = returned]
      BY <1>5, SameRules DEF Contract!Return
    <3> QED BY <1>0, <2>1, <3>1, SetReturned
  <2>6. PICK car \in CarRow : car = [fleet |-> cars[c].fleet, status |-> "available",
                                    details |-> cars[c].details]
    BY <2>3 DEF CarRow, CarStatus
  <2>7. cars' = [cars EXCEPT ![c] = [fleet |-> cars[c].fleet, status |-> "available",
                                     details |-> cars[c].details]]
    <3>1. cars' = [cars EXCEPT ![c].status = "available"]
      BY <1>5, <2>2, SameRules DEF Contract!Return
    <3>2. [cars[c] EXCEPT !.status = "available"] =
          [fleet |-> cars[c].fleet, status |-> "available", details |-> cars[c].details]
      BY <2>3 DEF CarRow
    <3> QED BY <3>1, <3>2
  <2>8. row.returned # NULL /\ UNCHANGED day
    BY <1>5, <2>4, FleetAssumption, SameRules DEF Contract!Return
  <2> QED BY <2>1, <2>2, <2>3, <2>4, <2>5, <2>6, <2>7, <2>8, ReturnKeepsInv
<1>6. ASSUME Contract!Tick PROVE TablesInv'
  BY <1>6, FleetAssumption, StutterKeepsInv DEF Contract!Tick, TablesInv, TablesOK, Day
<1>7. CASE UNCHANGED tables
  BY <1>7, StutterKeepsInv DEF tables, TablesInv, TablesOK
<1> QED BY <1>1, <1>2, <1>3, <1>4, <1>5, <1>6, <1>7 DEF Contract!Next, Contract!Day, Day

\* On PostgreSQL the service keeps the two tables in step.
LEMMA ServiceTables ==
  ASSUME RowLocks
  PROVE  Spec => []TablesInv
<1>1. Init => TablesInv
  BY FleetAssumption DEF Init, TablesInit, TablesInv, TablesOK, Day, RentedIffInUse,
     RetiredCarsAreFree, OpenRentals, IsOpen
<1>2. ServiceInv /\ TablesInv /\ [Next]_vars => TablesInv'
  BY StepKeeps, ContractKeepsInv
<1> QED BY <1>1, <1>2, ServiceInvariant, PTL DEF Spec

\* On PostgreSQL, whatever the interleaving of the requests, a car's status
\* says in_use exactly while one rental of it is open.
THEOREM ServiceRentedIffInUse ==
  ASSUME RowLocks
  PROVE  Spec => []RentedIffInUse
<1>1. TablesInv => RentedIffInUse
  BY DEF TablesInv
<1> QED BY <1>1, ServiceTables, PTL

\* On PostgreSQL no car is retired while it is out.
THEOREM ServiceRetiredCarsAreFree ==
  ASSUME RowLocks
  PROVE  Spec => []RetiredCarsAreFree
<1>1. TablesInv => RetiredCarsAreFree
  BY DEF TablesInv
<1> QED BY <1>1, ServiceTables, PTL

----------------------------------------------------------------------------
(* The database never has to refuse a row. *)

\* p gets no answer in this step, or one that is not the database's refusal.
NotRefused(p) ==
  \/ answer' = answer
  \/ \E a \in (Answer \cup {NULL}) \ {"IntegrityError"} : answer' = [answer EXCEPT ![p] = a]

\* No business rule answers with the exception of a database constraint.
LEMMA VerdictsAreAnswers ==
  ASSUME NEW body, NEW row, NEW open, NEW today
  PROVE  /\ UpdateVerdict(body, row) \in Answer \ {"IntegrityError"}
         /\ RegisterVerdict(row, open) \in Answer \ {"IntegrityError"}
         /\ DeleteVerdict(open) \in Answer \ {"IntegrityError"}
         /\ EndVerdict(row, today) \in Answer \ {"IntegrityError"}
BY DEF UpdateVerdict, RegisterVerdict, DeleteVerdict, EndVerdict, Answer, DomainError

\* The two statements that a constraint stands behind.
LEMMA BackstopsHold ==
  ASSUME ServiceInv, NEW p \in Request
  PROVE  /\ pc[p] = "flush" => ~(call[p].today < tx[p].rental.start)
         /\ pc[p] = "insert" /\ call[p].op = "register" => OpenRentals(call[p].car) = {}
<1>1. ASSUME pc[p] = "flush" PROVE ~(call[p].today < tx[p].rental.start)
  <2>1. /\ call[p].rental \in Rental /\ call[p].today \in Nat
        /\ tx[p].rental = rentals[call[p].rental] /\ Returnable(p)
    BY <1>1, Here, Place DEF ArgumentsOK, CopiesFresh, TypeOK, TablesOK, Day
  <2>2. rentals[call[p].rental] \in RentalRow
    BY <2>1, Here DEF Returnable, IsOpen, TypeOK, TablesOK
  <2> QED BY <2>1, <2>2 DEF Returnable, RentalRow, Day
<1>2. pc[p] = "insert" /\ call[p].op = "register" => OpenRentals(call[p].car) = {}
  BY Here DEF CopiesFresh, Rentable
<1> QED BY <1>1, <1>2

\* No step of any request is refused by a database constraint.
LEMMA StepNotRefused ==
  ASSUME ServiceInv, NEW p \in Request,
         Arrive(p) \/ Serve(p) \/ CommitUnacknowledged(p) \/ Abort(p)
  PROVE  NotRefused(p)
<1> USE DEF NotRefused
<1>0. NULL # "IntegrityError"
  BY ServiceAssumption DEF Answer
<1>1. {"ok", "ServerError", "RentalDateError", "CarNotFoundError", "RentalNotFoundError", NULL}
        \subseteq (Answer \cup {NULL}) \ {"IntegrityError"}
  BY <1>0 DEF Answer, DomainError
<1>2. CASE Arrive(p)
  BY <1>1, <1>2 DEF Arrive, BeginAdd, BeginUpdate, BeginDelete, BeginRegister, RefuseStartDate,
     BeginEnd
<1>3. CASE Lookup(p) \/ LockCar(p)
  BY <1>1, <1>3 DEF Lookup, LockCar, Refuse
<1>4. CASE LockRental(p)
  BY <1>4, VerdictsAreAnswers DEF LockRental, Refuse
<1>5. CASE FlushEnd(p)
  BY <1>5, BackstopsHold DEF FlushEnd, Write
<1>6. CASE UpdateCar(p)
  BY <1>6, VerdictsAreAnswers DEF UpdateCar, Refuse, Write
<1>7. CASE CheckAvailable(p) \/ CheckNotOut(p)
  BY <1>7, VerdictsAreAnswers DEF CheckAvailable, CheckNotOut, Decide, Refuse
<1>8. CASE Retire(p) \/ InsertCar(p) \/ MarkInUse(p)
  BY <1>8 DEF Retire, InsertCar, MarkInUse, Write
<1>9. CASE InsertRental(p)
  BY <1>9, BackstopsHold DEF InsertRental, Write
<1>10. CASE Commit(p) \/ CommitUnacknowledged(p) \/ Publish(p) \/ ReadBack(p) \/ Reply(p)
  BY <1>1, <1>10 DEF Commit, CommitUnacknowledged, Publish, ReadBack, Reply
<1>11. CASE Abort(p)
  BY <1>1, <1>11 DEF Abort, Refuse
<1> QED BY <1>2, <1>3, <1>4, <1>5, <1>6, <1>7, <1>8, <1>9, <1>10, <1>11 DEF Serve

\* On PostgreSQL no request ends in the 500 of a violated constraint: the row
\* locks and the service's own checks keep every transaction away from the
\* unique index and from the CHECK on returned_date.
THEOREM ServiceBackstopsNeverReached ==
  ASSUME RowLocks
  PROVE  Spec => []BackstopsNeverReached
<1>0. NULL # "IntegrityError"
  BY ServiceAssumption DEF Answer
<1>1. Init => BackstopsNeverReached
  BY <1>0 DEF Init, BackstopsNeverReached
<1>2. ServiceInv /\ BackstopsNeverReached /\ [Next]_vars => BackstopsNeverReached'
  <2> SUFFICES ASSUME ServiceInv, BackstopsNeverReached, [Next]_vars PROVE BackstopsNeverReached'
    OBVIOUS
  <2>1. ASSUME NEW p \in Request, NotRefused(p) PROVE BackstopsNeverReached'
    BY <2>1 DEF NotRefused, BackstopsNeverReached, ServiceInv, TypeOK
  <2>2. CASE Crash
    BY <1>0, <2>2 DEF Crash, BackstopsNeverReached
  <2>3. CASE Tick \/ UNCHANGED vars
    BY <2>3 DEF Tick, vars, BackstopsNeverReached
  <2> QED BY <2>1, <2>2, <2>3, StepNotRefused DEF Next
<1> QED BY <1>1, <1>2, ServiceInvariant, PTL DEF Spec
----------------------------------------------------------------------------
(* What is committed is remembered, and what clients and events are told of *)
(* it stays true.                                                           *)

\* Rows never go away, a rental keeps its car, and closed rows keep everything.
Remembers ==
  /\ \A c \in Car : cars[c] # NULL => cars'[c] # NULL
  /\ \A c \in Car : cars[c] # NULL /\ cars[c].fleet = "retired" => cars'[c] = cars[c]
  /\ \A r \in Rental : rentals[r] # NULL =>
       /\ rentals'[r] # NULL
       /\ rentals'[r].car = rentals[r].car /\ rentals'[r].start = rentals[r].start
  /\ \A r \in Rental :
       rentals[r] # NULL /\ rentals[r].returned # NULL => rentals'[r] = rentals[r]

\* Every operation of the contract remembers.
LEMMA ContractRemembers == TablesOK /\ [Contract!Next]_tables => Remembers
<1> SUFFICES ASSUME TablesOK, [Contract!Next]_tables PROVE Remembers
  OBVIOUS
<1> USE FleetAssumption
<1>0. /\ cars \in [Car -> CarRow \cup {NULL}] /\ rentals \in [Rental -> RentalRow \cup {NULL}]
      /\ \A c \in Car : cars[c] # NULL => cars[c] \in CarRow
      /\ \A r \in Rental : rentals[r] # NULL => rentals[r] \in RentalRow
  BY DEF TablesOK
<1>1. ASSUME NEW c \in Car, NEW d \in Details, Contract!Add(c, d) PROVE Remembers
  <2>1. [fleet |-> "live", status |-> "available", details |-> d] \in CarRow
    BY DEF CarRow, Fleet, CarStatus
  <2> QED BY <1>0, <1>1, <2>1 DEF Contract!Add, Remembers
<1>2. ASSUME NEW c \in Car, NEW body \in Contract!Body, Contract!Change(c, body) PROVE Remembers
  <2>1. cars[c] \in CarRow /\ cars[c].fleet = "live"
    BY <1>0, <1>2, SameRules DEF Contract!Change, IsLive
  <2>2. PICK car : car = [fleet   |-> "live",
                          status  |-> IF body.status = NULL THEN cars[c].status ELSE body.status,
                          details |-> IF body.details = NULL THEN cars[c].details
                                                            ELSE body.details]
    OBVIOUS
  <2>3. car \in CarRow
    BY <2>1, <2>2 DEF CarRow, Fleet, Contract!Body, Contract!CarStatus, CarStatus
  <2>4. cars' = [cars EXCEPT ![c] = car] /\ UNCHANGED rentals
    BY <1>2, <2>2 DEF Contract!Change
  <2> QED BY <1>0, <2>1, <2>3, <2>4 DEF Remembers
<1>3. ASSUME NEW c \in Car, NEW f \in Fleet, NEW s \in CarStatus, cars[c] # NULL,
             cars[c].fleet = "live",
             cars' = [cars EXCEPT ![c] = [fleet |-> f, status |-> s, details |-> cars[c].details]]
      PROVE  /\ \A x \in Car : cars[x] # NULL => cars'[x] # NULL
             /\ \A x \in Car : cars[x] # NULL /\ cars[x].fleet = "retired" => cars'[x] = cars[x]
  <2>1. [fleet |-> f, status |-> s, details |-> cars[c].details] \in CarRow
    BY <1>0, <1>3 DEF CarRow
  <2> QED BY <1>0, <1>3, <2>1
<1>4. ASSUME NEW c \in Car, Contract!Retire(c) PROVE Remembers
  <2>1. /\ cars' = [cars EXCEPT ![c].fleet = "retired"] /\ UNCHANGED rentals
        /\ cars[c] \in CarRow /\ cars[c].fleet = "live"
    BY <1>0, <1>4, SameRules DEF Contract!Retire, IsLive
  <2>2. cars' = [cars EXCEPT ![c] = [fleet |-> "retired", status |-> cars[c].status,
                                     details |-> cars[c].details]]
    BY <1>0, <2>1, SetFleet
  <2> QED BY <1>3, <2>1, <2>2 DEF Remembers, CarRow, Fleet
<1>5. ASSUME NEW c \in Car, NEW r \in Rental, NEW start \in Day, Contract!Rent(c, r, start)
      PROVE  Remembers
  <2>1. /\ cars' = [cars EXCEPT ![c].status = "in_use"] /\ rentals[r] = NULL
        /\ rentals' = [rentals EXCEPT ![r] = [car |-> c, start |-> start, returned |-> NULL]]
        /\ cars[c] \in CarRow /\ cars[c].fleet = "live"
    BY <1>0, <1>5, SameRules DEF Contract!Rent, IsLive
  <2>2. cars' = [cars EXCEPT ![c] = [fleet |-> cars[c].fleet, status |-> "in_use",
                                     details |-> cars[c].details]]
    <3>1. cars' = [cars EXCEPT ![c].status = "in_use"] /\ cars[c] \in CarRow
      BY <2>1
    <3> QED BY <1>0, <3>1, SetStatus
  <2>3. /\ \A x \in Car : cars[x] # NULL => cars'[x] # NULL
        /\ \A x \in Car : cars[x] # NULL /\ cars[x].fleet = "retired" => cars'[x] = cars[x]
    <3>1. cars[c] # NULL /\ cars[c].fleet \in Fleet /\ "in_use" \in CarStatus
      BY <2>1 DEF Fleet, CarStatus
    <3> QED BY <1>3, <2>1, <2>2, <3>1
  <2>4. [car |-> c, start |-> start, returned |-> NULL] \in RentalRow
    BY DEF RentalRow
  <2> QED BY <1>0, <2>1, <2>3, <2>4 DEF Remembers
<1>6. ASSUME NEW r \in Rental, NEW returned \in Day, Contract!Return(r, returned) PROVE Remembers
  <2>1. rentals[r] \in RentalRow /\ rentals[r].returned = NULL /\ IsLive(cars[rentals[r].car])
    BY <1>0, <1>6, SameRules DEF Contract!Return, IsOpen
  <2>2. PICK c \in Car : c = rentals[r].car
    BY <2>1 DEF RentalRow
  <2>3. cars[c] \in CarRow /\ cars[c].fleet = "live"
    BY <1>0, <2>1, <2>2 DEF IsLive
  <2>4. /\ cars' = [cars EXCEPT ![c].status = "available"]
        /\ rentals' = [rentals EXCEPT ![r].returned = returned]
    BY <1>6, <2>2 DEF Contract!Return
  <2>5. cars' = [cars EXCEPT ![c] = [fleet |-> cars[c].fleet, status |-> "available",
                                     details |-> cars[c].details]]
    BY <1>0, <2>3, <2>4, SetStatus
  <2>6. /\ \A x \in Car : cars[x] # NULL => cars'[x] # NULL
        /\ \A x \in Car : cars[x] # NULL /\ cars[x].fleet = "retired" => cars'[x] = cars[x]
    BY <1>3, <2>3, <2>5 DEF CarRow, CarStatus
  <2>7. PICK row \in RentalRow : row = [car |-> rentals[r].car, start |-> rentals[r].start,
                                       returned |-> returned]
    BY <2>1 DEF RentalRow
  <2>8. rentals' = [rentals EXCEPT ![r] = row]
    <3>1. rentals' = [rentals EXCEPT ![r].returned = returned] /\ rentals[r] \in RentalRow
      BY <2>1, <2>4
    <3>2. rentals \in [Rental -> RentalRow \cup {NULL}]
      BY <1>0
    <3> QED BY <2>7, <3>1, <3>2, SetReturned
  <2>9. \A x \in Rental : rentals'[x] = IF x = r THEN row ELSE rentals[x]
    BY <1>0, <2>8
  <2>10. row # NULL /\ row.car = rentals[r].car /\ row.start = rentals[r].start
    BY <2>7
  <2> QED BY <2>1, <2>6, <2>9, <2>10 DEF Remembers
<1>7. ASSUME Contract!Tick \/ UNCHANGED tables PROVE Remembers
  BY <1>7 DEF Contract!Tick, tables, Remembers
<1> QED BY <1>1, <1>2, <1>4, <1>5, <1>6, <1>7 DEF Contract!Next, Contract!Day, Day

\* On PostgreSQL an ended rental and a retired car are never written again.
THEOREM ServiceClosedRecordsFrozen ==
  ASSUME RowLocks
  PROVE  Spec => ClosedRecordsFrozen
<1>1. ServiceInv /\ [Next]_vars =>
        [/\ \A r \in Rental :
              rentals[r] # NULL /\ rentals[r].returned # NULL => rentals'[r] = rentals[r]
         /\ \A c \in Car :
              cars[c] # NULL /\ cars[c].fleet = "retired" => cars'[c] = cars[c]]_tables
  <2> SUFFICES ASSUME ServiceInv, [Next]_vars
               PROVE  /\ \A r \in Rental :
                           rentals[r] # NULL /\ rentals[r].returned # NULL => rentals'[r] = rentals[r]
                      /\ \A c \in Car :
                           cars[c] # NULL /\ cars[c].fleet = "retired" => cars'[c] = cars[c]
    OBVIOUS
  <2>1. TablesOK
    BY DEF ServiceInv, TypeOK
  <2> QED BY <2>1, StepKeeps, ContractRemembers DEF Remembers
<1> QED BY <1>1, ServiceInvariant, PTL DEF Spec, ClosedRecordsFrozen

\* A request has no answer before it is done; the car an end_rental missed was
\* of an ended rental; the rows that an event or a success speaks of are there.
Unanswered(p) == pc[p] \in {"idle"} \cup InTransaction => answer[p] = NULL

MissedRightly(p) ==
  call[p].op = "end" /\ answer[p] = "CarNotFoundError"
    => rentals[call[p].rental] # NULL /\ rentals[call[p].rental].returned # NULL

Truthful(p) ==
  pc[p] = "publish" \/ answer[p] = "ok" =>
    /\ call[p].op \in {"add", "update"} => cars[call[p].car] # NULL
    /\ call[p].op = "delete" => cars[call[p].car] # NULL /\ cars[call[p].car].fleet = "retired"
    /\ call[p].op = "register" => /\ call[p].rental \in Rental
                                  /\ rentals[call[p].rental] # NULL
                                  /\ rentals[call[p].rental].car = call[p].car
                                  /\ rentals[call[p].rental].start = call[p].today
    /\ call[p].op = "end" => /\ rentals[call[p].rental] # NULL
                             /\ rentals[call[p].rental].returned = call[p].today

Told(p) == Unanswered(p) /\ MissedRightly(p) /\ Truthful(p)

\* A request tells only its own client.
LEMMA AnswersAreOwn ==
  ASSUME TypeOK, NEW p \in Request, NEW q \in Request \ {p},
         Arrive(p) \/ Serve(p) \/ CommitUnacknowledged(p) \/ Abort(p)
  PROVE  pc'[q] = pc[q] /\ call'[q] = call[q] /\ answer'[q] = answer[q]
<1> USE DEF TypeOK, Goto
<1>1. CASE Arrive(p)
  BY <1>1 DEF Arrive, BeginAdd, BeginUpdate, BeginDelete, BeginRegister, RefuseStartDate,
     BeginEnd, Begin
<1>2. CASE Lookup(p) \/ LockCar(p)
  BY <1>2 DEF Lookup, LockCar, Refuse
<1>3. CASE LockRental(p)
  BY <1>3 DEF LockRental, Refuse
<1>4. CASE FlushEnd(p)
  BY <1>4 DEF FlushEnd, Refuse, Write
<1>5. CASE UpdateCar(p)
  BY <1>5 DEF UpdateCar, Refuse, Write
<1>6. CASE CheckAvailable(p) \/ CheckNotOut(p)
  BY <1>6 DEF CheckAvailable, CheckNotOut, Decide, Refuse
<1>7. CASE Retire(p) \/ InsertCar(p) \/ MarkInUse(p)
  BY <1>7 DEF Retire, InsertCar, MarkInUse, Write
<1>8. CASE InsertRental(p)
  BY <1>8 DEF InsertRental, Refuse, Write
<1>9. CASE Commit(p) \/ CommitUnacknowledged(p)
  BY <1>9 DEF Commit, CommitUnacknowledged
<1>10. CASE Publish(p) \/ ReadBack(p) \/ Reply(p)
  BY <1>10 DEF Publish, ReadBack, Reply
<1>11. CASE Abort(p)
  BY <1>11 DEF Abort, Refuse
<1> QED BY <1>1, <1>2, <1>3, <1>4, <1>5, <1>6, <1>7, <1>8, <1>9, <1>10, <1>11 DEF Serve

\* What a request was told stays true, whoever commits next.
LEMMA ToldStays ==
  ASSUME ServiceInv, NEW q \in Request, Told(q), Remembers,
         pc'[q] = pc[q], call'[q] = call[q], answer'[q] = answer[q]
  PROVE  Told(q)'
<1> USE FleetAssumption
<1>1. /\ call[q].op \in {"add", "update", "delete", "register"} => call[q].car \in Car
      /\ call[q].op = "end" => call[q].rental \in Rental /\ call[q].today # NULL
  BY Here DEF ArgumentsOK, TypeOK, TablesOK, Day
<1>2. Unanswered(q)' /\ MissedRightly(q)'
  BY <1>1 DEF Told, Unanswered, MissedRightly, Remembers
<1>3. Truthful(q)'
  BY <1>1 DEF Told, Truthful, Remembers
<1> QED BY <1>2, <1>3 DEF Told

\* A request's own step, its commit excepted: it promises nothing new.
LEMMA StatementTells ==
  ASSUME RowLocks, ServiceInv, RetiredCarsAreFree, NEW p \in Request, Told(p),
         Arrive(p) \/ Serve(p) \/ Abort(p), ~Commit(p)
  PROVE  Told(p)' /\ (Promised(p)' => Promised(p))
<1> USE FleetAssumption DEF InTransaction
<1>0. TypeOK /\ TablesOK
  BY DEF ServiceInv, TypeOK
<1>1. /\ "CarNotFoundError" # NULL /\ NULL \notin Answer
  BY ServiceAssumption DEF Answer, DomainError
<1>2. UNCHANGED tables
  BY StatementsKeep
<1>3. ASSUME NEW e \in Answer \ {"ok"}, pc[p] \in InTransaction, Refuse(p, e),
             e = "CarNotFoundError" /\ call[p].op = "end" =>
               rentals[call[p].rental] # NULL /\ rentals[call[p].rental].returned # NULL
      PROVE  Told(p)' /\ (Promised(p)' => Promised(p))
  BY <1>0, <1>2, <1>3 DEF Refuse, TypeOK, Told, Unanswered, MissedRightly, Truthful, Promised,
     tables
<1>4. ASSUME NEW next \in InTransaction, pc[p] \in InTransaction, pc'[p] = next,
             UNCHANGED answer
      PROVE  Told(p)' /\ (Promised(p)' => Promised(p))
  BY <1>1, <1>4 DEF Told, Unanswered, MissedRightly, Truthful, Promised, Answer
<1>5. CASE Arrive(p)
  <2>1. pc[p] = "idle" /\ answer[p] = NULL
    BY <1>5 DEF Told, Unanswered, Arrive, BeginAdd, BeginUpdate, BeginDelete, BeginRegister,
       RefuseStartDate, BeginEnd, Begin
  <2>2. CASE RefuseStartDate(p)
    <3>1. pc'[p] = "reply" /\ answer'[p] = "RentalDateError"
      BY <1>0, <2>2 DEF TypeOK, RefuseStartDate, Begin
    <3> QED BY <3>1 DEF Told, Unanswered, MissedRightly, Truthful, Promised
  <2>3. CASE ~RefuseStartDate(p)
    <3>1. pc'[p] \in InTransaction /\ UNCHANGED answer
      BY <1>0, <1>5, <2>3 DEF TypeOK, Arrive, BeginAdd, BeginUpdate, BeginDelete, BeginRegister,
         BeginEnd, Begin
    <3> QED BY <1>1, <2>1, <3>1 DEF Told, Unanswered, MissedRightly, Truthful, Promised, Answer
  <2> QED BY <2>2, <2>3
<1>6. CASE Lookup(p)
  <2>1. CASE Refuse(p, "RentalNotFoundError")
    BY <1>3, <1>6, <2>1 DEF Lookup, Answer, DomainError
  <2>2. CASE ~Refuse(p, "RentalNotFoundError")
    BY <1>0, <1>4, <1>6, <2>2 DEF Lookup, Goto, TypeOK
  <2> QED BY <2>1, <2>2
<1>7. CASE LockCar(p)
  <2>1. CASE ~IsLive(cars[call[p].car])
    <3>1. pc[p] = "lockCar" /\ Refuse(p, "CarNotFoundError")
      BY <1>7, <2>1 DEF LockCar
    <3>2. call[p].op = "end" => /\ call[p].rental \in Rental /\ rentals[call[p].rental] # NULL
                                /\ rentals[call[p].rental].car = call[p].car
      BY <3>1, Here DEF IdsOK, ArgumentsOK
    <3>3. call[p].op = "end" => rentals[call[p].rental].returned # NULL
      BY <2>1, <3>2 DEF RetiredCarsAreFree, IsOpen
    <3> QED BY <1>3, <3>1, <3>2, <3>3 DEF Answer, DomainError
  <2>2. CASE IsLive(cars[call[p].car])
    <3>1. pc[p] = "lockCar" /\ UNCHANGED answer /\ pc'[p] \in {"lockRental", "decide"}
      BY <1>0, <1>7, <2>2 DEF LockCar, Goto, TypeOK
    <3> QED BY <1>4, <3>1
  <2> QED BY <2>1, <2>2
<1>8. ASSUME NEW body, NEW row, NEW open, NEW today
      PROVE  /\ UpdateVerdict(body, row) \in Answer \ {"CarNotFoundError"}
             /\ RegisterVerdict(row, open) \in Answer \ {"CarNotFoundError"}
             /\ DeleteVerdict(open) \in Answer \ {"CarNotFoundError"}
             /\ EndVerdict(row, today) \in Answer \ {"CarNotFoundError"}
  BY DEF UpdateVerdict, RegisterVerdict, DeleteVerdict, EndVerdict, Answer, DomainError
<1>9. CASE LockRental(p)
  <2>1. PICK v \in Answer \ {"CarNotFoundError"} : v = EndVerdict(ReRead(p), call[p].today)
    BY <1>8
  <2>2. CASE v # "ok"
    BY <1>3, <1>9, <2>1, <2>2 DEF LockRental
  <2>3. CASE v = "ok"
    BY <1>0, <1>4, <1>9, <2>1, <2>3 DEF LockRental, Goto, TypeOK
  <2> QED BY <2>2, <2>3
<1>10. CASE FlushEnd(p)
  <2>1. pc[p] = "flush" /\ ~(call[p].today < tx[p].rental.start)
    BY <1>10, BackstopsHold DEF FlushEnd
  <2>2. pc'[p] = "commit" /\ UNCHANGED answer
    BY <1>0, <1>10, <2>1 DEF FlushEnd, Write, Goto, TypeOK
  <2> QED BY <1>4, <2>1, <2>2
<1>11. CASE UpdateCar(p)
  <2>1. PICK v \in Answer \ {"CarNotFoundError"} : v = UpdateVerdict(call[p], tx[p].car)
    BY <1>8
  <2>2. CASE v # "ok"
    BY <1>3, <1>11, <2>1, <2>2 DEF UpdateCar
  <2>3. CASE v = "ok"
    BY <1>0, <1>4, <1>11, <2>1, <2>3 DEF UpdateCar, Write, Goto, TypeOK
  <2> QED BY <2>2, <2>3
<1>12. CASE CheckAvailable(p)
  <2>1. PICK v \in Answer \ {"CarNotFoundError"} :
          v = RegisterVerdict(tx[p].car, OpenRentals(call[p].car))
    BY <1>8
  <2>2. CASE v # "ok"
    BY <1>3, <1>12, <2>1, <2>2 DEF CheckAvailable, Decide
  <2>3. CASE v = "ok"
    BY <1>0, <1>4, <1>12, <2>1, <2>3 DEF CheckAvailable, Decide, Goto, TypeOK
  <2> QED BY <2>2, <2>3
<1>13. CASE CheckNotOut(p)
  <2>1. PICK v \in Answer \ {"CarNotFoundError"} : v = DeleteVerdict(OpenRentals(call[p].car))
    BY <1>8
  <2>2. CASE v # "ok"
    BY <1>3, <1>13, <2>1, <2>2 DEF CheckNotOut, Decide
  <2>3. CASE v = "ok"
    BY <1>0, <1>4, <1>13, <2>1, <2>3 DEF CheckNotOut, Decide, Goto, TypeOK
  <2> QED BY <2>2, <2>3
<1>14. CASE Retire(p) \/ InsertCar(p) \/ MarkInUse(p)
  BY <1>0, <1>4, <1>14 DEF Retire, InsertCar, MarkInUse, Write, Goto, TypeOK
<1>15. CASE InsertRental(p)
  <2>1. pc[p] = "insert" /\ OpenRentals(call[p].car) = {}
    BY <1>15, BackstopsHold DEF InsertRental
  <2>2. pc'[p] = "markInUse" /\ UNCHANGED answer
    BY <1>0, <1>15, <2>1 DEF InsertRental, Write, Goto, TypeOK
  <2> QED BY <1>4, <2>1, <2>2
<1>16. CASE Publish(p) \/ ReadBack(p)
  <2>1. /\ pc'[p] \in {"readBack", "reply"} /\ UNCHANGED <<cars, rentals, call>>
        /\ pc[p] = "publish" \/ answer'[p] = answer[p] \/ answer'[p] # "ok"
        /\ answer'[p] \in {answer[p], "ServerError"}
    BY <1>0, <1>16 DEF Publish, ReadBack, Goto, TypeOK, tables
  <2> QED BY <2>1 DEF Told, Unanswered, MissedRightly, Truthful, Promised
<1>17. CASE Reply(p)
  <2>1. pc'[p] = "idle" /\ answer'[p] = NULL
    BY <1>0, <1>17 DEF Reply, Goto, TypeOK
  <2> QED BY <1>1, <2>1 DEF Told, Unanswered, MissedRightly, Truthful, Promised, Answer
<1>18. CASE Abort(p)
  BY <1>3, <1>18 DEF Abort, Answer
<1> QED BY <1>5, <1>6, <1>7, <1>9, <1>10, <1>11, <1>12, <1>13, <1>14, <1>15, <1>16, <1>17, <1>18
        DEF Serve

\* A commit puts the rows its event will name into the tables.
LEMMA CommitTells ==
  ASSUME RowLocks, ServiceInv, NEW p \in Request, Commit(p) \/ CommitUnacknowledged(p)
  PROVE  Told(p)'
<1> USE FleetAssumption
<1>1. /\ pc[p] = "commit" /\ Apply(p) /\ UNCHANGED call
      /\ pc'[p] \in {"publish", "reply"} /\ answer'[p] \in {"ok", "ServerError"}
  BY DEF Commit, CommitUnacknowledged, Goto, ServiceInv, TypeOK
<1>2. Unanswered(p)' /\ MissedRightly(p)'
  BY <1>1 DEF Unanswered, MissedRightly, InTransaction
<1>3. Remembers
  BY StepKeeps, ContractRemembers DEF Next, Serve, ServiceInv, TypeOK
<1>4. /\ DecisionHolds(p) /\ call[p].op \in Op /\ call[p].car \in Car
      /\ cars \in [Car -> CarRow \cup {NULL}] /\ rentals \in [Rental -> RentalRow \cup {NULL}]
      /\ call[p].op # "add" => cars[call[p].car] \in CarRow /\ cars[call[p].car] # NULL
  BY <1>1, AtCommit DEF IsLive
<1>5. CASE call[p].op = "add"
  <2>1. cars[call[p].car] = NULL
    BY <1>1, <1>5, Here DEF IdsOK, InTransaction
  <2>2. PICK row \in CarRow : row = tx[p].car
    BY <1>1, <1>4, <1>5, Here DEF DecisionHolds, CarRow, Fleet, CarStatus, ArgumentsOK
  <2>3. tx[p].dirty \cap CarColumns # {}
    BY <1>1, <1>4, <1>5 DEF DecisionHolds, CarColumns
  <2>4. cars'[call[p].car] = row
    BY <1>1, <1>4, <2>1, <2>2, <2>3 DEF Apply, Saved
  <2> QED BY <1>1, <1>2, <1>5, <2>4 DEF Told, Truthful
<1>6. CASE call[p].op = "update"
  BY <1>1, <1>2, <1>3, <1>4, <1>6 DEF Told, Truthful, Remembers
<1>7. CASE call[p].op = "delete"
  <2>1. tx[p].dirty = {"fleet"} /\ tx[p].car.fleet = "retired"
    BY <1>1, <1>4, <1>7 DEF DecisionHolds
  <2>2. cars'[call[p].car] = Saved(cars[call[p].car], tx[p].car, {"fleet"})
    BY <1>1, <1>4, <2>1 DEF Apply, CarColumns
  <2>3. cars'[call[p].car].fleet = "retired"
    BY <1>4, <1>7, <2>1, <2>2 DEF Saved
  <2>4. cars'[call[p].car] # NULL
    BY <1>3, <1>4, <1>7 DEF Remembers
  <2> QED BY <1>1, <1>2, <1>7, <2>3, <2>4 DEF Told, Truthful
<1>8. CASE call[p].op = "register"
  <2>1. "rental" \in tx[p].dirty /\ tx[p].rental = NewRental(p)
    BY <1>1, <1>4, <1>8 DEF DecisionHolds
  <2>2. call[p].rental \in Rental /\ NewRental(p) \in RentalRow
    BY <1>1, <1>4, <1>8, Here DEF ArgumentsOK, InTransaction, NewRental, RentalRow, TypeOK,
       TablesOK, Day
  <2>3. rentals'[call[p].rental] = NewRental(p)
    BY <1>1, <1>4, <2>1, <2>2 DEF Apply
  <2>4. /\ rentals'[call[p].rental] # NULL /\ rentals'[call[p].rental].car = call[p].car
        /\ rentals'[call[p].rental].start = call[p].today
    BY <2>2, <2>3 DEF NewRental
  <2> QED BY <1>1, <1>2, <1>8, <2>2, <2>4 DEF Told, Truthful
<1>9. CASE call[p].op = "end"
  <2>1. /\ "rental" \in tx[p].dirty /\ Returnable(p)
        /\ tx[p].rental = [rentals[call[p].rental] EXCEPT !.returned = call[p].today]
    BY <1>1, <1>4, <1>9 DEF DecisionHolds
  <2>2. call[p].rental \in Rental /\ rentals[call[p].rental] \in RentalRow
    BY <1>4, <1>9, <2>1, Here DEF ArgumentsOK, Returnable, IsOpen
  <2>3. rentals'[call[p].rental] = tx[p].rental
    BY <1>1, <1>4, <2>1, <2>2 DEF Apply
  <2>4. rentals'[call[p].rental].returned = call[p].today
    BY <2>1, <2>2, <2>3 DEF RentalRow
  <2>5. rentals'[call[p].rental] # NULL
    BY <1>3, <2>2 DEF Remembers
  <2> QED BY <1>1, <1>2, <1>9, <2>4, <2>5 DEF Told, Truthful
<1> QED BY <1>4, <1>5, <1>6, <1>7, <1>8, <1>9 DEF Op

\* What requests are told is true on PostgreSQL.
LEMMA ServiceTells ==
  ASSUME RowLocks
  PROVE  Spec => [](\A p \in Request : Told(p))
<1>0. NULL # "CarNotFoundError" /\ NULL # "ok"
  BY ServiceAssumption DEF Answer, DomainError
<1>1. Init => \A p \in Request : Told(p)
  BY <1>0 DEF Init, Told, Unanswered, MissedRightly, Truthful
<1>2. ServiceInv /\ RetiredCarsAreFree /\ (\A p \in Request : Told(p)) /\ [Next]_vars
        => (\A p \in Request : Told(p))'
  <2> SUFFICES ASSUME ServiceInv, RetiredCarsAreFree, \A p \in Request : Told(p), [Next]_vars,
                      NEW q \in Request
               PROVE  Told(q)'
    OBVIOUS
  <2>0. Remembers /\ TypeOK
    BY StepKeeps, ContractRemembers DEF ServiceInv, TypeOK
  <2>1. ASSUME NEW p \in Request, Arrive(p) \/ Serve(p) \/ CommitUnacknowledged(p) \/ Abort(p)
        PROVE  Told(q)'
    <3>1. CASE q # p
      BY <2>0, <2>1, <3>1, AnswersAreOwn, ToldStays
    <3>2. CASE q = p
      BY <2>1, <3>2, StatementTells, CommitTells
    <3> QED BY <3>1, <3>2
  <2>2. CASE Crash
    BY <1>0, <2>2 DEF Crash, Told, Unanswered, MissedRightly, Truthful
  <2>3. CASE Tick \/ UNCHANGED vars
    <3>1. pc'[q] = pc[q] /\ call'[q] = call[q] /\ answer'[q] = answer[q]
      BY <2>3 DEF Tick, vars
    <3> QED BY <2>0, <3>1, ToldStays
  <2> QED BY <2>1, <2>2, <2>3 DEF Next
<1> QED BY <1>1, <1>2, ServiceInvariant, ServiceRetiredCarsAreFree, PTL DEF Spec

\* What was promised and no later request may undo is in the tables.
LEMMA ServiceLasts ==
  ASSUME RowLocks
  PROVE  Spec => [](\A p \in Request : Promised(p) => Lasts(p))
<1>1. ServiceInv /\ (\A p \in Request : Told(p)) => \A p \in Request : Promised(p) => Lasts(p)
  <2> SUFFICES ASSUME ServiceInv, NEW p \in Request, Told(p), Promised(p) PROVE Lasts(p)
    OBVIOUS
  <2>1. pc[p] # "idle"
    BY ServiceAssumption DEF Told, Unanswered, Promised, Answer
  <2>2. call[p].op \in Op
    BY <2>1, Place
  <2>3. Truthful(p)
    BY DEF Told
  <2> QED BY <2>2, <2>3 DEF Op, Truthful, Promised, Lasts
<1> QED BY <1>1, ServiceInvariant, ServiceTells, PTL

\* A commit puts all that was asked for into the tables, and is followed by an
\* event only if it changed them.
LEMMA CommitShows ==
  ASSUME ServiceInv, NEW p \in Request, Commit(p)
  PROVE  Shows(p)' /\ (pc'[p] = "publish" => cars' # cars \/ rentals' # rentals)
<1> USE FleetAssumption
<1>1. /\ pc[p] = "commit" /\ Apply(p) /\ call'[p] = call[p]
      /\ pc'[p] = "publish" => tx[p].dirty # {}
  BY DEF Commit, Goto, ServiceInv, TypeOK
<1>2. /\ DecisionHolds(p) /\ call[p].op \in Op /\ call[p] \in Call /\ call[p].car \in Car
      /\ cars \in [Car -> CarRow \cup {NULL}] /\ rentals \in [Rental -> RentalRow \cup {NULL}]
      /\ call[p].op # "add" => cars[call[p].car] \in CarRow /\ IsLive(cars[call[p].car])
  BY <1>1, AtCommit
<1>3. CASE call[p].op = "add"
  <2>1. Contract!Add(call[p].car, call[p].details)
    BY <1>1, <1>3, CommitAdd
  <2>2. /\ cars[call[p].car] = NULL
        /\ cars'[call[p].car] = [fleet |-> "live", status |-> "available",
                                 details |-> call[p].details]
    BY <1>2, <2>1 DEF Contract!Add
  <2>3. cars'[call[p].car] # NULL
    <3>1. cars'[call[p].car] \in CarRow
      BY <1>1, <1>3, <2>2, CommitAdd DEF CarRow, Fleet, CarStatus
    <3> QED BY <3>1
  <2>4. cars' # cars
    BY <2>2, <2>3
  <2>5. cars'[call'[p].car] = [fleet |-> "live", status |-> "available",
                              details |-> call'[p].details]
    BY <1>1, <2>2
  <2> QED BY <1>1, <1>3, <2>4, <2>5 DEF Shows
<1>4. CASE call[p].op = "update"
  <2>1. PICK c \in Car, dirty \in SUBSET {"details", "status"} :
          /\ c = call[p].car /\ dirty = tx[p].dirty
          /\ dirty = ChangedColumns(call[p], cars[c])
    <3>1. ChangedColumns(call[p], cars[call[p].car]) \in SUBSET {"details", "status"}
      BY DEF ChangedColumns
    <3> QED BY <1>1, <1>2, <1>4, <3>1 DEF DecisionHolds
  <2>2. /\ "status" \in dirty => tx[p].car.status = call[p].status
        /\ "details" \in dirty => tx[p].car.details = call[p].details
        /\ "status" \in dirty <=> call[p].status # NULL /\ call[p].status # cars[c].status
        /\ "details" \in dirty <=> call[p].details # NULL /\ call[p].details # cars[c].details
    <3>1. /\ "status" \in dirty => tx[p].car.status = call[p].status
          /\ "details" \in dirty => tx[p].car.details = call[p].details
      BY <1>1, <1>2, <1>4, <2>1 DEF DecisionHolds
    <3> QED BY <2>1, <3>1 DEF ChangedColumns
  <2>3. CASE dirty = {}
    <3>1. cars' = cars
      BY <1>1, <2>1, <2>3 DEF Apply
    <3>2. cars[c] # NULL /\ pc'[p] # "publish"
      BY <1>1, <1>2, <1>4, <2>1, <2>3
    <3> QED BY <1>1, <1>4, <2>1, <2>3, <3>1, <3>2 DEF Shows
  <2>4. CASE dirty # {}
    <3>1. PICK row : row = Saved(cars[c], tx[p].car, dirty)
      OBVIOUS
    <3>2. cars' = [cars EXCEPT ![c] = row]
      BY <1>1, <2>1, <2>4, <3>1 DEF Apply, CarColumns
    <3>3. row = [fleet   |-> cars[c].fleet,
                 status  |-> IF "status" \in dirty THEN tx[p].car.status ELSE cars[c].status,
                 details |-> IF "details" \in dirty THEN tx[p].car.details ELSE cars[c].details]
      BY <1>2, <1>4, <2>1, <3>1 DEF Saved
    <3>4. row \in CarRow /\ row # NULL
      BY <1>2, <1>4, <2>1, <2>2, <3>3 DEF CarRow, Call
    <3>5. ChangedColumns(call[p], row) = {}
      BY <2>2, <3>3 DEF ChangedColumns
    <3>6. cars'[c] = row
      BY <1>2, <3>2
    <3>7. row # cars[c]
      BY <2>1, <2>2, <2>4, <3>3
    <3>8. call[p].car = c
      BY <2>1
    <3> QED BY <1>1, <1>4, <3>4, <3>5, <3>6, <3>7, <3>8 DEF Shows
  <2> QED BY <2>3, <2>4
<1>5. CASE call[p].op = "delete"
  <2>1. PICK c \in Car : c = call[p].car
    BY <1>2
  <2>2. cars' = [cars EXCEPT ![c].fleet = "retired"]
    BY <1>1, <1>5, <2>1, CommitDelete DEF Contract!Retire
  <2>3. cars'[c] = [cars[c] EXCEPT !.fleet = "retired"] /\ cars[c] \in CarRow
    BY <1>2, <1>5, <2>1, <2>2
  <2>4. cars'[c] \in CarRow /\ cars'[c].fleet = "retired" /\ cars[c].fleet = "live"
    BY <1>2, <1>5, <2>1, <2>3 DEF CarRow, Fleet, IsLive
  <2> QED BY <1>1, <1>5, <2>1, <2>4 DEF Shows
<1>6. CASE call[p].op = "register"
  <2>1. PICK c \in Car, r \in Rental : c = call[p].car /\ r = call[p].rental
    BY <1>1, <1>2, <1>6, CommitRegister
  <2>2. /\ rentals[r] = NULL
        /\ rentals' = [rentals EXCEPT ![r] = [car |-> c, start |-> call[p].today,
                                              returned |-> NULL]]
        /\ cars' = [cars EXCEPT ![c].status = "in_use"]
    BY <1>1, <1>6, <2>1, CommitRegister DEF Contract!Rent
  <2>3. rentals'[r] = NewRental(p) /\ NewRental(p) \in RentalRow
    BY <1>1, <1>2, <1>6, <2>1, <2>2, CommitRegister DEF NewRental, RentalRow
  <2>4. cars'[c].status = "in_use"
    BY <1>2, <1>6, <2>1, <2>2 DEF CarRow
  <2>5. rentals' # rentals
    BY <2>2, <2>3
  <2>6. rentals'[r] = NewRental(p)'
    BY <1>1, <2>3 DEF NewRental
  <2> QED BY <1>1, <1>6, <2>1, <2>4, <2>5, <2>6 DEF Shows
<1>7. CASE call[p].op = "end"
  <2>1. PICK c \in Car, r \in Rental :
          /\ c = call[p].car /\ r = call[p].rental /\ rentals[r].car = c
    BY <1>1, <1>2, <1>7, CommitEnd
  <2>2. /\ IsOpen(rentals[r]) /\ call[p].today \in Day
        /\ rentals' = [rentals EXCEPT ![r].returned = call[p].today]
        /\ cars' = [cars EXCEPT ![c].status = "available"]
    BY <1>1, <1>7, <2>1, CommitEnd, SameRules DEF Contract!Return
  <2>3. rentals[r] \in RentalRow /\ rentals[r].returned = NULL
    BY <1>2, <2>2 DEF IsOpen
  <2>4. /\ rentals'[r] \in RentalRow /\ rentals'[r].returned = call[p].today
        /\ call[p].today # NULL
    BY <1>2, <2>2, <2>3 DEF RentalRow
  <2>5. cars'[c].status = "available"
    BY <1>2, <1>7, <2>1, <2>2 DEF CarRow
  <2>6. rentals' # rentals
    BY <2>3, <2>4
  <2> QED BY <1>1, <1>7, <2>1, <2>4, <2>5, <2>6 DEF Shows
<1> QED BY <1>2, <1>3, <1>4, <1>5, <1>6, <1>7 DEF Op

\* On PostgreSQL an event is published, and success answered, only by a commit
\* that has put all that was asked for into the tables, an event only if they
\* changed; and what no later request may undo stays there until the answer.
THEOREM ServiceEventsTellTruth ==
  ASSUME RowLocks
  PROVE  Spec => EventTellsTruth
<1>1. /\ ServiceInv /\ RetiredCarsAreFree /\ (\A p \in Request : Told(p)) /\ [Next]_vars
      /\ (\A p \in Request : Promised(p) => Lasts(p))'
      => [\A p \in Request : Promised(p)' =>
            /\ Lasts(p)'
            /\ ~Promised(p) => Shows(p)'
            /\ pc'[p] = "publish" /\ pc[p] # "publish"
                 => cars' # cars \/ rentals' # rentals]_vars
  <2> SUFFICES ASSUME ServiceInv, RetiredCarsAreFree, \A p \in Request : Told(p), [Next]_vars,
                      NEW q \in Request, Promised(q)'
               PROVE  /\ ~Promised(q) => Shows(q)'
                      /\ pc'[q] = "publish" /\ pc[q] # "publish"
                           => cars' # cars \/ rentals' # rentals
    OBVIOUS
  <2>1. TypeOK /\ Told(q) /\ "ok" # NULL
    BY ServiceAssumption DEF ServiceInv, Answer
  <2>2. ASSUME NEW p \in Request, Arrive(p) \/ Serve(p) \/ CommitUnacknowledged(p) \/ Abort(p)
        PROVE  \/ Commit(q)
               \/ Promised(q) /\ (pc'[q] = "publish" => pc[q] = "publish")
    <3>1. CASE p # q
      BY <2>1, <2>2, <3>1, AnswersAreOwn DEF Promised
    <3>2. CASE CommitUnacknowledged(q)
      BY <2>1, <3>2 DEF CommitUnacknowledged, Promised, Goto, TypeOK
    <3>3. CASE ~Commit(q) /\ ~CommitUnacknowledged(q) /\ p = q
      <4>1. Promised(q)
        BY <2>1, <2>2, <3>3, StatementTells
      <4>2. pc[q] # "idle" /\ pc[q] \notin InTransaction
        BY <2>1, <4>1 DEF Promised, Told, Unanswered, InTransaction
      <4>3. Publish(q) \/ ReadBack(q) \/ Reply(q)
        BY <2>2, <3>3, <4>2 DEF Arrive, BeginAdd, BeginUpdate, BeginDelete, BeginRegister,
           RefuseStartDate, BeginEnd, Begin, Abort, Serve, Lookup, LockCar, LockRental, FlushEnd,
           UpdateCar, CheckAvailable, CheckNotOut, Decide, Retire, InsertCar, InsertRental,
           MarkInUse, InTransaction
      <4>4. pc'[q] # "publish"
        BY <2>1, <4>3 DEF Publish, ReadBack, Reply, Goto, TypeOK
      <4> QED BY <4>1, <4>4
    <3> QED BY <2>2, <3>1, <3>2, <3>3
  <2>3. ASSUME Crash \/ Tick \/ UNCHANGED vars
        PROVE  Promised(q) /\ (pc'[q] = "publish" => pc[q] = "publish")
    BY <2>1, <2>3 DEF Crash, Tick, vars, Promised
  <2>4. CASE Commit(q)
    BY <2>4, CommitShows
  <2> QED BY <2>2, <2>3, <2>4 DEF Next
<1> QED BY <1>1, ServiceInvariant, ServiceRetiredCarsAreFree, ServiceTells, ServiceLasts, PTL
       DEF Spec, EventTellsTruth

\* On PostgreSQL end_rental finds the car of every rental that is still out.
THEOREM ServiceEndMissesOnlyRetiredCars ==
  ASSUME RowLocks
  PROVE  Spec => []EndMissesOnlyRetiredCars
<1>1. (\A p \in Request : Told(p)) => EndMissesOnlyRetiredCars
  BY DEF Told, MissedRightly, EndMissesOnlyRetiredCars
<1> QED BY <1>1, ServiceTells, PTL

\* A request's own refusal is what the committed rows object to.
LEMMA RefusalIsTrue ==
  ASSUME RowLocks, ServiceInv, NEW p \in Request, Told(p), pc[p] \in InTransaction,
         Serve(p) \/ CommitUnacknowledged(p) \/ Abort(p), answer'[p] \in DomainError
  PROVE  answer'[p] = Objection(p)
<1> USE DEF DomainError
<1>0. /\ TypeOK /\ NULL \notin DomainError /\ answer[p] = NULL
      /\ \A e \in Answer : answer' = [answer EXCEPT ![p] = e] => answer'[p] = e
  BY ServiceAssumption DEF ServiceInv, TypeOK, Told, Unanswered, Answer
<1>1. answer' # answer
  BY <1>0
<1>2. ASSUME NEW e, Refuse(p, e) PROVE answer'[p] = e
  BY <1>0, <1>2 DEF Refuse, TypeOK
<1>3. CASE Lookup(p)
  <2>1. Refuse(p, "RentalNotFoundError") /\ rentals[call[p].rental] = NULL /\ call[p].op = "end"
    BY <1>1, <1>3, Place DEF Lookup
  <2> QED BY <1>2, <2>1 DEF Objection
<1>4. CASE LockCar(p)
  <2>1. /\ pc[p] = "lockCar" /\ ~IsLive(cars[call[p].car]) /\ Refuse(p, "CarNotFoundError")
        /\ call[p].op \in {"update", "delete", "register", "end"}
    BY <1>1, <1>4, Place DEF LockCar
  <2>2. call[p].op = "end" => /\ rentals[call[p].rental] # NULL
                              /\ rentals[call[p].rental].car = call[p].car
    BY <2>1, Here DEF IdsOK, InTransaction
  <2> QED BY <1>2, <2>1, <2>2 DEF Objection
<1>5. CASE LockRental(p)
  <2>1. /\ pc[p] = "lockRental" /\ call[p].op = "end"
        /\ Refuse(p, EndVerdict(rentals[call[p].rental], call[p].today))
    BY <1>1, <1>5, Place DEF LockRental, ReRead
  <2>2. /\ rentals[call[p].rental] # NULL /\ rentals[call[p].rental].car = call[p].car
        /\ IsLive(cars[call[p].car])
    BY <2>1, Here DEF IdsOK, InTransaction, CarLocked, PastCarLock
  <2>3. answer'[p] = EndVerdict(rentals[call[p].rental], call[p].today)
    BY <1>2, <2>1
  <2> QED BY <2>1, <2>2, <2>3 DEF Objection
<1>6. ASSUME pc[p] = "decide"
      PROVE  tx[p].car = cars[call[p].car] /\ IsLive(cars[call[p].car])
  BY <1>6, Here, Place DEF CopiesFresh, CarLocked, PastCarLock, InTransaction
<1>7. CASE UpdateCar(p)
  <2>1. /\ pc[p] = "decide" /\ call[p].op = "update"
        /\ Refuse(p, UpdateVerdict(call[p], tx[p].car))
    BY <1>1, <1>7 DEF UpdateCar, Write
  <2>2. answer'[p] = UpdateVerdict(call[p], cars[call[p].car])
    BY <1>2, <1>6, <2>1
  <2> QED BY <1>6, <2>1, <2>2 DEF Objection
<1>8. CASE CheckAvailable(p)
  <2>1. /\ pc[p] = "decide" /\ call[p].op = "register"
        /\ Refuse(p, RegisterVerdict(tx[p].car, OpenRentals(call[p].car)))
    BY <1>1, <1>8 DEF CheckAvailable, Decide
  <2>2. answer'[p] = RegisterVerdict(cars[call[p].car], OpenRentals(call[p].car))
    BY <1>2, <1>6, <2>1
  <2> QED BY <1>6, <2>1, <2>2 DEF Objection
<1>9. CASE CheckNotOut(p)
  <2>1. /\ pc[p] = "decide" /\ call[p].op = "delete"
        /\ Refuse(p, DeleteVerdict(OpenRentals(call[p].car)))
    BY <1>1, <1>9 DEF CheckNotOut, Decide
  <2>2. answer'[p] = DeleteVerdict(OpenRentals(call[p].car))
    BY <1>2, <2>1
  <2> QED BY <1>6, <2>1, <2>2 DEF Objection
<1>10. ~FlushEnd(p) /\ ~InsertRental(p) /\ ~Abort(p)
  BY <1>1, <1>2 DEF FlushEnd, InsertRental, Abort, Write
<1>11. ~Retire(p) /\ ~InsertCar(p) /\ ~MarkInUse(p)
  BY <1>1 DEF Retire, InsertCar, MarkInUse, Write
<1>12. ~Commit(p) /\ ~CommitUnacknowledged(p)
  BY <1>0 DEF Commit, CommitUnacknowledged, TypeOK
<1>13. ~Publish(p) /\ ~ReadBack(p) /\ ~Reply(p)
  BY DEF Publish, ReadBack, Reply, InTransaction
<1> QED BY <1>3, <1>4, <1>5, <1>7, <1>8, <1>9, <1>10, <1>11, <1>12, <1>13 DEF Serve

\* On PostgreSQL a domain error is true of the committed tables at the moment it
\* is raised.
THEOREM ServiceRefusalsTellTruth ==
  ASSUME RowLocks
  PROVE  Spec => RefusalsTellTruth
<1>0. NULL \notin DomainError
  BY ServiceAssumption DEF Answer
<1>1. ServiceInv /\ (\A p \in Request : Told(p)) /\ [Next]_vars =>
        [\A p \in Request :
           pc[p] \in InTransaction /\ answer'[p] \in DomainError
             => answer'[p] = Objection(p)]_vars
  <2> SUFFICES ASSUME ServiceInv, \A p \in Request : Told(p), [Next]_vars,
                      NEW q \in Request, pc[q] \in InTransaction, answer'[q] \in DomainError
               PROVE  answer'[q] = Objection(q)
    OBVIOUS
  <2>1. TypeOK /\ answer[q] = NULL
    BY DEF ServiceInv, Told, Unanswered
  <2>2. ASSUME NEW p \in Request, Arrive(p) \/ Serve(p) \/ CommitUnacknowledged(p) \/ Abort(p)
        PROVE  answer'[q] = Objection(q)
    <3>1. q = p
      BY <1>0, <2>1, <2>2, AnswersAreOwn
    <3>2. ~Arrive(q)
      BY DEF Arrive, BeginAdd, BeginUpdate, BeginDelete, BeginRegister, RefuseStartDate,
         BeginEnd, Begin, InTransaction
    <3> QED BY <2>2, <3>1, <3>2, RefusalIsTrue
  <2>3. CASE Crash
    BY <1>0, <2>3 DEF Crash
  <2>4. CASE Tick \/ UNCHANGED vars
    BY <1>0, <2>1, <2>4 DEF Tick, vars
  <2> QED BY <2>2, <2>3, <2>4 DEF Next
<1> QED BY <1>1, ServiceInvariant, ServiceTells, PTL DEF Spec, RefusalsTellTruth
----------------------------------------------------------------------------
(* The unique index, on PostgreSQL and on SQLite alike: what it guarantees  *)
(* needs neither the row locks nor the writer lock.                         *)

IndexTypes ==
  /\ rentals \in [Rental -> RentalRow \cup {NULL}] /\ day \in Day
  /\ pc \in [Request -> PC]
  /\ call \in [Request -> Call \cup {NoCall}]
  /\ tx = [p \in Request |-> tx[p]]

\* p has an entry in the index that is not committed.
Pending(p) == call[p].op = "register" /\ pc[p] \in {"markInUse", "commit"}

\* An entry that is not committed stands alone for its car, and no other commit
\* opens a rental.
Indexed(p) ==
  /\ pc[p] \in {"lookup", "lockRental", "flush"} => call[p].op = "end"
  /\ pc[p] = "markInUse" => call[p].op = "register"
  /\ pc[p] = "retire" => call[p].op = "delete"
  /\ call[p].op \in {"register", "end"} => call[p].today \in Day
  /\ call[p].op = "register" => call[p].car \in Car
  /\ call[p].op = "end" => call[p].rental \in Rental
  /\ tx[p].rental \in RentalRow \cup {NULL}
  /\ pc[p] = "flush" => tx[p].rental \in RentalRow
  /\ Pending(p) => tx[p].rental = NewRental(p) /\ OpenRentals(call[p].car) = {}
  /\ pc[p] = "commit" /\ "rental" \in tx[p].dirty /\ call[p].op # "register"
       => tx[p].rental \in RentalRow /\ tx[p].rental.returned # NULL

OneEntryPerCar ==
  \A p, q \in Request : p # q /\ Pending(p) /\ Pending(q) => call[p].car # call[q].car

IndexInv == /\ IndexTypes /\ OneOpenRentalPerCar /\ OneEntryPerCar
            /\ \A p \in Request : Indexed(p)

\* A step of p that commits nothing, and takes an index entry only if it is free.
Enters(p) ==
  /\ IndexTypes' /\ UNCHANGED rentals /\ Indexed(p)'
  /\ \A q \in Request \ {p} : pc'[q] = pc[q] /\ call'[q] = call[q] /\ tx'[q] = tx[q]
  /\ Pending(p)' => call'[p] = call[p] /\ (Pending(p) \/ ~IndexEntryPending(p))

\* The index's own rule keeps the invariant.
LEMMA EntersKeepsIndex ==
  ASSUME IndexInv, NEW p \in Request, Enters(p)
  PROVE  IndexInv'
<1>1. ASSUME NEW q \in Request \ {p}
      PROVE  Indexed(q)' /\ Pending(q)' = Pending(q) /\ call'[q] = call[q]
  BY DEF IndexInv, Enters, Indexed, Pending, NewRental, OpenRentals
<1>2. OneOpenRentalPerCar'
  BY DEF IndexInv, Enters, OneOpenRentalPerCar
<1>3. ASSUME Pending(p)', NEW q \in Request \ {p}, Pending(q)' PROVE call'[p].car # call'[q].car
  <2>1. Pending(q) /\ call'[q] = call[q] /\ call'[p] = call[p]
    BY <1>1, <1>3 DEF Enters
  <2>2. CASE Pending(p)
    BY <2>1, <2>2 DEF IndexInv, OneEntryPerCar
  <2>3. CASE ~IndexEntryPending(p)
    BY <2>1, <2>3 DEF IndexEntryPending, HasIndexEntry, Pending
  <2> QED BY <1>3, <2>2, <2>3 DEF Enters
<1>4. OneEntryPerCar'
  BY <1>1, <1>3 DEF OneEntryPerCar, IndexInv
<1> QED BY <1>1, <1>2, <1>4 DEF IndexInv, Enters

\* A refusal takes no entry.
LEMMA RefuseEnters ==
  ASSUME IndexInv, NEW p \in Request, NEW e, Refuse(p, e)
  PROVE  Enters(p)
BY DEF IndexInv, IndexTypes, Refuse, CloseTx, NoTx, PC, Enters, Indexed, Pending, tables

\* Reads, decisions and answers take no entry.
LEMMA GoesOn ==
  ASSUME IndexInv, NEW p \in Request, NEW next \in PC \ {"markInUse", "commit", "retire", "lookup"},
         UNCHANGED <<rentals, day>>, Goto(p, next),
         \/ UNCHANGED call
         \/ call[p].op = "end" /\ \E c \in Car : call' = [call EXCEPT ![p].car = c],
         next \in {"lockRental", "flush"} => call[p].op = "end",
         (UNCHANGED tx /\ next # "flush") \/ \E car : \E rental \in RentalRow \cup {NULL} :
           Hold(p, car, rental, {}) /\ (next = "flush" => rental \in RentalRow)
  PROVE  Enters(p)
<1>1. pc' = [pc EXCEPT ![p] = next] /\ pc' \in [Request -> PC] /\ pc'[p] = next
  BY DEF Goto, IndexInv, IndexTypes
<1>2. /\ call' \in [Request -> Call \cup {NoCall}]
      /\ call'[p].op = call[p].op /\ call'[p].today = call[p].today
      /\ call'[p].rental = call[p].rental
      /\ call'[p].car \in {call[p].car} \cup Car
      /\ \A q \in Request \ {p} : call'[q] = call[q]
  <2>1. CASE UNCHANGED call
    BY <2>1 DEF IndexInv, IndexTypes
  <2>2. CASE ~UNCHANGED call
    <3>1. PICK c \in Car : call' = [call EXCEPT ![p].car = c]
      BY <2>2
    <3>2. call[p] \in Call
      BY <2>2 DEF IndexInv, IndexTypes, NoCall, Args
    <3>3. [call[p] EXCEPT !.car = c] \in Call
      BY <3>2 DEF Call
    <3>4. call'[p] = [call[p] EXCEPT !.car = c] /\ \A q \in Request \ {p} : call'[q] = call[q]
      BY <3>1 DEF IndexInv, IndexTypes
    <3>5. call' \in [Request -> Call \cup {NoCall}]
      BY <3>1, <3>3, <3>4 DEF IndexInv, IndexTypes
    <3> QED BY <3>2, <3>4, <3>5 DEF Call
  <2> QED BY <2>1, <2>2
<1>3. /\ tx' = [q \in Request |-> tx'[q]] /\ \A q \in Request \ {p} : tx'[q] = tx[q]
      /\ tx'[p].rental \in RentalRow \cup {NULL}
      /\ next = "flush" => tx'[p].rental \in RentalRow
  BY DEF Hold, IndexInv, IndexTypes, Indexed
<1>4. Indexed(p)
  BY DEF IndexInv
<1>5. Indexed(p)' /\ ~Pending(p)'
  BY <1>1, <1>2, <1>3, <1>4 DEF Indexed, Pending
<1>6. IndexTypes'
  BY <1>1, <1>2, <1>3 DEF IndexInv, IndexTypes
<1> QED BY <1>1, <1>2, <1>3, <1>5, <1>6 DEF Enters

\* The statements before a commit.
LEMMA StatementEnters ==
  ASSUME IndexInv, NEW p \in Request, Arrive(p) \/ Serve(p) \/ Abort(p), ~Commit(p)
  PROVE  Enters(p)
<1>0. /\ IndexTypes /\ Indexed(p) /\ pc[p] \in PC
      /\ call[p].op = "end" => call[p].rental \in Rental
  BY DEF IndexInv, IndexTypes, Indexed
<1>1. CASE Arrive(p)
  <2>1. PICK new \in Call, first \in {"insert", "lockCar", "reply", "lookup"} :
          /\ Begin(p, new, first)
          /\ first = "lookup" => new.op = "end"
          /\ new.op \in {"register", "end"} => new.today \in Day
          /\ new.op = "register" => new.car \in Car
          /\ new.op = "end" => new.rental \in Rental
    <3> USE <1>0 DEF IndexTypes, Call, Args, Op
    <3>1. CASE BeginAdd(p)
      BY <3>1 DEF BeginAdd
    <3>2. CASE BeginUpdate(p)
      BY <3>2 DEF BeginUpdate
    <3>3. CASE BeginDelete(p)
      BY <3>3 DEF BeginDelete
    <3>4. CASE BeginRegister(p)
      BY <3>4 DEF BeginRegister
    <3>5. CASE RefuseStartDate(p)
      BY <3>5 DEF RefuseStartDate
    <3>6. CASE BeginEnd(p)
      BY <3>6 DEF BeginEnd
    <3> QED BY <1>1, <3>1, <3>2, <3>3, <3>4, <3>5, <3>6 DEF Arrive
  <2>2. /\ pc' \in [Request -> PC] /\ pc'[p] = first /\ call'[p] = new
        /\ call' \in [Request -> Call \cup {NoCall}] /\ UNCHANGED <<rentals, day, tx>>
        /\ \A q \in Request \ {p} : pc'[q] = pc[q] /\ call'[q] = call[q]
    BY <1>0, <2>1 DEF Begin, IndexTypes, PC, InTransaction, tables
  <2> QED BY <1>0, <2>1, <2>2 DEF Enters, IndexTypes, Indexed, Pending
<1>2. CASE Lookup(p)
  <2>1. CASE Refuse(p, "RentalNotFoundError")
    BY <2>1, RefuseEnters
  <2>2. CASE ~Refuse(p, "RentalNotFoundError")
    <3>1. PICK row : row = rentals[call[p].rental]
      OBVIOUS
    <3>2. /\ row # NULL /\ Hold(p, NULL, row, {}) /\ call' = [call EXCEPT ![p].car = row.car]
          /\ Goto(p, "lockCar") /\ UNCHANGED <<rentals, day>>
      BY <1>2, <2>2, <3>1 DEF Lookup, tables
    <3>3. call[p].op = "end"
      BY <1>0, <1>2 DEF Lookup, Indexed
    <3>4. row \in RentalRow /\ row.car \in Car
      BY <1>0, <3>1, <3>2, <3>3 DEF IndexTypes, RentalRow
    <3> QED BY <3>2, <3>3, <3>4, GoesOn DEF PC, InTransaction
  <2> QED BY <2>1, <2>2
<1>3. CASE LockCar(p)
  <2>1. CASE Refuse(p, "CarNotFoundError")
    BY <2>1, RefuseEnters
  <2>2. CASE ~Refuse(p, "CarNotFoundError")
    <3>1. PICK next \in {"lockRental", "decide"} :
            /\ Goto(p, next) /\ UNCHANGED <<rentals, day, call>>
            /\ next = "lockRental" => call[p].op = "end"
            /\ Hold(p, cars[call[p].car], tx[p].rental, {})
      BY <1>3, <2>2 DEF LockCar, tables
    <3>2. tx[p].rental \in RentalRow \cup {NULL}
      BY <1>0 DEF Indexed
    <3> QED BY <3>1, <3>2, GoesOn DEF PC, InTransaction
  <2> QED BY <2>1, <2>2
<1>4. CASE LockRental(p)
  <2>1. PICK v : v = EndVerdict(rentals[call[p].rental], call[p].today)
    OBVIOUS
  <2>2. CASE v # "ok"
    BY <1>4, <2>1, <2>2, RefuseEnters DEF LockRental, ReRead
  <2>3. CASE v = "ok"
    <3>1. /\ Goto(p, "flush") /\ UNCHANGED <<rentals, day, call>>
          /\ Hold(p, tx[p].car, rentals[call[p].rental], {})
      BY <1>4, <2>1, <2>3 DEF LockRental, ReRead, tables
    <3>2. call[p].op = "end" /\ rentals[call[p].rental] # NULL
      BY <1>0, <1>4, <2>1, <2>3 DEF LockRental, Indexed, EndVerdict
    <3>3. rentals[call[p].rental] \in RentalRow
      BY <1>0, <3>2 DEF IndexTypes
    <3> QED BY <3>1, <3>2, <3>3, GoesOn DEF PC, InTransaction
  <2> QED BY <2>2, <2>3
<1>5. CASE CheckAvailable(p) \/ CheckNotOut(p)
  <2>1. PICK next \in {"insert", "retire"} : \E v :
          /\ next = "retire" => call[p].op = "delete"
          /\ IF v # "ok" THEN Refuse(p, v)
             ELSE Goto(p, next) /\ UNCHANGED <<tables, call, tx, answer, locks>>
    BY <1>5 DEF CheckAvailable, CheckNotOut, Decide
  <2>2. CASE \E v : Refuse(p, v)
    BY <2>2, RefuseEnters
  <2>3. CASE ~\E v : Refuse(p, v)
    <3>1. /\ pc' \in [Request -> PC] /\ pc'[p] = next /\ UNCHANGED <<rentals, day, call, tx>>
          /\ \A q \in Request \ {p} : pc'[q] = pc[q]
      BY <1>0, <2>1, <2>3 DEF Goto, IndexTypes, PC, InTransaction, tables
    <3> QED BY <1>0, <2>1, <3>1 DEF Enters, IndexTypes, Indexed, Pending
  <2> QED BY <2>2, <2>3
<1>6. ASSUME NEW next \in {"markInUse", "commit"}, NEW car, NEW rental \in RentalRow \cup {NULL},
             NEW dirty, Goto(p, next), Hold(p, car, rental, dirty), UNCHANGED <<rentals, day, call>>,
             next = "markInUse" => call[p].op = "register",
             call[p].op = "register" =>
               /\ rental = NewRental(p) /\ OpenRentals(call[p].car) = {}
               /\ Pending(p) \/ ~IndexEntryPending(p),
             "rental" \in dirty /\ call[p].op # "register" =>
               rental \in RentalRow /\ rental.returned # NULL
      PROVE  Enters(p)
  <2>1. /\ pc' \in [Request -> PC] /\ pc'[p] = next
        /\ \A q \in Request \ {p} : pc'[q] = pc[q] /\ tx'[q] = tx[q]
        /\ tx' = [q \in Request |-> tx'[q]] /\ tx'[p].rental = rental /\ tx'[p].dirty = dirty
    BY <1>0, <1>6 DEF Goto, Hold, IndexTypes, PC, InTransaction
  <2>2. Indexed(p)'
    BY <1>0, <1>6, <2>1 DEF Indexed, Pending, NewRental, OpenRentals
  <2>3. IndexTypes'
    BY <1>0, <1>6, <2>1 DEF IndexTypes
  <2> QED BY <1>6, <2>1, <2>2, <2>3 DEF Enters, Pending
<1>7. CASE FlushEnd(p)
  <2>1. CASE Refuse(p, "IntegrityError")
    BY <2>1, RefuseEnters
  <2>2. CASE ~Refuse(p, "IntegrityError")
    <3>1. call[p].op = "end" /\ call[p].today \in Day /\ tx[p].rental \in RentalRow
      BY <1>0, <1>7 DEF FlushEnd, Indexed
    <3>2. PICK row : row = [tx[p].rental EXCEPT !.returned = call[p].today]
      OBVIOUS
    <3>3. row \in RentalRow /\ row.returned # NULL
      BY <3>1, <3>2, FleetAssumption DEF RentalRow
    <3>4. /\ Goto(p, "commit") /\ UNCHANGED <<rentals, day, call>>
          /\ \E car, dirty : Hold(p, car, row, dirty)
      BY <1>7, <2>2, <3>2 DEF FlushEnd, Write, tables
    <3> QED BY <1>6, <3>1, <3>3, <3>4
  <2> QED BY <2>1, <2>2
<1>8. CASE UpdateCar(p)
  <2>1. PICK v : v = UpdateVerdict(call[p], tx[p].car)
    OBVIOUS
  <2>2. CASE v # "ok"
    BY <1>8, <2>1, <2>2, RefuseEnters DEF UpdateCar
  <2>3. CASE v = "ok"
    <3>1. /\ Goto(p, "commit") /\ UNCHANGED <<rentals, day, call>> /\ call[p].op = "update"
          /\ \E car : Hold(p, car, NULL, ChangedColumns(call[p], tx[p].car))
      BY <1>8, <2>1, <2>3 DEF UpdateCar, Write, tables
    <3>2. "rental" \notin ChangedColumns(call[p], tx[p].car)
      BY DEF ChangedColumns
    <3> QED BY <1>6, <3>1, <3>2
  <2> QED BY <2>2, <2>3
<1>9. CASE Retire(p)
  <2>1. /\ Goto(p, "commit") /\ UNCHANGED <<rentals, day, call>>
        /\ \E car : Hold(p, car, NULL, {"fleet"})
    BY <1>9 DEF Retire, Write, tables
  <2>2. call[p].op = "delete"
    BY <1>0, <1>9 DEF Retire, Indexed
  <2> QED BY <1>6, <2>1, <2>2
<1>10. CASE InsertCar(p)
  <2>1. /\ Goto(p, "commit") /\ UNCHANGED <<rentals, day, call>> /\ call[p].op = "add"
        /\ \E car : Hold(p, car, NULL, CarColumns)
    BY <1>10 DEF InsertCar, Write, tables
  <2> QED BY <1>6, <2>1 DEF CarColumns
<1>11. CASE InsertRental(p)
  <2>1. CASE Refuse(p, "IntegrityError")
    BY <2>1, RefuseEnters
  <2>2. CASE ~Refuse(p, "IntegrityError")
    <3>1. /\ Goto(p, "markInUse") /\ UNCHANGED <<rentals, day, call>> /\ call[p].op = "register"
          /\ OpenRentals(call[p].car) = {} /\ ~IndexEntryPending(p)
          /\ Hold(p, tx[p].car, NewRental(p), {"rental"})
      BY <1>11, <2>2 DEF InsertRental, Write, NewRental, tables
    <3>2. NewRental(p) \in RentalRow
      BY <1>0, <3>1 DEF Indexed, NewRental, RentalRow
    <3> QED BY <1>6, <3>1, <3>2
  <2> QED BY <2>1, <2>2
<1>12. CASE MarkInUse(p)
  <2>1. /\ Goto(p, "commit") /\ UNCHANGED <<rentals, day, call>> /\ pc[p] = "markInUse"
        /\ \E car : Hold(p, car, tx[p].rental, {"rental", "status"})
    BY <1>12 DEF MarkInUse, Write, tables
  <2>2. /\ call[p].op = "register" /\ Pending(p) /\ tx[p].rental \in RentalRow \cup {NULL}
        /\ tx[p].rental = NewRental(p) /\ OpenRentals(call[p].car) = {}
    BY <1>0, <2>1 DEF Indexed, Pending
  <2> QED BY <1>6, <2>1, <2>2
<1>13. CASE Publish(p) \/ ReadBack(p)
  <2>1. PICK next \in {"readBack", "reply"} :
          Goto(p, next) /\ UNCHANGED <<rentals, day, call, tx>>
    BY <1>13 DEF Publish, ReadBack, tables
  <2> QED BY <2>1, GoesOn DEF PC, InTransaction
<1>14. CASE Reply(p)
  <2>1. /\ pc' \in [Request -> PC] /\ pc'[p] = "idle" /\ UNCHANGED <<rentals, day, tx>>
        /\ call'[p] = NoCall /\ call' \in [Request -> Call \cup {NoCall}]
        /\ \A q \in Request \ {p} : pc'[q] = pc[q] /\ call'[q] = call[q]
    BY <1>0, <1>14 DEF Reply, Goto, IndexTypes, PC, tables
  <2>2. NoCall.op = "none"
    BY DEF NoCall, Args
  <2> QED BY <1>0, <2>1, <2>2 DEF Enters, IndexTypes, Indexed, Pending
<1>15. CASE Abort(p)
  BY <1>15, RefuseEnters DEF Abort
<1> QED BY <1>1, <1>2, <1>3, <1>4, <1>5, <1>7, <1>8, <1>9, <1>10, <1>11, <1>12, <1>13, <1>14, <1>15
        DEF Serve

\* A commit puts at most one open rental into the tables, for a car that has
\* none and that nobody else has an entry for.
LEMMA CommitKeepsIndex ==
  ASSUME IndexInv, NEW p \in Request, Commit(p) \/ CommitUnacknowledged(p)
  PROVE  IndexInv'
<1>0. /\ IndexTypes /\ OneOpenRentalPerCar /\ OneEntryPerCar /\ \A q \in Request : Indexed(q)
      /\ pc[p] = "commit" /\ Apply(p) /\ CloseTx(p) /\ UNCHANGED call /\ day' = day
  BY DEF IndexInv, Commit, CommitUnacknowledged, Apply
<1>1. /\ pc' \in [Request -> PC] /\ pc'[p] \in {"publish", "reply"}
      /\ \A q \in Request \ {p} : pc'[q] = pc[q] /\ tx'[q] = tx[q]
      /\ tx' = [q \in Request |-> tx'[q]] /\ tx'[p] = NoTx
  BY <1>0 DEF Commit, CommitUnacknowledged, Goto, CloseTx, IndexTypes, PC
<1>2. \/ UNCHANGED rentals
      \/ rentals' = [rentals EXCEPT ![call[p].rental] = tx[p].rental]
  BY <1>0 DEF Apply
<1>3. "rental" \in tx[p].dirty =>
        \/ /\ Pending(p) /\ tx[p].rental = NewRental(p) /\ NewRental(p) \in RentalRow
           /\ OpenRentals(call[p].car) = {}
        \/ ~Pending(p) /\ tx[p].rental \in RentalRow /\ ~IsOpen(tx[p].rental)
  BY <1>0 DEF Indexed, Pending, NewRental, RentalRow, IsOpen
<1>4. rentals' \in [Rental -> RentalRow \cup {NULL}]
  BY <1>0, <1>3 DEF Apply, IndexTypes
<1>5. \A r \in Rental : IsOpen(rentals'[r]) =>
        \/ rentals'[r] = rentals[r]
        \/ r = call[p].rental /\ Pending(p) /\ rentals'[r].car = call[p].car
             /\ OpenRentals(call[p].car) = {}
  BY <1>0, <1>3 DEF Apply, IndexTypes, NewRental, IsOpen
<1>6. OneOpenRentalPerCar'
  <2> SUFFICES ASSUME NEW r \in Rental, NEW s \in Rental, IsOpen(rentals'[r]), IsOpen(rentals'[s]),
                      rentals'[r].car = rentals'[s].car
               PROVE  r = s
    BY DEF OneOpenRentalPerCar
  <2> QED BY <1>0, <1>5 DEF OneOpenRentalPerCar, OpenRentals
<1>7. ASSUME NEW q \in Request, Pending(q)'
      PROVE  /\ q # p /\ Pending(q) /\ call'[q] = call[q] /\ tx'[q] = tx[q]
             /\ OpenRentals(call[q].car)' = {}
  <2>1. q # p /\ Pending(q) /\ call'[q] = call[q] /\ tx'[q] = tx[q]
    BY <1>0, <1>1, <1>7 DEF Pending
  <2>2. OpenRentals(call[q].car) = {}
    BY <1>0, <2>1 DEF Indexed
  <2>3. Pending(p) => call[p].car # call[q].car
    BY <1>0, <2>1 DEF OneEntryPerCar
  <2>4. \A r \in Rental : IsOpen(rentals'[r]) => rentals'[r].car # call[q].car
    BY <1>5, <2>2, <2>3 DEF OpenRentals
  <2> QED BY <1>0, <2>1, <2>4 DEF OpenRentals
<1>8. OneEntryPerCar'
  BY <1>0, <1>7 DEF OneEntryPerCar
<1>9. ASSUME NEW q \in Request PROVE Indexed(q)'
  <2>1. CASE q = p
    BY <1>0, <1>1, <1>7, <2>1 DEF Indexed, NoTx
  <2>2. CASE q # p
    <3>1. pc'[q] = pc[q] /\ tx'[q] = tx[q] /\ call'[q] = call[q] /\ Indexed(q)
      BY <1>0, <1>1, <2>2
    <3>2. Pending(q)' => (tx[q].rental = NewRental(q) /\ OpenRentals(call[q].car) = {})'
      BY <1>7, <3>1 DEF Indexed, NewRental
    <3> QED BY <3>1, <3>2 DEF Indexed
  <2> QED BY <2>1, <2>2
<1>10. IndexTypes'
  BY <1>0, <1>1, <1>4 DEF IndexTypes
<1> QED BY <1>6, <1>8, <1>9, <1>10 DEF IndexInv

\* What the index promises is inductive, on either database.
LEMMA IndexInvariant == Spec => []IndexInv
<1>0. NoCall.op = "none"
  BY DEF NoCall, Args
<1>1. Init => IndexInv
  BY <1>0, FleetAssumption DEF Init, TablesInit, IndexInv, IndexTypes, OneOpenRentalPerCar,
     OneEntryPerCar, Indexed, Pending, IsOpen, NoTx, PC, Day
<1>2. IndexInv /\ [Next]_vars => IndexInv'
  <2> SUFFICES ASSUME IndexInv, [Next]_vars PROVE IndexInv'
    OBVIOUS
  <2>1. ASSUME NEW p \in Request, Arrive(p) \/ Serve(p) \/ CommitUnacknowledged(p) \/ Abort(p)
        PROVE  IndexInv'
    BY <2>1, StatementEnters, EntersKeepsIndex, CommitKeepsIndex
  <2>2. CASE Crash
    BY <1>0, <2>2 DEF Crash, IndexInv, IndexTypes, OneOpenRentalPerCar, OneEntryPerCar, Indexed,
       Pending, NoTx, PC, tables
  <2>3. CASE Tick \/ UNCHANGED vars
    <3>1. UNCHANGED <<rentals, pc, call, tx>> /\ day' \in Day
      BY <2>3, FleetAssumption DEF Tick, vars, IndexInv, IndexTypes, Day
    <3> QED BY <3>1 DEF IndexInv, IndexTypes, OneOpenRentalPerCar, OneEntryPerCar, Indexed, Pending,
       NewRental, OpenRentals
  <2> QED BY <2>1, <2>2, <2>3 DEF Next
<1> QED BY <1>1, <1>2, PTL DEF Spec

\* No car has two open rentals, on either database, whatever the row locks do:
\* the last thing standing on SQLite.
THEOREM IndexGuardsEveryCar == Spec => []OneOpenRentalPerCar
<1>1. IndexInv => OneOpenRentalPerCar
  BY DEF IndexInv
<1> QED BY <1>1, IndexInvariant, PTL

----------------------------------------------------------------------------
(* Who waits for whom, on PostgreSQL and on SQLite alike. *)

\* Every step of a request is one of these on pc: it moves on to a later statement.
MovesOn(p) ==
  \E next \in PC :
    /\ pc' = [pc EXCEPT ![p] = next]
    /\ StatementsLeft(p)' < StatementsLeft(p)

\* A refusal goes straight to the answer.
LEMMA RefuseMovesOn ==
  ASSUME NEW p \in Request, NEW e, pc \in [Request -> PC], pc[p] \in InTransaction, Refuse(p, e)
  PROVE  MovesOn(p)
BY DEF Refuse, MovesOn, PC, InTransaction, StatementsLeft

\* The statement after this one comes later in the route.
LEMMA GotoMovesOn ==
  ASSUME NEW p \in Request, pc \in [Request -> PC], NEW next \in PC, Goto(p, next),
         \/ pc[p] = "lookup" /\ next = "lockCar"
         \/ pc[p] = "lockCar" /\ next \in {"lockRental", "decide"}
         \/ pc[p] = "lockRental" /\ next = "flush"
         \/ pc[p] = "decide" /\ next \in {"insert", "retire", "commit"}
         \/ pc[p] = "insert" /\ next \in {"markInUse", "commit"}
         \/ pc[p] \in {"markInUse", "retire", "flush"} /\ next = "commit"
         \/ pc[p] = "commit" /\ next \in {"publish", "reply"}
         \/ pc[p] = "publish" /\ next \in {"readBack", "reply"}
         \/ pc[p] = "readBack" /\ next = "reply"
         \/ pc[p] = "reply" /\ next = "idle"
  PROVE  MovesOn(p)
<1>1. pc' = [pc EXCEPT ![p] = next] /\ pc'[p] = next
  BY DEF Goto
<1>2. /\ (pc[p] = "lookup" => StatementsLeft(p) = 10) /\ (pc[p] = "lockCar" => StatementsLeft(p) = 9)
      /\ (pc[p] = "decide" => StatementsLeft(p) = 8) /\ (pc[p] = "lockRental" => StatementsLeft(p) = 8)
      /\ (pc[p] = "insert" => StatementsLeft(p) = 7) /\ (pc[p] = "markInUse" => StatementsLeft(p) = 6)
      /\ (pc[p] = "retire" => StatementsLeft(p) = 5) /\ (pc[p] = "flush" => StatementsLeft(p) = 5)
      /\ (pc[p] = "commit" => StatementsLeft(p) = 4) /\ (pc[p] = "publish" => StatementsLeft(p) = 3)
      /\ (pc[p] = "readBack" => StatementsLeft(p) = 2) /\ (pc[p] = "reply" => StatementsLeft(p) = 1)
  BY DEF StatementsLeft
<1>3. /\ (next = "lockCar" => StatementsLeft(p)' = 9) /\ (next = "decide" => StatementsLeft(p)' = 8)
      /\ (next = "lockRental" => StatementsLeft(p)' = 8) /\ (next = "insert" => StatementsLeft(p)' = 7)
      /\ (next = "markInUse" => StatementsLeft(p)' = 6) /\ (next = "retire" => StatementsLeft(p)' = 5)
      /\ (next = "flush" => StatementsLeft(p)' = 5) /\ (next = "commit" => StatementsLeft(p)' = 4)
      /\ (next = "publish" => StatementsLeft(p)' = 3) /\ (next = "readBack" => StatementsLeft(p)' = 2)
      /\ (next = "reply" => StatementsLeft(p)' = 1) /\ (next = "idle" => StatementsLeft(p)' = 0)
  BY <1>1 DEF StatementsLeft
<1>4. StatementsLeft(p)' < StatementsLeft(p)
  BY <1>2, <1>3
<1> QED BY <1>1, <1>4 DEF MovesOn

\* So no statement of a request is sent twice, and no answer leads back.
LEMMA ServeMovesOn ==
  ASSUME NEW p \in Request, pc \in [Request -> PC],
         Serve(p) \/ CommitUnacknowledged(p) \/ Abort(p)
  PROVE  MovesOn(p)
<1> USE RefuseMovesOn, GotoMovesOn DEF PC, InTransaction
<1>1. CASE Lookup(p)
  BY <1>1 DEF Lookup
<1>2. CASE LockCar(p)
  BY <1>2 DEF LockCar
<1>3. CASE LockRental(p)
  BY <1>3 DEF LockRental
<1>4. CASE FlushEnd(p)
  BY <1>4 DEF FlushEnd
<1>5. CASE UpdateCar(p)
  BY <1>5 DEF UpdateCar
<1>6. CASE CheckAvailable(p) \/ CheckNotOut(p)
  BY <1>6 DEF CheckAvailable, CheckNotOut, Decide
<1>7. CASE Retire(p) \/ InsertCar(p) \/ MarkInUse(p)
  BY <1>7 DEF Retire, InsertCar, MarkInUse
<1>8. CASE InsertRental(p)
  BY <1>8 DEF InsertRental
<1>9. CASE Commit(p) \/ CommitUnacknowledged(p)
  BY <1>9 DEF Commit, CommitUnacknowledged
<1>10. CASE Publish(p) \/ ReadBack(p) \/ Reply(p)
  BY <1>10 DEF Publish, ReadBack, Reply
<1>11. CASE Abort(p)
  BY <1>11 DEF Abort
<1> QED BY <1>1, <1>2, <1>3, <1>4, <1>5, <1>6, <1>7, <1>8, <1>9, <1>10, <1>11 DEF Serve

\* A request that has arrived comes nearer to its answer with every step of its
\* own, keeps its place with every step of another, and only a crash ends it.
THEOREM ServiceRequestsOnlyMoveOn == Spec => RequestsOnlyMoveOn
<1>1. IndexInv /\ [Next]_vars =>
        [\A p \in Request :
           pc[p] # "idle" /\ pc'[p] # pc[p] => StatementsLeft(p)' < StatementsLeft(p)]_vars
  <2> SUFFICES ASSUME IndexInv, [Next]_vars, NEW q \in Request, pc[q] # "idle", pc'[q] # pc[q]
               PROVE  StatementsLeft(q)' < StatementsLeft(q)
    OBVIOUS
  <2>1. pc \in [Request -> PC]
    BY DEF IndexInv, IndexTypes
  <2>2. ASSUME NEW p \in Request, Arrive(p) PROVE FALSE
    <3>1. pc[p] = "idle" /\ \E first : pc' = [pc EXCEPT ![p] = first]
      BY <2>2 DEF Arrive, BeginAdd, BeginUpdate, BeginDelete, BeginRegister, RefuseStartDate,
         BeginEnd, Begin
    <3> QED BY <2>1, <3>1
  <2>3. ASSUME NEW p \in Request, Serve(p) \/ CommitUnacknowledged(p) \/ Abort(p)
        PROVE  StatementsLeft(q)' < StatementsLeft(q)
    <3>1. MovesOn(p)
      BY <2>1, <2>3, ServeMovesOn
    <3> QED BY <2>1, <3>1 DEF MovesOn
  <2>4. CASE Crash
    BY <2>1, <2>4 DEF Crash, StatementsLeft, PC, InTransaction
  <2>5. CASE Tick \/ UNCHANGED vars
    BY <2>5 DEF Tick, vars
  <2> QED BY <2>2, <2>3, <2>4, <2>5 DEF Next
<1> QED BY <1>1, IndexInvariant, PTL DEF Spec, RequestsOnlyMoveOn

\* Whatever q holds, it holds in the middle of its transaction: the car from its
\* locked read on, the rental while it ends it, SQLite's writer lock while a
\* statement of a registration, or a commit, is still to come.
HoldsOK(q) ==
  /\ \A c \in Car : carLock[c] = q =>
       /\ RowLocks /\ call[q].car = c /\ call[q].op # "add"
       /\ pc[q] \in InTransaction \ {"lookup", "lockCar"}
  /\ \A r \in Rental : rentalLock[r] = q =>
       /\ RowLocks /\ call[q].op = "end" /\ call[q].rental = r
       /\ pc[q] \in {"flush", "commit"}
  /\ writer = q => ~RowLocks /\ pc[q] \in {"markInUse", "commit"}
  /\ ~RowLocks /\ pc[q] = "markInUse" => writer = q
  /\ pc[q] = "lockCar" => call[q].car \in Car /\ call[q].op # "add"

LocksOK ==
  /\ carLock \in [Car -> Request \cup {NULL}]
  /\ rentalLock \in [Rental -> Request \cup {NULL}]
  /\ writer \in Request \cup {NULL}
  /\ \A q \in Request : HoldsOK(q)

\* A step of p that keeps p's locks in order and takes none from the others.
LocksInOrder(p) ==
  /\ carLock' \in [Car -> Request \cup {NULL}]
  /\ rentalLock' \in [Rental -> Request \cup {NULL}]
  /\ writer' \in Request \cup {NULL}
  /\ HoldsOK(p)'
  /\ \A q \in Request \ {p} :
       /\ pc'[q] = pc[q] /\ call'[q] = call[q] /\ (writer' = q) = (writer = q)
       /\ \A c \in Car : carLock'[c] = q => carLock[c] = q
       /\ \A r \in Rental : rentalLock'[r] = q => rentalLock[r] = q

LEMMA InOrderKeepsLocks ==
  ASSUME LocksOK, NEW p \in Request, LocksInOrder(p)
  PROVE  LocksOK'
<1>1. ASSUME NEW q \in Request \ {p} PROVE HoldsOK(q)'
  BY DEF LocksOK, LocksInOrder, HoldsOK
<1> QED BY <1>1 DEF LocksOK, LocksInOrder

\* Whoever leaves its transaction, by COMMIT or by ROLLBACK, holds nothing.
LEMMA ClosingKeepsLocks ==
  ASSUME LocksOK, NEW p \in Request, CloseTx(p), UNCHANGED call, NEW next \in {"publish", "reply"},
         pc \in [Request -> PC], pc' = [pc EXCEPT ![p] = next]
  PROVE  LocksInOrder(p)
<1>1. /\ pc'[p] \notin InTransaction /\ writer' # p
      /\ \A q \in Request \ {p} : pc'[q] = pc[q]
      /\ \A c \in Car : carLock'[c] # p
      /\ \A r \in Rental : rentalLock'[r] # p
  BY ServiceAssumption DEF CloseTx, InTransaction
<1>2. HoldsOK(p)'
  BY <1>1 DEF HoldsOK, InTransaction
<1> QED BY <1>1, <1>2, ServiceAssumption DEF CloseTx, LocksOK, LocksInOrder

LEMMA RefusingKeepsLocks ==
  ASSUME LocksOK, NEW p \in Request, NEW e, pc \in [Request -> PC], Refuse(p, e)
  PROVE  LocksInOrder(p)
BY ClosingKeepsLocks DEF Refuse

\* A statement that takes and releases nothing.
LEMMA LocklessKeepsLocks ==
  ASSUME LocksOK, NEW p \in Request, NEW next \in PC \ {"markInUse"}, UNCHANGED locks,
         pc \in [Request -> PC], pc' = [pc EXCEPT ![p] = next],
         \A q \in Request \ {p} : call'[q] = call[q],
         next = "lockCar" => call'[p].car \in Car /\ call'[p].op # "add",
         \/ pc[p] \in {"idle", "lookup", "lockCar", "publish", "readBack", "reply"}
         \/ /\ pc[p] \in {"decide", "insert", "retire"} /\ UNCHANGED call
            /\ next \in InTransaction \ {"lookup", "lockCar"}
  PROVE  LocksInOrder(p)
<1>1. pc'[p] = next /\ \A q \in Request \ {p} : pc'[q] = pc[q]
  OBVIOUS
<1>2. HoldsOK(p)
  BY DEF LocksOK
<1>3. /\ pc[p] \notin {"flush", "commit", "markInUse"}
      /\ ~UNCHANGED call => pc[p] \notin InTransaction \ {"lookup", "lockCar"}
  BY DEF InTransaction
<1>4. HoldsOK(p)'
  BY <1>1, <1>2, <1>3 DEF HoldsOK, InTransaction, locks
<1> QED BY <1>1, <1>4 DEF LocksOK, LocksInOrder, locks

\* A flushed write takes SQLite's writer lock and no other.
LEMMA WritingKeepsLocks ==
  ASSUME LocksOK, NEW p \in Request, Write(p), pc \in [Request -> PC],
         NEW next \in {"markInUse", "commit"}, Goto(p, next),
         pc[p] \in {"decide", "insert", "markInUse", "retire", "flush"},
         next = "markInUse" => pc[p] = "insert"
  PROVE  LocksInOrder(p)
<1>1. pc'[p] = next /\ \A q \in Request \ {p} : pc'[q] = pc[q]
  BY DEF Goto
<1>2. HoldsOK(p)
  BY DEF LocksOK
<1>3. /\ UNCHANGED <<call, carLock, rentalLock>> /\ MayWrite(p)
      /\ writer' = IF RowLocks THEN writer ELSE p
  BY DEF Write
<1>4. HoldsOK(p)'
  BY <1>1, <1>2, <1>3 DEF HoldsOK, InTransaction
<1>5. \A q \in Request \ {p} : (writer' = q) = (writer = q)
  BY <1>3, ServiceAssumption DEF MayWrite
<1> QED BY <1>1, <1>3, <1>4, <1>5 DEF LocksOK, LocksInOrder

\* Every statement keeps the locks in order.
LEMMA StatementsKeepLocks ==
  ASSUME IndexInv, LocksOK, NEW p \in Request,
         Arrive(p) \/ Serve(p) \/ CommitUnacknowledged(p) \/ Abort(p)
  PROVE  LocksInOrder(p)
<1>0. /\ IndexTypes /\ pc \in [Request -> PC] /\ Indexed(p)
      /\ call \in [Request -> Call \cup {NoCall}]
  BY DEF IndexInv, IndexTypes
<1> USE <1>0 DEF PC, InTransaction
<1>1. CASE Arrive(p)
  <2>1. PICK new \in Call, first \in {"insert", "lockCar", "reply", "lookup"} :
          Begin(p, new, first) /\ (first = "lockCar" => new.car \in Car /\ new.op # "add")
    <3> USE DEF IndexTypes, Call, Args, Op
    <3>1. CASE BeginAdd(p)
      BY <3>1 DEF BeginAdd
    <3>2. CASE BeginUpdate(p)
      BY <3>2 DEF BeginUpdate
    <3>3. CASE BeginDelete(p)
      BY <3>3 DEF BeginDelete
    <3>4. CASE BeginRegister(p)
      BY <3>4 DEF BeginRegister
    <3>5. CASE RefuseStartDate(p)
      BY <3>5 DEF RefuseStartDate
    <3>6. CASE BeginEnd(p)
      BY <3>6 DEF BeginEnd
    <3> QED BY <1>1, <3>1, <3>2, <3>3, <3>4, <3>5, <3>6 DEF Arrive
  <2>2. /\ pc[p] = "idle" /\ call' = [call EXCEPT ![p] = new] /\ pc' = [pc EXCEPT ![p] = first]
        /\ UNCHANGED locks /\ call'[p] = new
    BY <2>1 DEF Begin
  <2> QED BY <2>1, <2>2, LocklessKeepsLocks
<1>2. CASE Lookup(p)
  <2>1. CASE Refuse(p, "RentalNotFoundError")
    BY <2>1, RefusingKeepsLocks
  <2>2. CASE ~Refuse(p, "RentalNotFoundError")
    <3>1. PICK row : row = rentals[call[p].rental]
      OBVIOUS
    <3>2. /\ row # NULL /\ pc[p] = "lookup" /\ call' = [call EXCEPT ![p].car = row.car]
          /\ Goto(p, "lockCar") /\ UNCHANGED locks
      BY <1>2, <2>2, <3>1 DEF Lookup
    <3>3. row.car \in Car
      BY <3>1, <3>2 DEF IndexTypes, RentalRow, Indexed
    <3>4. call[p] \in Call
      BY <3>2 DEF Indexed, NoCall, Args
    <3>5. call'[p].car = row.car /\ call'[p].op = "end"
      BY <3>2, <3>4 DEF Call, Indexed
    <3> QED BY <3>2, <3>3, <3>5, LocklessKeepsLocks DEF Goto
  <2> QED BY <2>1, <2>2
<1>3. CASE LockCar(p)
  <2>1. CASE Refuse(p, "CarNotFoundError")
    BY <2>1, RefusingKeepsLocks
  <2>2. CASE ~Refuse(p, "CarNotFoundError")
    <3>1. PICK next \in {"lockRental", "decide"} : Goto(p, next)
      BY <1>3, <2>2 DEF LockCar
    <3>2. PICK c \in Car : c = call[p].car
      BY <1>3 DEF LockCar, LocksOK, HoldsOK
    <3>3. /\ pc[p] = "lockCar" /\ UNCHANGED <<call, rentalLock, writer>>
          /\ RowLocks => carLock[c] = NULL
          /\ carLock' = IF RowLocks THEN [carLock EXCEPT ![c] = p] ELSE carLock
      BY <1>3, <2>2, <3>2 DEF LockCar
    <3>4. pc'[p] = next /\ \A q \in Request \ {p} : pc'[q] = pc[q]
      BY <3>1 DEF Goto
    <3>5. HoldsOK(p)
      BY DEF LocksOK
    <3>6. \A d \in Car : carLock'[d] = p => RowLocks /\ d = c
      BY <3>3, <3>5 DEF HoldsOK, LocksOK
    <3>7. HoldsOK(p)'
      BY <3>2, <3>3, <3>4, <3>5, <3>6 DEF HoldsOK
    <3>8. \A q \in Request \ {p}, d \in Car : carLock'[d] = q => carLock[d] = q
      BY <3>3 DEF LocksOK
    <3> QED BY <3>3, <3>4, <3>7, <3>8 DEF LocksOK, LocksInOrder
  <2> QED BY <2>1, <2>2
<1>4. CASE LockRental(p)
  <2>1. CASE \E v : Refuse(p, v)
    BY <2>1, RefusingKeepsLocks
  <2>2. CASE ~\E v : Refuse(p, v)
    <3>1. PICK r \in Rental : r = call[p].rental /\ call[p].op = "end"
      BY <1>4 DEF LockRental, Indexed
    <3>2. /\ pc[p] = "lockRental" /\ Goto(p, "flush") /\ UNCHANGED <<call, carLock, writer>>
          /\ rentalLock' = IF RowLocks THEN [rentalLock EXCEPT ![r] = p] ELSE rentalLock
      BY <1>4, <2>2, <3>1 DEF LockRental
    <3>3. pc'[p] = "flush" /\ \A q \in Request \ {p} : pc'[q] = pc[q]
      BY <3>2 DEF Goto
    <3>4. HoldsOK(p)
      BY DEF LocksOK
    <3>5. \A s \in Rental : rentalLock'[s] = p => RowLocks /\ s = r
      BY <3>2, <3>4 DEF HoldsOK, LocksOK
    <3>6. HoldsOK(p)'
      BY <3>1, <3>2, <3>3, <3>4, <3>5 DEF HoldsOK
    <3>7. \A q \in Request \ {p}, s \in Rental : rentalLock'[s] = q => rentalLock[s] = q
      BY <3>2 DEF LocksOK
    <3> QED BY <3>2, <3>3, <3>6, <3>7 DEF LocksOK, LocksInOrder
  <2> QED BY <2>1, <2>2
<1>5. CASE FlushEnd(p) \/ Retire(p) \/ InsertCar(p) \/ InsertRental(p) \/ MarkInUse(p)
  <2>1. CASE \E v : Refuse(p, v)
    BY <2>1, RefusingKeepsLocks
  <2>2. CASE ~\E v : Refuse(p, v)
    <3>1. PICK next \in {"markInUse", "commit"} :
            /\ Write(p) /\ Goto(p, next) /\ pc[p] \in {"insert", "markInUse", "retire", "flush"}
            /\ next = "markInUse" => pc[p] = "insert"
      BY <1>5, <2>2 DEF FlushEnd, Retire, InsertCar, InsertRental, MarkInUse
    <3> QED BY <3>1, WritingKeepsLocks
  <2> QED BY <2>1, <2>2
<1>6. CASE UpdateCar(p)
  <2>1. CASE \E v : Refuse(p, v)
    BY <2>1, RefusingKeepsLocks
  <2>2. CASE ~\E v : Refuse(p, v)
    <3>1. pc[p] = "decide" /\ Goto(p, "commit") /\ (UNCHANGED <<call, locks>> \/ Write(p))
      BY <1>6, <2>2 DEF UpdateCar
    <3>2. CASE Write(p)
      BY <3>1, <3>2, WritingKeepsLocks
    <3>3. CASE UNCHANGED <<call, locks>>
      BY <3>1, <3>3, LocklessKeepsLocks DEF Goto
    <3> QED BY <3>1, <3>2, <3>3
  <2> QED BY <2>1, <2>2
<1>7. CASE CheckAvailable(p) \/ CheckNotOut(p)
  <2>1. CASE \E v : Refuse(p, v)
    BY <2>1, RefusingKeepsLocks
  <2>2. CASE ~\E v : Refuse(p, v)
    <3>1. PICK next \in {"insert", "retire"} :
            pc[p] = "decide" /\ Goto(p, next) /\ UNCHANGED <<call, locks>>
      BY <1>7, <2>2 DEF CheckAvailable, CheckNotOut, Decide
    <3> QED BY <3>1, LocklessKeepsLocks DEF Goto
  <2> QED BY <2>1, <2>2
<1>8. CASE Commit(p) \/ CommitUnacknowledged(p)
  <2>1. PICK next \in {"publish", "reply"} : CloseTx(p) /\ Goto(p, next) /\ UNCHANGED call
    BY <1>8 DEF Commit, CommitUnacknowledged
  <2> QED BY <2>1, ClosingKeepsLocks DEF Goto
<1>9. CASE Publish(p) \/ ReadBack(p) \/ Reply(p)
  <2>1. PICK next \in {"readBack", "reply", "idle"} :
          /\ pc[p] \in {"publish", "readBack", "reply"} /\ Goto(p, next) /\ UNCHANGED locks
          /\ \A q \in Request \ {p} : call'[q] = call[q]
    BY <1>9 DEF Publish, ReadBack, Reply
  <2> QED BY <2>1, LocklessKeepsLocks DEF Goto
<1>10. CASE Abort(p)
  BY <1>10, RefusingKeepsLocks DEF Abort
<1> QED BY <1>1, <1>2, <1>3, <1>4, <1>5, <1>6, <1>7, <1>8, <1>9, <1>10 DEF Serve

LEMMA LocksInvariant == Spec => [](IndexInv /\ LocksOK)
<1>1. Init => LocksOK
  BY ServiceAssumption DEF Init, LocksOK, HoldsOK
<1>2. IndexInv /\ LocksOK /\ [Next]_vars => LocksOK'
  <2> SUFFICES ASSUME IndexInv, LocksOK, [Next]_vars PROVE LocksOK'
    OBVIOUS
  <2>1. ASSUME NEW p \in Request, Arrive(p) \/ Serve(p) \/ CommitUnacknowledged(p) \/ Abort(p)
        PROVE  LocksOK'
    BY <2>1, StatementsKeepLocks, InOrderKeepsLocks
  <2>2. CASE Crash
    BY <2>2, ServiceAssumption DEF Crash, LocksOK, HoldsOK
  <2>3. CASE Tick \/ UNCHANGED vars
    BY <2>3 DEF Tick, vars, locks, LocksOK, HoldsOK
  <2> QED BY <2>1, <2>2, <2>3 DEF Next
<1> QED BY <1>1, <1>2, IndexInvariant, PTL DEF Spec

\* Two transactions past their car locks on one car are the same transaction, and
\* the rental that one of them ends is a rental of that car.
LEMMA OneHolderPerCar ==
  ASSUME ServiceInv, NEW p \in Request, NEW q \in Request, PastCarLock(p), PastCarLock(q),
         call[p].car = call[q].car
  PROVE  p = q
BY DEF ServiceInv, RequestOK, CarLocked

\* On PostgreSQL: the holder of a car lock never waits again.  The rental it goes
\* on to lock is a rental of this car, and nobody else is past this car's lock.
LEMMA CarHoldersDoNotWait ==
  ASSUME RowLocks, ServiceInv, LocksOK, NEW q \in Request, PastCarLock(q),
         NEW s \in Request, WaitsFor(q, s)
  PROVE  FALSE
<1>1. /\ HoldsOK(s) /\ writer # s /\ pc[q] # "lockCar"
      /\ IdsOK(q) /\ IdsOK(s) /\ ArgumentsOK(q) /\ call[q].op # "add"
  BY Here DEF LocksOK, HoldsOK, PastCarLock
<1>2. CASE pc[q] = "lockRental" /\ rentalLock[call[q].rental] = s
  <2>1. call[q].op = "end"
    BY <1>2, Place
  <2>2. call[s].op = "end" /\ call[s].rental = call[q].rental /\ pc[s] \in {"flush", "commit"}
    BY <1>1, <1>2, <2>1 DEF HoldsOK, ArgumentsOK
  <2>3. PastCarLock(s) /\ call[s].car = call[q].car
    BY <1>1, <1>2, <2>1, <2>2 DEF PastCarLock, IdsOK, InTransaction
  <2> QED BY <1>2, <2>2, <2>3, OneHolderPerCar
<1>3. CASE s # q /\ HasIndexEntry(s, call[q].car)
  <2>1. PastCarLock(s) /\ call[s].car = call[q].car
    BY <1>3 DEF HasIndexEntry, PastCarLock, InTransaction
  <2> QED BY <1>3, <2>1, OneHolderPerCar
<1> QED BY <1>1, <1>2, <1>3 DEF WaitsFor

\* In PostgreSQL a request is waited for because it holds a car's lock.
LEMMA RowWaitsAreShort ==
  ASSUME RowLocks, ServiceInv, LocksOK
  PROVE  WaitsAreShort
<1> SUFFICES ASSUME NEW p \in Request, NEW q \in Request, WaitsFor(p, q)
             PROVE  PastCarLock(q)
  BY CarHoldersDoNotWait DEF WaitsAreShort, PastCarLock
<1>1. HoldsOK(q) /\ writer # q /\ ServiceInv
  BY DEF LocksOK, HoldsOK
<1>2. CASE pc[p] = "lockCar" /\ carLock[call[p].car] = q
  <2>1. call[p].car \in Car
    BY <1>2 DEF LocksOK, HoldsOK
  <2> QED BY <1>1, <1>2, <2>1 DEF HoldsOK, PastCarLock
<1>3. CASE pc[p] = "lockRental" /\ rentalLock[call[p].rental] = q
  <2>1. call[p].rental \in Rental
    BY <1>3, Place, Here DEF ArgumentsOK
  <2> QED BY <1>1, <1>3, <2>1 DEF HoldsOK, PastCarLock, InTransaction
<1>4. CASE HasIndexEntry(q, call[p].car)
  BY <1>4 DEF HasIndexEntry, PastCarLock, InTransaction
<1> QED BY <1>1, <1>2, <1>3, <1>4 DEF WaitsFor

\* On SQLite only the writer is waited for, and it waits for nobody.
LEMMA WriterWaitsAreShort ==
  ASSUME ~RowLocks, IndexInv, LocksOK
  PROVE  WaitsAreShort
<1> SUFFICES ASSUME NEW p \in Request, NEW q \in Request, WaitsFor(p, q)
             PROVE  writer = q \/ pc[q] = "commit"
  <2>1. ASSUME NEW q \in Request, writer = q \/ pc[q] = "commit", NEW s \in Request
        PROVE  ~WaitsFor(q, s) /\ pc[q] \in InTransaction
    BY <2>1 DEF LocksOK, HoldsOK, WaitsFor, InTransaction
  <2> QED BY <2>1 DEF WaitsAreShort
<1>1. HoldsOK(q) /\ HoldsOK(p)
  BY DEF LocksOK
<1>2. ~(pc[p] = "lockCar" /\ carLock[call[p].car] = q)
  BY <1>1 DEF HoldsOK
<1>3. ~(pc[p] = "lockRental" /\ rentalLock[call[p].rental] = q)
  BY <1>1 DEF HoldsOK, IndexInv, Indexed
<1>4. HasIndexEntry(q, call[p].car) => writer = q \/ pc[q] = "commit"
  BY <1>1 DEF HasIndexEntry, HoldsOK
<1> QED BY <1>2, <1>3, <1>4 DEF WaitsFor

\* No two requests ever wait for each other, on either database, however many
\* requests, cars and rentals there are: no deadlock, and no wait of a waiter.
THEOREM ServiceWaitsAreShort == Spec => []WaitsAreShort
<1>1. CASE RowLocks
  BY <1>1, RowWaitsAreShort, ServiceInvariant, LocksInvariant, PTL
<1>2. CASE ~RowLocks
  BY <1>2, WriterWaitsAreShort, LocksInvariant, PTL
<1> QED BY <1>1, <1>2

----------------------------------------------------------------------------
(* What the sessions hold, and what is never undone, on PostgreSQL and on   *)
(* SQLite alike.  A copy may be stale here; that it is a row, and of the     *)
(* same car and rental as the stored one, needs no lock.                     *)

\* From its read of the car to its end, an operation on an existing car.
OnStoredCar(p) == call[p].op # "add" /\ pc[p] \in InTransaction \ {"lookup", "lockCar"}

StoredCar(p) == call[p].car \in Car /\ cars[call[p].car] # NULL

\* The copy of a rental that is being ended is a copy of the stored one.
SameRental(p) ==
  /\ rentals[call[p].rental] # NULL
  /\ tx[p].rental.car = rentals[call[p].rental].car
  /\ tx[p].rental.start = rentals[call[p].rental].start

SessionOK(p) ==
  /\ call[p].op = "add" => call[p].details \in Details
  /\ call[p].op = "add" /\ pc[p] \in InTransaction =>
        call[p].car \in Car /\ cars[call[p].car] = NULL
  /\ call[p].op = "register" /\ pc[p] \in InTransaction =>
        call[p].rental \in Rental /\ rentals[call[p].rental] = NULL
  /\ OnStoredCar(p) => tx[p].car \in CarRow /\ StoredCar(p)
  /\ pc[p] = "flush" => SameRental(p)
  /\ pc[p] = "commit" =>
       /\ tx[p].dirty \cap CarColumns # {} => tx[p].car \in CarRow
       /\ "fleet" \in tx[p].dirty => call[p].op = "add" \/ tx[p].car.fleet = "retired"
       /\ "rental" \in tx[p].dirty => call[p].op \in {"register", "end"}
       /\ call[p].op = "end" => SameRental(p)

SessionInv == TypeOK /\ IdsDistinct /\ \A p \in Request : SessionOK(p)

\* A step of p that commits nothing.
SessionStep(p) ==
  /\ UNCHANGED <<cars, rentals>>
  /\ tx' \in [Request -> Tx] /\ answer' \in [Request -> Answer \cup {NULL}]
  /\ \A q \in Request \ {p} : pc'[q] = pc[q] /\ call'[q] = call[q] /\ tx'[q] = tx[q]
  /\ IdsDistinct' /\ SessionOK(p)'

LEMMA SessionStepKeeps ==
  ASSUME SessionInv, NEW p \in Request, SessionStep(p), IndexInv', LocksOK'
  PROVE  SessionInv'
<1>1. TypeOK'
  BY DEF SessionInv, SessionStep, TypeOK, TablesOK, IndexInv, IndexTypes, LocksOK
<1>2. ASSUME NEW q \in Request \ {p} PROVE SessionOK(q)'
  BY DEF SessionInv, SessionStep, SessionOK, OnStoredCar, StoredCar, SameRental
<1> QED BY <1>1, <1>2 DEF SessionInv, SessionStep

\* What p starts from.
LEMMA HereAnywhere ==
  ASSUME SessionInv, IndexInv, NEW p \in Request
  PROVE  /\ TypeOK /\ IdsDistinct /\ SessionOK(p) /\ Indexed(p)
         /\ pc[p] \in PC /\ tx[p] \in Tx /\ call[p] \in Call \cup {NoCall}
         /\ tx[p].car \in CarRow \cup {NULL} /\ tx[p].rental \in RentalRow \cup {NULL}
BY DEF SessionInv, TypeOK, IndexInv, Tx

\* Only an arrival draws an id.
LEMMA IdsStay ==
  ASSUME SessionInv, NEW p \in Request, \A q \in Request \ {p} : call'[q] = call[q],
         call'[p] = call[p] \/ call'[p].op \notin {"add", "register"}
  PROVE  IdsDistinct'
BY DEF SessionInv, IdsDistinct

\* A refusal keeps nothing in the session.
LEMMA RefusalSession ==
  ASSUME SessionInv, NEW p \in Request, NEW e \in Answer, Refuse(p, e)
  PROVE  SessionStep(p)
<1>0. TypeOK /\ SessionOK(p)
  BY DEF SessionInv
<1>1. /\ UNCHANGED <<cars, rentals, call>> /\ pc'[p] = "reply"
      /\ \A q \in Request \ {p} : pc'[q] = pc[q]
  BY <1>0 DEF Refuse, tables, TypeOK
<1>2. tx' \in [Request -> Tx] /\ \A q \in Request \ {p} : tx'[q] = tx[q]
  BY <1>0, CloseTxStep DEF Refuse
<1>3. answer' \in [Request -> Answer \cup {NULL}]
  BY <1>0, AnswerStep DEF Refuse
<1>4. SessionOK(p)'
  BY <1>0, <1>1 DEF SessionOK, OnStoredCar, InTransaction
<1> QED BY <1>1, <1>2, <1>3, <1>4, IdsStay DEF SessionStep

\* A statement that leaves the arguments alone, and what it must leave in the session.
LEMMA StatementSession ==
  ASSUME SessionInv, NEW p \in Request, NEW next \in InTransaction \ {"lookup", "lockCar"},
         Goto(p, next), UNCHANGED <<tables, call, answer>>, pc[p] \in InTransaction,
         tx' \in [Request -> Tx], \A q \in Request \ {p} : tx'[q] = tx[q],
         call[p].op # "add" => tx'[p].car \in CarRow /\ StoredCar(p),
         next = "flush" => SameRental(p)',
         next = "commit" =>
           /\ tx'[p].car \in CarRow
           /\ "fleet" \in tx'[p].dirty => call[p].op = "add" \/ tx'[p].car.fleet = "retired"
           /\ "rental" \in tx'[p].dirty => call[p].op \in {"register", "end"}
           /\ call[p].op = "end" => SameRental(p)'
  PROVE  SessionStep(p)
<1>0. TypeOK /\ SessionOK(p)
  BY DEF SessionInv
<1>1. pc'[p] = next /\ \A q \in Request \ {p} : pc'[q] = pc[q]
  BY <1>0 DEF Goto, TypeOK
<1>2. SessionOK(p)'
  BY <1>0, <1>1 DEF SessionOK, OnStoredCar, StoredCar, tables
<1>3. answer' \in [Request -> Answer \cup {NULL}]
  BY <1>0 DEF TypeOK
<1> QED BY <1>1, <1>2, <1>3, IdsStay DEF SessionStep, tables

\* Arrivals draw fresh ids and hold nothing yet.
LEMMA ArrivalSession ==
  ASSUME SessionInv, IndexInv, NEW p \in Request, Arrive(p)
  PROVE  SessionStep(p)
<1> USE FleetAssumption, ServiceAssumption
<1>0. TypeOK /\ IdsDistinct /\ SessionOK(p)
  BY HereAnywhere
<1>1. ASSUME NEW new, NEW first \in {"insert", "lockCar", "lookup", "reply"},
             Begin(p, new, first), answer' \in [Request -> Answer \cup {NULL}],
             new.op = "add" =>
               first = "insert" /\ new.details \in Details /\ new.car \in Car /\ FreshCar(new.car),
             first = "insert" => new.op = "add",
             new.op = "register" =>
               \/ new.rental \in Rental /\ FreshRental(new.rental)
               \/ new.rental = NULL /\ first = "reply"
      PROVE  SessionStep(p)
  <2>1. /\ call'[p] = new /\ pc'[p] = first /\ UNCHANGED <<cars, rentals, tx>>
        /\ \A q \in Request \ {p} : call'[q] = call[q] /\ pc'[q] = pc[q]
    BY <1>0, <1>1 DEF Begin, TypeOK, tables
  <2>2. IdsDistinct'
    BY <1>0, <1>1, <2>1 DEF IdsDistinct, FreshCar, FreshRental
  <2>3. SessionOK(p)'
    BY <1>1, <2>1 DEF SessionOK, OnStoredCar, FreshCar, FreshRental, InTransaction
  <2> QED BY <1>0, <1>1, <2>1, <2>2, <2>3 DEF SessionStep, TypeOK
<1>2. answer' = answer => answer' \in [Request -> Answer \cup {NULL}]
  BY <1>0 DEF TypeOK
<1>3. CASE BeginAdd(p)
  BY <1>1, <1>2, <1>3 DEF BeginAdd, Args
<1>4. CASE BeginUpdate(p) \/ BeginDelete(p)
  BY <1>1, <1>2, <1>4 DEF BeginUpdate, BeginDelete, Args
<1>5. CASE BeginRegister(p)
  BY <1>1, <1>2, <1>5 DEF BeginRegister, Args
<1>6. CASE RefuseStartDate(p)
  <2>1. answer' \in [Request -> Answer \cup {NULL}]
    BY <1>0, <1>6, AnswerStep DEF RefuseStartDate, Answer, DomainError
  <2> QED BY <1>1, <1>6, <2>1 DEF RefuseStartDate, Args
<1>7. CASE BeginEnd(p)
  BY <1>1, <1>2, <1>7 DEF BeginEnd, Args
<1> QED BY <1>3, <1>4, <1>5, <1>6, <1>7 DEF Arrive

\* A read or a write that commits nothing leaves a row of the right kind in the session.
LEMMA ServeSession ==
  ASSUME SessionInv, IndexInv, LocksOK, NEW p \in Request, Serve(p) \/ Abort(p), ~Commit(p)
  PROVE  SessionStep(p)
<1> USE FleetAssumption, ServiceAssumption
<1>0. /\ TypeOK /\ SessionOK(p) /\ Indexed(p) /\ HoldsOK(p) /\ pc \in [Request -> PC]
      /\ tx[p] \in Tx /\ call[p] \in Call \cup {NoCall}
      /\ tx[p].car \in CarRow \cup {NULL} /\ tx[p].rental \in RentalRow \cup {NULL}
      /\ cars \in [Car -> CarRow \cup {NULL}] /\ rentals \in [Rental -> RentalRow \cup {NULL}]
  BY HereAnywhere DEF LocksOK, TypeOK, TablesOK
<1>1. CASE \E e \in Answer : Refuse(p, e)
  BY <1>1, RefusalSession
<1>2. CASE Lookup(p)
  <2>1. CASE rentals[call[p].rental] = NULL
    BY <1>1, <1>2, <2>1 DEF Lookup, Answer, DomainError
  <2>2. CASE rentals[call[p].rental] # NULL
    <3>1. PICK row \in RentalRow : row = rentals[call[p].rental] /\ row # NULL
      BY <1>0, <1>2, <2>2 DEF Lookup, Indexed
    <3>2. /\ pc[p] = "lookup" /\ call[p].op = "end" /\ Hold(p, NULL, row, {}) /\ Goto(p, "lockCar")
          /\ call' = [call EXCEPT ![p].car = row.car] /\ UNCHANGED <<tables, answer>>
      BY <1>0, <1>2, <3>1 DEF Lookup, Indexed
    <3>3. tx' \in [Request -> Tx] /\ \A q \in Request \ {p} : tx'[q] = tx[q]
      BY <1>0, <3>2, HoldStep
    <3>4. pc'[p] = "lockCar" /\ \A q \in Request \ {p} : pc'[q] = pc[q] /\ call'[q] = call[q]
      BY <1>0, <3>2 DEF Goto, TypeOK
    <3>5. call[p] \in Call
      BY <1>0, <3>2 DEF NoCall, Args
    <3>6. call'[p].op = "end"
      BY <1>0, <3>2, <3>5 DEF TypeOK, Call
    <3>7. SessionOK(p)'
      BY <3>4, <3>6 DEF SessionOK, OnStoredCar
    <3>8. IdsDistinct'
      BY <3>4, <3>6, IdsStay
    <3> QED BY <1>0, <3>2, <3>3, <3>4, <3>7, <3>8 DEF SessionStep, TypeOK, tables
  <2> QED BY <2>1, <2>2
<1>3. CASE LockCar(p)
  <2>1. CASE ~IsLive(cars[call[p].car])
    BY <1>1, <1>3, <2>1 DEF LockCar, Answer, DomainError
  <2>2. CASE IsLive(cars[call[p].car])
    <3>1. PICK row \in CarRow : row = cars[call[p].car] /\ row # NULL
      BY <1>0, <1>3, <2>2 DEF LockCar, HoldsOK, IsLive
    <3>2. PICK next \in {"lockRental", "decide"} : Goto(p, next)
      BY <1>3, <2>2 DEF LockCar
    <3>3. /\ pc[p] = "lockCar" /\ Hold(p, row, tx[p].rental, {}) /\ UNCHANGED <<tables, call, answer>>
      BY <1>3, <2>2, <3>1 DEF LockCar
    <3>4. tx' \in [Request -> Tx] /\ tx'[p].car = row /\ \A q \in Request \ {p} : tx'[q] = tx[q]
      BY <1>0, <3>3, HoldStep
    <3>5. StoredCar(p)
      BY <1>0, <1>3, <3>1 DEF LockCar, HoldsOK, StoredCar
    <3> QED BY <3>1, <3>2, <3>3, <3>4, <3>5, StatementSession DEF InTransaction
  <2> QED BY <2>1, <2>2
<1>4. CASE LockRental(p)
  <2>1. PICK v : v = EndVerdict(rentals[call[p].rental], call[p].today)
    OBVIOUS
  <2>2. CASE v # "ok"
    BY <1>1, <1>4, <2>1, <2>2, VerdictsAreAnswers DEF LockRental, ReRead
  <2>3. CASE v = "ok"
    <3>1. call[p].op = "end" /\ call[p].rental \in Rental
      BY <1>0, <1>4 DEF LockRental, Indexed
    <3>2. PICK row \in RentalRow : row = rentals[call[p].rental] /\ row # NULL
      BY <1>0, <2>1, <2>3, <3>1 DEF EndVerdict
    <3>3. /\ pc[p] = "lockRental" /\ Hold(p, tx[p].car, row, {}) /\ Goto(p, "flush")
          /\ UNCHANGED <<tables, call, answer>>
      BY <1>4, <2>1, <2>3, <3>2 DEF LockRental, ReRead
    <3>4. tx[p].car \in CarRow /\ StoredCar(p)
      BY <1>0, <3>1, <3>3 DEF SessionOK, OnStoredCar, InTransaction
    <3>5. /\ tx' \in [Request -> Tx] /\ tx'[p].car = tx[p].car /\ tx'[p].rental = row
          /\ \A q \in Request \ {p} : tx'[q] = tx[q]
      BY <1>0, <3>3, HoldStep
    <3>6. SameRental(p)'
      BY <3>2, <3>3, <3>5 DEF SameRental, tables
    <3> QED BY <3>3, <3>4, <3>5, <3>6, StatementSession DEF InTransaction
  <2> QED BY <2>2, <2>3
<1>5. CASE CheckAvailable(p) \/ CheckNotOut(p)
  <2>1. PICK next \in {"insert", "retire"}, v \in Answer :
          /\ pc[p] = "decide" /\ call[p].op \in {"register", "delete"}
          /\ IF v # "ok" THEN Refuse(p, v)
             ELSE Goto(p, next) /\ UNCHANGED <<tables, call, tx, answer, locks>>
    BY <1>5, VerdictsAreAnswers DEF CheckAvailable, CheckNotOut, Decide
  <2>2. CASE v = "ok"
    <3>1. tx[p].car \in CarRow /\ StoredCar(p)
      BY <1>0, <2>1 DEF SessionOK, OnStoredCar, InTransaction
    <3> QED BY <1>0, <2>1, <2>2, <3>1, StatementSession DEF InTransaction, TypeOK
  <2> QED BY <1>1, <2>1, <2>2
<1>6. ASSUME NEW next \in {"markInUse", "commit"}, Goto(p, next), UNCHANGED <<tables, call, answer>>,
             pc[p] \in InTransaction, NEW car \in CarRow, NEW rental \in RentalRow \cup {NULL},
             NEW dirty \in SUBSET (CarColumns \cup {"rental"}), Hold(p, car, rental, dirty),
             call[p].op # "add" => StoredCar(p),
             "fleet" \in dirty => call[p].op = "add" \/ car.fleet = "retired",
             "rental" \in dirty => call[p].op \in {"register", "end"},
             call[p].op = "end" =>
               /\ rentals[call[p].rental] # NULL
               /\ rental.car = rentals[call[p].rental].car
               /\ rental.start = rentals[call[p].rental].start
      PROVE  SessionStep(p)
  <2>1. /\ tx' \in [Request -> Tx] /\ \A q \in Request \ {p} : tx'[q] = tx[q]
        /\ tx'[p].car = car /\ tx'[p].rental = rental /\ tx'[p].dirty = dirty
    BY <1>0, <1>6, HoldStep
  <2>2. call[p].op = "end" => SameRental(p)'
    BY <1>6, <2>1 DEF SameRental, tables
  <2> QED BY <1>6, <2>1, <2>2, StatementSession DEF InTransaction
<1>7. CASE FlushEnd(p)
  <2>1. CASE Refuse(p, "IntegrityError")
    BY <1>1, <2>1 DEF Answer
  <2>2. CASE ~Refuse(p, "IntegrityError")
    <3>1. /\ pc[p] = "flush" /\ call[p].op = "end" /\ call[p].today \in Day
          /\ tx[p].rental \in RentalRow /\ tx[p].car \in CarRow /\ StoredCar(p)
          /\ SameRental(p)
      BY <1>0, <1>7 DEF FlushEnd, Indexed, SessionOK, OnStoredCar, InTransaction
    <3>2. PICK car : car = [tx[p].car EXCEPT !.status = "available"]
      OBVIOUS
    <3>3. PICK rental : rental = [tx[p].rental EXCEPT !.returned = call[p].today]
      OBVIOUS
    <3>4. car \in CarRow
      BY <3>1, <3>2 DEF CarRow, CarStatus
    <3>5. rental \in RentalRow /\ rental.car = tx[p].rental.car /\ rental.start = tx[p].rental.start
      BY <3>1, <3>3 DEF RentalRow
    <3>6. PICK dirty \in SUBSET {"rental", "status"} : Hold(p, car, rental, dirty)
      BY <1>7, <2>2, <3>2, <3>3 DEF FlushEnd
    <3>7. Goto(p, "commit") /\ UNCHANGED <<tables, call, answer>>
      BY <1>7, <2>2 DEF FlushEnd, Write
    <3> QED BY <1>6, <3>1, <3>4, <3>5, <3>6, <3>7 DEF SameRental, CarColumns, InTransaction
  <2> QED BY <2>1, <2>2
<1>8. CASE UpdateCar(p)
  <2>1. PICK v : v = UpdateVerdict(call[p], tx[p].car)
    OBVIOUS
  <2>2. CASE v # "ok"
    BY <1>1, <1>8, <2>1, <2>2, VerdictsAreAnswers DEF UpdateCar
  <2>3. CASE v = "ok"
    <3>1. /\ pc[p] = "decide" /\ call[p].op = "update" /\ call[p] \in Call
          /\ tx[p].car \in CarRow /\ StoredCar(p)
      BY <1>0, <1>8 DEF UpdateCar, NoCall, Args, SessionOK, OnStoredCar, InTransaction
    <3>2. PICK changed \in SUBSET {"details", "status"} :
            changed = ChangedColumns(call[p], tx[p].car)
      BY DEF ChangedColumns
    <3>3. PICK car : car =
            [fleet   |-> tx[p].car.fleet,
             status  |-> IF "status" \in changed THEN call[p].status ELSE tx[p].car.status,
             details |-> IF "details" \in changed THEN call[p].details ELSE tx[p].car.details]
      OBVIOUS
    <3>4. /\ "status" \in changed => call[p].status \in CarStatus
          /\ "details" \in changed => call[p].details \in Details
      BY <3>1, <3>2 DEF ChangedColumns, Call
    <3>5. car \in CarRow
      BY <3>1, <3>3, <3>4 DEF CarRow
    <3>6. Hold(p, car, NULL, changed) /\ Goto(p, "commit") /\ UNCHANGED <<tables, call, answer>>
      BY <1>8, <2>1, <2>3, <3>2, <3>3 DEF UpdateCar, Write
    <3> QED BY <1>6, <3>1, <3>5, <3>6 DEF CarColumns, InTransaction
  <2> QED BY <2>2, <2>3
<1>9. CASE Retire(p)
  <2>1. /\ pc[p] = "retire" /\ call[p].op = "delete"
        /\ tx[p].car \in CarRow /\ StoredCar(p)
    BY <1>0, <1>9 DEF Retire, Indexed, SessionOK, OnStoredCar, InTransaction
  <2>2. PICK car : car = [tx[p].car EXCEPT !.fleet = "retired"]
    OBVIOUS
  <2>3. car \in CarRow /\ car.fleet = "retired"
    BY <2>1, <2>2 DEF CarRow, Fleet
  <2>4. Hold(p, car, NULL, {"fleet"}) /\ Goto(p, "commit") /\ UNCHANGED <<tables, call, answer>>
    BY <1>9, <2>2 DEF Retire, Write
  <2> QED BY <1>6, <2>1, <2>3, <2>4 DEF CarColumns, InTransaction
<1>10. CASE InsertCar(p)
  <2>1. PICK car : car = [fleet |-> "live", status |-> "available", details |-> call[p].details]
    OBVIOUS
  <2>2. car \in CarRow /\ call[p].op = "add"
    BY <1>0, <1>10, <2>1 DEF InsertCar, SessionOK, CarRow, Fleet, CarStatus
  <2>3. /\ Hold(p, car, NULL, CarColumns) /\ Goto(p, "commit") /\ UNCHANGED <<tables, call, answer>>
        /\ pc[p] = "insert"
    BY <1>10, <2>1 DEF InsertCar, Write
  <2> QED BY <1>6, <2>2, <2>3 DEF CarColumns, InTransaction
<1>11. CASE InsertRental(p)
  <2>1. CASE Refuse(p, "IntegrityError")
    BY <1>1, <2>1 DEF Answer
  <2>2. CASE ~Refuse(p, "IntegrityError")
    <3>1. /\ pc[p] = "insert" /\ call[p].op = "register" /\ tx[p].car \in CarRow
          /\ StoredCar(p) /\ NewRental(p) \in RentalRow
      BY <1>0, <1>11 DEF InsertRental, Indexed, SessionOK, OnStoredCar, InTransaction, NewRental,
         RentalRow
    <3>2. /\ Hold(p, tx[p].car, NewRental(p), {"rental"}) /\ Goto(p, "markInUse")
          /\ UNCHANGED <<tables, call, answer>>
      BY <1>11, <2>2 DEF InsertRental, NewRental, Write
    <3> QED BY <1>6, <3>1, <3>2 DEF CarColumns, InTransaction
  <2> QED BY <2>1, <2>2
<1>12. CASE MarkInUse(p)
  <2>1. /\ pc[p] = "markInUse" /\ call[p].op = "register" /\ tx[p].car \in CarRow
        /\ StoredCar(p)
    BY <1>0, <1>12 DEF MarkInUse, Indexed, SessionOK, OnStoredCar, InTransaction
  <2>2. PICK car : car = [tx[p].car EXCEPT !.status = "in_use"]
    OBVIOUS
  <2>3. car \in CarRow
    BY <2>1, <2>2 DEF CarRow, CarStatus
  <2>4. /\ Hold(p, car, tx[p].rental, {"rental", "status"}) /\ Goto(p, "commit")
        /\ UNCHANGED <<tables, call, answer>>
    BY <1>12, <2>2 DEF MarkInUse, Write
  <2> QED BY <1>0, <1>6, <2>1, <2>3, <2>4 DEF CarColumns, InTransaction
<1>13. CASE Publish(p) \/ ReadBack(p) \/ Reply(p)
  <2>1. PICK next \in {"readBack", "reply", "idle"} :
          Goto(p, next) /\ UNCHANGED <<tables, tx>>
    BY <1>13 DEF Publish, ReadBack, Reply
  <2>2. pc'[p] = next /\ \A q \in Request \ {p} : pc'[q] = pc[q]
    BY <1>0, <2>1 DEF Goto
  <2>3. /\ UNCHANGED call \/ call' = [call EXCEPT ![p] = NoCall]
        /\ answer' \in [Request -> Answer \cup {NULL}]
    BY <1>0, <1>13, AnswerStep DEF Publish, ReadBack, Reply, TypeOK, Answer
  <2>4. /\ \A q \in Request \ {p} : call'[q] = call[q]
        /\ call'[p] = call[p] \/ call'[p].op = "none"
    BY <1>0, <2>3 DEF TypeOK, NoCall, Args
  <2>5. SessionOK(p)'
    BY <1>0, <2>2, <2>4 DEF SessionOK, OnStoredCar, InTransaction
  <2> QED BY <1>0, <2>1, <2>2, <2>3, <2>4, <2>5, IdsStay DEF SessionStep, TypeOK, tables
<1>14. CASE Abort(p)
  BY <1>1, <1>14 DEF Abort, Answer
<1> QED BY <1>2, <1>3, <1>4, <1>5, <1>7, <1>8, <1>9, <1>10, <1>11, <1>12, <1>13, <1>14 DEF Serve

\* What a transaction of one request may do to the rows.
RentalStays(r) ==
  rentals[r] # NULL =>
    /\ rentals'[r] # NULL
    /\ rentals'[r].car = rentals[r].car /\ rentals'[r].start = rentals[r].start
    /\ rentals[r].returned # NULL => rentals'[r].returned # NULL

CarStays(c) ==
  cars[c] # NULL => cars'[c] # NULL /\ (cars[c].fleet = "retired" => cars'[c].fleet = "retired")

\* A commit writes a rental it drew, or one it ends; a car it drew, or the dirty
\* columns of a stored one, whatever has happened to the row since it was read.
LEMMA ApplyUndoesNothing ==
  ASSUME SessionInv, IndexInv, NEW p \in Request, pc[p] = "commit", Apply(p)
  PROVE  /\ cars' \in [Car -> CarRow \cup {NULL}]
         /\ \A r \in Rental : RentalStays(r)
         /\ \A c \in Car : CarStays(c)
         /\ \A c \in Car : cars'[c] # cars[c] => c = call[p].car
         /\ \A r \in Rental : rentals'[r] # rentals[r] =>
              r = call[p].rental /\ call[p].op \in {"register", "end"}
<1> USE FleetAssumption
<1> DEFINE CarsKept == /\ cars' \in [Car -> CarRow \cup {NULL}]
                       /\ \A c \in Car : CarStays(c) /\ (cars'[c] # cars[c] => c = call[p].car)
           RentalsKept == \A r \in Rental :
                            /\ RentalStays(r)
                            /\ rentals'[r] # rentals[r] =>
                                 r = call[p].rental /\ call[p].op \in {"register", "end"}
<1>0. /\ TypeOK /\ SessionOK(p) /\ Indexed(p)
      /\ cars \in [Car -> CarRow \cup {NULL}] /\ rentals \in [Rental -> RentalRow \cup {NULL}]
      /\ pc[p] = "commit"
  BY HereAnywhere DEF TypeOK, TablesOK
<1>1. PICK row : row = Saved(cars[call[p].car], tx[p].car, tx[p].dirty)
  OBVIOUS
<1>2. ASSUME tx[p].dirty \cap CarColumns = {} PROVE CarsKept
  BY <1>0, <1>2 DEF Apply, CarStays
<1>3. ASSUME tx[p].dirty \cap CarColumns # {} PROVE CarsKept
  <2>1. cars' = [cars EXCEPT ![call[p].car] = row] /\ tx[p].car \in CarRow
    BY <1>0, <1>1, <1>3 DEF Apply, SessionOK
  <2>2. ASSUME call[p].car \in Car PROVE row \in CarRow /\ row # NULL
    BY <1>0, <1>1, <2>1, <2>2 DEF Saved, CarRow
  <2>3. ASSUME call[p].car \in Car, cars[call[p].car] # NULL, cars[call[p].car].fleet = "retired"
        PROVE  row.fleet = "retired"
    <3>1. "fleet" \in tx[p].dirty => tx[p].car.fleet = "retired"
      BY <1>0, <2>3 DEF SessionOK, InTransaction
    <3> QED BY <1>1, <2>3, <3>1 DEF Saved
  <2> QED BY <1>0, <2>1, <2>2, <2>3 DEF CarStays
<1>4. ASSUME "rental" \notin tx[p].dirty PROVE RentalsKept
  BY <1>4 DEF Apply, RentalStays
<1>5. ASSUME "rental" \in tx[p].dirty PROVE RentalsKept
  <2>1. rentals' = [rentals EXCEPT ![call[p].rental] = tx[p].rental]
    BY <1>5 DEF Apply
  <2>2. call[p].op \in {"register", "end"}
    BY <1>0, <1>5 DEF SessionOK
  <2>3. CASE call[p].op = "register"
    <3>1. rentals[call[p].rental] = NULL
      BY <1>0, <2>3 DEF SessionOK, InTransaction
    <3> QED BY <1>0, <2>1, <2>3, <3>1 DEF RentalStays
  <2>4. CASE call[p].op = "end"
    <3>1. tx[p].rental \in RentalRow /\ tx[p].rental.returned # NULL /\ SameRental(p)
      BY <1>0, <1>5, <2>4 DEF Indexed, SessionOK
    <3> QED BY <1>0, <2>1, <2>4, <3>1 DEF SameRental, RentalStays
  <2> QED BY <2>1, <2>2, <2>3, <2>4
<1> QED BY <1>2, <1>3, <1>4, <1>5

\* A commit leaves every other request's session as it should be.
LEMMA CommitSession ==
  ASSUME SessionInv, IndexInv, IndexInv', LocksOK', NEW p \in Request,
         Commit(p) \/ CommitUnacknowledged(p)
  PROVE  SessionInv'
<1> USE FleetAssumption
<1>0. /\ TypeOK /\ IdsDistinct /\ SessionOK(p)
      /\ pc[p] = "commit" /\ Apply(p) /\ CloseTx(p) /\ UNCHANGED call /\ pc'[p] \notin InTransaction
      /\ \A q \in Request \ {p} : pc'[q] = pc[q]
  BY HereAnywhere DEF Commit, CommitUnacknowledged, Goto, TypeOK, InTransaction
<1>1. tx' \in [Request -> Tx] /\ \A q \in Request \ {p} : tx'[q] = tx[q]
  BY <1>0, CloseTxStep
<1>2. answer' \in [Request -> Answer \cup {NULL}]
  BY <1>0, AnswerStep DEF Commit, CommitUnacknowledged, Answer
<1>3. TypeOK'
  BY <1>0, <1>1, <1>2, ApplyUndoesNothing DEF TypeOK, TablesOK, IndexInv, IndexTypes, LocksOK
<1>4. ASSUME NEW q \in Request \ {p} PROVE SessionOK(q)'
  <2>1. /\ SessionOK(q) /\ Indexed(q) /\ call'[q] = call[q] /\ pc'[q] = pc[q] /\ tx'[q] = tx[q]
    BY <1>0, <1>1 DEF SessionInv, IndexInv
  <2>2. ASSUME call[q].op = "add", pc[q] \in InTransaction
        PROVE  cars'[call[q].car] = cars[call[q].car]
    <3>1. call[q].car \in Car /\ cars[call[q].car] = NULL
      BY <2>1, <2>2 DEF SessionOK
    <3>2. call[p].op = "add" => call[p].car # call[q].car
      BY <1>0, <2>2 DEF IdsDistinct
    <3>3. call[p].op # "add" => cars[call[p].car] # NULL
      BY <1>0 DEF SessionOK, OnStoredCar, StoredCar, InTransaction
    <3> QED BY <1>0, <3>1, <3>2, <3>3, ApplyUndoesNothing
  <2>3. ASSUME call[q].op = "register", pc[q] \in InTransaction
        PROVE  rentals'[call[q].rental] = rentals[call[q].rental]
    <3>1. call[q].rental \in Rental /\ rentals[call[q].rental] = NULL
      BY <2>1, <2>3 DEF SessionOK
    <3>2. call[p].op = "register" => call[p].rental # call[q].rental
      BY <1>0, <2>3, <3>1 DEF IdsDistinct
    <3>3. call[p].op = "end" => rentals[call[p].rental] # NULL
      BY <1>0 DEF SessionOK, SameRental
    <3> QED BY <1>0, <3>1, <3>2, <3>3, ApplyUndoesNothing
  <2>4. StoredCar(q) => StoredCar(q)'
    BY <1>0, <2>1, ApplyUndoesNothing DEF StoredCar, CarStays
  <2>5. ASSUME pc[q] = "flush" \/ (pc[q] = "commit" /\ call[q].op = "end")
        PROVE  SameRental(q) => SameRental(q)'
    <3>1. call[q].rental \in Rental
      BY <2>1, <2>5 DEF Indexed
    <3> QED BY <1>0, <2>1, <3>1, ApplyUndoesNothing DEF SameRental, RentalStays
  <2> QED BY <2>1, <2>2, <2>3, <2>4, <2>5 DEF SessionOK, OnStoredCar
<1>5. SessionOK(p)'
  BY <1>0 DEF SessionOK, OnStoredCar, InTransaction, Commit, CommitUnacknowledged, Goto, TypeOK
<1>6. IdsDistinct'
  BY <1>0 DEF IdsDistinct
<1> QED BY <1>3, <1>4, <1>5, <1>6 DEF SessionInv

\* What the sessions hold is inductive, on either database.
LEMMA SessionInvariant == Spec => [](IndexInv /\ LocksOK /\ SessionInv)
<1>0. NoCall.op = "none"
  BY DEF NoCall, Args
<1>1. Init => SessionInv
  <2> SUFFICES ASSUME Init PROVE SessionInv
    OBVIOUS
  <2>1. TypeOK /\ IdsDistinct
    BY ServiceInvInit DEF ServiceInv
  <2>2. ASSUME NEW q \in Request PROVE SessionOK(q)
    BY <1>0 DEF Init, SessionOK, OnStoredCar, InTransaction
  <2> QED BY <2>1, <2>2 DEF SessionInv
<1>2. /\ IndexInv /\ LocksOK /\ SessionInv /\ [Next]_vars /\ IndexInv' /\ LocksOK'
      => SessionInv'
  <2> SUFFICES ASSUME IndexInv, LocksOK, SessionInv, [Next]_vars, IndexInv', LocksOK'
               PROVE  SessionInv'
    OBVIOUS
  <2>1. ASSUME NEW p \in Request, Arrive(p) \/ Serve(p) \/ CommitUnacknowledged(p) \/ Abort(p)
        PROVE  SessionInv'
    BY <2>1, ArrivalSession, ServeSession, SessionStepKeeps, CommitSession
  <2>2. CASE Crash
    <3>1. IdsDistinct'
      BY <1>0, <2>2 DEF Crash, IdsDistinct
    <3>2. TypeOK'
      BY <2>2 DEF Crash, SessionInv, TypeOK, TablesOK, IndexInv, IndexTypes, LocksOK, NoTx, Tx,
         tables
    <3>3. ASSUME NEW q \in Request PROVE SessionOK(q)'
      BY <1>0, <2>2 DEF Crash, SessionOK, OnStoredCar, InTransaction
    <3> QED BY <3>1, <3>2, <3>3 DEF SessionInv
  <2>3. CASE Tick \/ UNCHANGED vars
    <3>1. UNCHANGED <<cars, rentals, pc, call, tx, answer>>
      BY <2>3 DEF Tick, vars
    <3>2. TypeOK'
      BY <3>1 DEF SessionInv, TypeOK, TablesOK, IndexInv, IndexTypes, LocksOK
    <3>3. IdsDistinct'
      BY <3>1 DEF SessionInv, IdsDistinct
    <3>4. ASSUME NEW q \in Request PROVE SessionOK(q)'
      BY <3>1 DEF SessionInv, SessionOK, OnStoredCar, StoredCar, SameRental
    <3> QED BY <3>2, <3>3, <3>4 DEF SessionInv
  <2> QED BY <2>1, <2>2, <2>3 DEF Next
<1> QED BY <1>1, <1>2, LocksInvariant, PTL DEF Spec

\* Every variable keeps its type, on either database: no row gets a status that
\* its column's enum has not, or a column with nothing in it.
THEOREM ServiceTypes == Spec => []TypeOK
<1>1. SessionInv => TypeOK
  BY DEF SessionInv
<1> QED BY <1>1, SessionInvariant, PTL

\* What was closed is never open again, on either database: on SQLite too, where
\* two requests may decide on one and the same stale copy.
THEOREM ServiceClosedStaysClosed == Spec => ClosedStaysClosed
<1>1. /\ SessionInv /\ IndexInv /\ LocksOK /\ [Next]_vars
      => [(\A r \in Rental : RentalStays(r)) /\ (\A c \in Car : CarStays(c))]_vars
  <2> SUFFICES ASSUME SessionInv, IndexInv, LocksOK, [Next]_vars, ~UNCHANGED vars
               PROVE  (\A r \in Rental : RentalStays(r)) /\ (\A c \in Car : CarStays(c))
    OBVIOUS
  <2>1. CASE UNCHANGED <<cars, rentals>>
    BY <2>1 DEF RentalStays, CarStays
  <2>2. CASE \E p \in Request : Commit(p) \/ CommitUnacknowledged(p)
    BY <2>2, ApplyUndoesNothing DEF Commit, CommitUnacknowledged
  <2>3. CASE \E p \in Request : ~Commit(p) /\ (Arrive(p) \/ Serve(p) \/ Abort(p))
    <3>1. \E p \in Request : SessionStep(p)
      BY <2>3, ArrivalSession, ServeSession
    <3>2. UNCHANGED <<cars, rentals>>
      BY <3>1 DEF SessionStep
    <3> QED BY <2>1, <3>2
  <2>4. CASE Crash \/ Tick
    BY <2>1, <2>4 DEF Crash, Tick, tables
  <2> QED BY <2>2, <2>3, <2>4 DEF Next
<1>2. [(\A r \in Rental : RentalStays(r)) /\ (\A c \in Car : CarStays(c))]_vars
      => [/\ \A r \in Rental : rentals[r] # NULL =>
               /\ rentals'[r] # NULL
               /\ rentals'[r].car = rentals[r].car /\ rentals'[r].start = rentals[r].start
               /\ rentals[r].returned # NULL => rentals'[r].returned # NULL
          /\ \A c \in Car : cars[c] # NULL =>
               /\ cars'[c] # NULL
               /\ cars[c].fleet = "retired" => cars'[c].fleet = "retired"]_vars
  BY DEF RentalStays, CarStays
<1> QED BY <1>1, <1>2, SessionInvariant, PTL DEF Spec, ClosedStaysClosed
============================================================================
