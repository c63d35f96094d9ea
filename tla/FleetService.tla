---------------------------- MODULE FleetService ----------------------------
(***************************************************************************)
(* CarService and RentalService over the two tables.  Every HTTP request is *)
(* a thread of its own with a SQLAlchemy session of its own: it opens a     *)
(* transaction, reads rows (for update), decides on the copies in its       *)
(* session, flushes, commits, publishes its event, and answers.  One step   *)
(* is one statement sent to the database, so two requests interleave        *)
(* between any two statements.                                              *)
(*                                                                         *)
(* RowLocks = TRUE is PostgreSQL, READ COMMITTED: SELECT ... FOR UPDATE     *)
(* waits for the row's lock and returns the newest committed row.           *)
(* RowLocks = FALSE is SQLite: reads lock nothing, and the first write      *)
(* takes the database's one writer lock until the transaction ends.         *)
(***************************************************************************)
EXTENDS FleetTables

CONSTANTS Request,   \* the request threads running side by side
          RowLocks   \* TRUE on PostgreSQL, FALSE on SQLite

VARIABLES pc,          \* pc[p]: the statement request p sends next
          call,        \* call[p]: the operation and its arguments
          tx,          \* tx[p]: the rows in p's session, and the unsaved columns
          answer,      \* answer[p]: "ok", or the exception raised
          carLock,     \* carLock[c]: who holds the row lock of car c
          rentalLock,  \* rentalLock[r]: who holds the row lock of rental r
          writer       \* SQLite: who holds the database's writer lock

locks == <<carLock, rentalLock, writer>>
vars  == <<cars, rentals, day, pc, call, tx, answer, carLock, rentalLock, writer>>

Contract == INSTANCE FleetContract

Op == {"add", "update", "delete", "register", "end"}

\* In pc order.  From lookup to commit the transaction is open.
InTransaction == {"lookup", "lockCar", "decide", "lockRental", "insert",
                  "markInUse", "retire", "flush", "commit"}
PC == {"idle"} \cup InTransaction \cup {"publish", "readBack", "reply"}

\* The 4xx answers of api/errors.py, then the two that end as a 500.
DomainError == {"CarNotFoundError", "CarNotAvailableError", "CarStatusTransitionError",
                "CarHasActiveRentalError", "RentalNotFoundError",
                "RentalAlreadyEndedError", "RentalDateError"}
Answer == {"ok"} \cup DomainError \cup {"IntegrityError", "ServerError"}

ASSUME ServiceAssumption ==
  RowLocks \in BOOLEAN /\ NULL \notin Request /\ NULL \notin Answer

Call == [op : Op, car : Car \cup {NULL}, rental : Rental \cup {NULL},
         details : Details \cup {NULL}, status : CarStatus \cup {NULL},
         today : Day \cup {NULL}]

Args(op, car, rental, details, status, today) ==
  [op |-> op, car |-> car, rental |-> rental,
   details |-> details, status |-> status, today |-> today]

NoCall == Args("none", NULL, NULL, NULL, NULL, NULL)

CarColumns == {"fleet", "status", "details"}
NoTx == [car |-> NULL, rental |-> NULL, dirty |-> {}]

Tx == [car : CarRow \cup {NULL}, rental : RentalRow \cup {NULL},
       dirty : SUBSET (CarColumns \cup {"rental"})]

TypeOK ==
  /\ TablesOK
  /\ pc \in [Request -> PC]
  /\ call \in [Request -> Call \cup {NoCall}]
  /\ tx \in [Request -> Tx]
  /\ answer \in [Request -> Answer \cup {NULL}]
  /\ carLock \in [Car -> Request \cup {NULL}]
  /\ rentalLock \in [Rental -> Request \cup {NULL}]
  /\ writer \in Request \cup {NULL}

Init ==
  /\ TablesInit
  /\ pc = [p \in Request |-> "idle"]
  /\ call = [p \in Request |-> NoCall]
  /\ tx = [p \in Request |-> NoTx]
  /\ answer = [p \in Request |-> NULL]
  /\ carLock = [c \in Car |-> NULL]
  /\ rentalLock = [r \in Rental |-> NULL]
  /\ writer = NULL

----------------------------------------------------------------------------
(* The arrival of a request.  No two inserts draw the same id: the ids come *)
(* from a sequence.  A finite Car and Rental bound how many are ever drawn. *)

Begin(p, new, first) ==
  /\ pc[p] = "idle"
  /\ call' = [call EXCEPT ![p] = new]
  /\ pc' = [pc EXCEPT ![p] = first]
  /\ UNCHANGED <<tables, tx, locks>>

FreshCar(c) ==
  cars[c] = NULL /\ \A q \in Request : call[q].op = "add" => call[q].car # c

FreshRental(r) ==
  rentals[r] = NULL /\ \A q \in Request : call[q].op = "register" => call[q].rental # r

BeginAdd(p) ==
  /\ \E c \in Car, d \in Details :
       /\ FreshCar(c)
       /\ Begin(p, Args("add", c, NULL, d, NULL, NULL), "insert")
  /\ UNCHANGED answer

BeginUpdate(p) ==
  /\ \E c \in Car, d \in Details \cup {NULL}, s \in CarStatus \cup {NULL} :
       Begin(p, Args("update", c, NULL, d, s, NULL), "lockCar")
  /\ UNCHANGED answer

BeginDelete(p) ==
  /\ \E c \in Car : Begin(p, Args("delete", c, NULL, NULL, NULL, NULL), "lockCar")
  /\ UNCHANGED answer

\* The start date must be today's, read once and before the transaction.
BeginRegister(p) ==
  /\ \E c \in Car, r \in Rental :
       /\ FreshRental(r)
       /\ Begin(p, Args("register", c, r, NULL, NULL, day), "lockCar")
  /\ UNCHANGED answer

RefuseStartDate(p) ==
  /\ \E c \in Car, start \in Day \ {day} :
       Begin(p, Args("register", c, NULL, NULL, NULL, start), "reply")
  /\ answer' = [answer EXCEPT ![p] = "RentalDateError"]

BeginEnd(p) ==
  /\ \E r \in Rental :
       Begin(p, Args("end", NULL, r, NULL, NULL, day), "lookup")
  /\ UNCHANGED answer

----------------------------------------------------------------------------
(* The session of a transaction, and leaving it. *)

Hold(p, car, rental, dirty) ==
  tx' = [tx EXCEPT ![p] = [car |-> car, rental |-> rental, dirty |-> dirty]]

\* COMMIT and ROLLBACK alike: the session keeps nothing, every lock is released.
CloseTx(p) ==
  /\ tx' = [tx EXCEPT ![p] = NoTx]
  /\ carLock' = [c \in Car |-> IF carLock[c] = p THEN NULL ELSE carLock[c]]
  /\ rentalLock' = [r \in Rental |-> IF rentalLock[r] = p THEN NULL ELSE rentalLock[r]]
  /\ writer' = IF writer = p THEN NULL ELSE writer

\* Mutant: the handler answers without rolling back, and keeps its locks.
RefuseWithoutRollback(p, error) ==
  /\ pc' = [pc EXCEPT ![p] = "reply"]
  /\ answer' = [answer EXCEPT ![p] = error]
  /\ UNCHANGED <<tables, call, tx, locks>>

\* An exception leaves the with-block: roll back, then answer with it.
Refuse(p, error) ==
  /\ CloseTx(p)
  /\ pc' = [pc EXCEPT ![p] = "reply"]
  /\ answer' = [answer EXCEPT ![p] = error]
  /\ UNCHANGED <<tables, call>>

\* A write needs SQLite's writer lock, and takes it.
MayWrite(p) == RowLocks \/ writer \in {NULL, p}

Write(p) ==
  /\ MayWrite(p)
  /\ writer' = IF RowLocks THEN writer ELSE p
  /\ UNCHANGED <<tables, call, answer, carLock, rentalLock>>

\* The transaction goes on to its next statement.
Goto(p, next) == pc' = [pc EXCEPT ![p] = next]

----------------------------------------------------------------------------
(* The statements. *)

\* session.get(Rental, id): an unlocked read, for the rental's car.
Lookup(p) ==
  /\ pc[p] = "lookup"
  /\ LET row == rentals[call[p].rental] IN
       IF row = NULL THEN Refuse(p, "RentalNotFoundError")
       ELSE /\ Hold(p, NULL, row, {})
            /\ call' = [call EXCEPT ![p].car = row.car]
            /\ Goto(p, "lockCar")
            /\ UNCHANGED <<tables, answer, locks>>

\* Mutant: the car is read without FOR UPDATE.
LockCarUnlocked(p) ==
  /\ pc[p] = "lockCar"
  /\ IF ~IsLive(cars[call[p].car]) THEN Refuse(p, "CarNotFoundError")
     ELSE /\ Hold(p, cars[call[p].car], tx[p].rental, {})
          /\ Goto(p, IF call[p].op = "end" THEN "lockRental" ELSE "decide")
          /\ UNCHANGED <<tables, call, answer, locks>>

\* get_by_id_for_update on the car.  A row that is not live is not waited for.
LockCar(p) ==
  /\ pc[p] = "lockCar"
  /\ LET c == call[p].car IN
       IF ~IsLive(cars[c]) THEN Refuse(p, "CarNotFoundError")
       ELSE /\ RowLocks => carLock[c] = NULL
            /\ carLock' = IF RowLocks THEN [carLock EXCEPT ![c] = p] ELSE carLock
            /\ Hold(p, cars[c], tx[p].rental, {})
            /\ Goto(p, IF call[p].op = "end" THEN "lockRental" ELSE "decide")
            /\ UNCHANGED <<tables, call, answer, rentalLock, writer>>

\* Mutant: without populate_existing the session keeps the copy it has.
ReReadFromSession(p) == tx[p].rental

\* get_by_id_for_update on the rental: populate_existing replaces the copy that
\* the lookup left in the session.
ReRead(p) == rentals[call[p].rental]

LockRental(p) ==
  /\ pc[p] = "lockRental"
  /\ LET r == call[p].rental
         row == ReRead(p)
         verdict == EndVerdict(row, call[p].today)
     IN /\ RowLocks => rentalLock[r] = NULL
        /\ IF verdict # "ok" THEN Refuse(p, verdict)
           ELSE /\ rentalLock' = IF RowLocks THEN [rentalLock EXCEPT ![r] = p]
                                 ELSE rentalLock
                /\ Hold(p, tx[p].car, row, {})
                /\ Goto(p, "flush")
                /\ UNCHANGED <<tables, call, answer, carLock, writer>>

\* Mutant: the rental is closed and its car is not freed.
FlushEndKeepingCar(p) ==
  /\ pc[p] = "flush"
  /\ Hold(p, tx[p].car, [tx[p].rental EXCEPT !.returned = call[p].today], {"rental"})
  /\ Write(p)
  /\ Goto(p, "commit")

\* One flush writes both rows; the CHECK is that no return precedes its start.
FlushEnd(p) ==
  /\ pc[p] = "flush" /\ MayWrite(p)
  /\ IF call[p].today < tx[p].rental.start THEN Refuse(p, "IntegrityError")
     ELSE /\ Hold(p, [tx[p].car EXCEPT !.status = "available"],
                     [tx[p].rental EXCEPT !.returned = call[p].today],
                     IF tx[p].car.status = "available" THEN {"rental"}
                                                       ELSE {"rental", "status"})
          /\ Write(p)
          /\ Goto(p, "commit")

\* update_car: an update that changes nothing writes nothing.
UpdateCar(p) ==
  /\ pc[p] = "decide" /\ call[p].op = "update"
  /\ LET row     == tx[p].car
         changed == ChangedColumns(call[p], row)
         verdict == UpdateVerdict(call[p], row)
     IN IF verdict # "ok" THEN Refuse(p, verdict)
        ELSE /\ Hold(p, [fleet   |-> row.fleet,
                         status  |-> IF "status" \in changed THEN call[p].status ELSE row.status,
                         details |-> IF "details" \in changed THEN call[p].details ELSE row.details],
                     NULL, changed)
             /\ IF changed = {} THEN UNCHANGED <<tables, call, answer, locks>> ELSE Write(p)
             /\ Goto(p, "commit")

\* register_rental and delete_car: the status of the copy, and a fresh read of
\* the car's open rentals.
Decide(p, verdict, next) ==
  /\ pc[p] = "decide"
  /\ IF verdict # "ok" THEN Refuse(p, verdict)
     ELSE Goto(p, next) /\ UNCHANGED <<tables, call, tx, answer, locks>>

CheckAvailable(p) ==
  /\ call[p].op = "register"
  /\ Decide(p, RegisterVerdict(tx[p].car, OpenRentals(call[p].car)), "insert")

CheckNotOut(p) ==
  /\ call[p].op = "delete"
  /\ Decide(p, DeleteVerdict(OpenRentals(call[p].car)), "retire")

\* soft_delete.
Retire(p) ==
  /\ pc[p] = "retire"
  /\ Hold(p, [tx[p].car EXCEPT !.fleet = "retired"], NULL, {"fleet"})
  /\ Write(p)
  /\ Goto(p, "commit")

InsertCar(p) ==
  /\ pc[p] = "insert" /\ call[p].op = "add"
  /\ Hold(p, [fleet |-> "live", status |-> "available", details |-> call[p].details],
             NULL, CarColumns)
  /\ Write(p)
  /\ Goto(p, "commit")

\* The unique index makes an insert wait for another transaction's open rental
\* of the same car, and refuses it when there is a committed one.
HasIndexEntry(q, c) ==
  pc[q] \in {"markInUse", "commit"} /\ call[q].op = "register" /\ call[q].car = c

IndexEntryPending(p) == \E q \in Request \ {p} : HasIndexEntry(q, call[p].car)

\* Mutant: no unique index stands behind the checks.
InsertRentalUnchecked(p) ==
  /\ pc[p] = "insert" /\ call[p].op = "register"
  /\ Hold(p, tx[p].car, [car |-> call[p].car, start |-> call[p].today, returned |-> NULL],
             {"rental"})
  /\ Write(p)
  /\ Goto(p, "markInUse")

InsertRental(p) ==
  /\ pc[p] = "insert" /\ call[p].op = "register"
  /\ MayWrite(p) /\ ~IndexEntryPending(p)
  /\ IF OpenRentals(call[p].car) # {} THEN Refuse(p, "IntegrityError")
     ELSE /\ Hold(p, tx[p].car,
                     [car |-> call[p].car, start |-> call[p].today, returned |-> NULL],
                     {"rental"})
          /\ Write(p)
          /\ Goto(p, "markInUse")

\* Mutant: the enum's member name is stored where its value belongs.
MarkInUseByName(p) ==
  /\ pc[p] = "markInUse"
  /\ Hold(p, [tx[p].car EXCEPT !.status = "IN_USE"], tx[p].rental, {"rental", "status"})
  /\ Write(p)
  /\ Goto(p, "commit")

MarkInUse(p) ==
  /\ pc[p] = "markInUse"
  /\ Hold(p, [tx[p].car EXCEPT !.status = "in_use"], tx[p].rental, {"rental", "status"})
  /\ Write(p)
  /\ Goto(p, "commit")

\* Mutant: an UPDATE sends every column of the copy.
SavedWhole(row, copy, dirty) == copy

\* Only the dirty columns of a row are sent to the database.
Saved(row, copy, dirty) ==
  IF row = NULL THEN copy
  ELSE [fleet   |-> IF "fleet" \in dirty THEN copy.fleet ELSE row.fleet,
        status  |-> IF "status" \in dirty THEN copy.status ELSE row.status,
        details |-> IF "details" \in dirty THEN copy.details ELSE row.details]

\* The database applies the transaction.  A rental's other columns never
\* change once it is inserted, so its whole row may be written.
Apply(p) ==
  /\ cars' = IF tx[p].dirty \cap CarColumns = {} THEN cars
             ELSE [cars EXCEPT ![call[p].car] = Saved(@, tx[p].car, tx[p].dirty)]
  /\ rentals' = IF "rental" \notin tx[p].dirty THEN rentals
                ELSE [rentals EXCEPT ![call[p].rental] = tx[p].rental]
  /\ UNCHANGED day

\* After the commit: the event, unless nothing changed.
Commit(p) ==
  /\ pc[p] = "commit"
  /\ Apply(p)
  /\ CloseTx(p)
  /\ Goto(p, IF tx[p].dirty = {} THEN "reply" ELSE "publish")
  /\ answer' = [answer EXCEPT ![p] = "ok"]
  /\ UNCHANGED call

\* The commit is applied and its acknowledgement lost: a 500, and no event.
CommitUnacknowledged(p) ==
  /\ pc[p] = "commit"
  /\ Apply(p)
  /\ CloseTx(p)
  /\ Goto(p, "reply")
  /\ answer' = [answer EXCEPT ![p] = "ServerError"]
  /\ UNCHANGED call

\* Best effort: whatever the publisher raises is logged and dropped.  The
\* response of an UPDATE then reads the expired updated_at column back.
Publish(p) ==
  /\ pc[p] = "publish"
  /\ Goto(p, IF call[p].op \in {"update", "end"} THEN "readBack" ELSE "reply")
  /\ UNCHANGED <<tables, call, tx, answer, locks>>

ReadBack(p) ==
  /\ pc[p] = "readBack"
  /\ Goto(p, "reply")
  /\ answer' \in {answer, [answer EXCEPT ![p] = "ServerError"]}
  /\ UNCHANGED <<tables, call, tx, locks>>

Reply(p) ==
  /\ pc[p] = "reply"
  /\ Goto(p, "idle")
  /\ call' = [call EXCEPT ![p] = NoCall]
  /\ answer' = [answer EXCEPT ![p] = NULL]
  /\ UNCHANGED <<tables, tx, locks>>

----------------------------------------------------------------------------
(* Failures and time. *)

\* Mutant: _transaction rolls back and does not raise again.
AbortSwallowed(p) ==
  /\ pc[p] \in InTransaction
  /\ CloseTx(p)
  /\ Goto(p, "publish")
  /\ UNCHANGED <<tables, call, answer>>

\* Mutant: a transaction that failed is begun again.
AbortRetried(p) ==
  /\ pc[p] \in InTransaction
  /\ CloseTx(p)
  /\ Goto(p, IF call[p].op = "end" THEN "lookup" ELSE "lockCar")
  /\ UNCHANGED <<tables, call, answer>>

\* Any statement may fail: no pooled connection, a lost server, "database is
\* locked" after SQLite's timeout.
Abort(p) == pc[p] \in InTransaction /\ Refuse(p, "ServerError")

\* The process dies: no request survives, the database rolls their sessions back.
Crash ==
  /\ pc # [p \in Request |-> "idle"]
  /\ pc' = [p \in Request |-> "idle"]
  /\ call' = [p \in Request |-> NoCall]
  /\ tx' = [p \in Request |-> NoTx]
  /\ answer' = [p \in Request |-> NULL]
  /\ carLock' = [c \in Car |-> NULL]
  /\ rentalLock' = [r \in Rental |-> NULL]
  /\ writer' = NULL
  /\ UNCHANGED tables

Tick ==
  /\ day < MaxDay
  /\ day' = day + 1
  /\ UNCHANGED <<cars, rentals, pc, call, tx, answer, locks>>

----------------------------------------------------------------------------
Arrive(p) == \/ BeginAdd(p) \/ BeginUpdate(p) \/ BeginDelete(p)
             \/ BeginRegister(p) \/ RefuseStartDate(p) \/ BeginEnd(p)

Serve(p) == \/ Lookup(p) \/ LockCar(p) \/ LockRental(p) \/ FlushEnd(p)
            \/ UpdateCar(p) \/ CheckAvailable(p) \/ CheckNotOut(p) \/ Retire(p)
            \/ InsertCar(p) \/ InsertRental(p) \/ MarkInUse(p)
            \/ Commit(p) \/ Publish(p) \/ ReadBack(p) \/ Reply(p)

Next == \/ \E p \in Request : Arrive(p) \/ Serve(p) \/ CommitUnacknowledged(p) \/ Abort(p)
        \/ Crash
        \/ Tick

Spec == Init /\ [][Next]_vars

\* A thread keeps running, and PostgreSQL queues the waiters of a row lock in
\* order, so a request that may take its next step again and again takes it.
FairSpec == Spec /\ \A p \in Request : SF_vars(Serve(p))

----------------------------------------------------------------------------
(* Why it works on PostgreSQL: the inductive invariant of the proofs.       *)

\* The statements of each operation.
Route(op) ==
  CASE op = "none"     -> {"idle"}
    [] op = "add"      -> {"insert", "commit", "publish", "reply"}
    [] op = "update"   -> {"lockCar", "decide", "commit", "publish", "readBack", "reply"}
    [] op = "delete"   -> {"lockCar", "decide", "retire", "commit", "publish", "reply"}
    [] op = "register" -> {"lockCar", "decide", "insert", "markInUse", "commit", "publish",
                           "reply"}
    [] op = "end"      -> {"lookup", "lockCar", "lockRental", "flush", "commit", "publish",
                           "readBack", "reply"}

ArgumentsOK(p) ==
  /\ pc[p] \in Route(call[p].op)
  /\ call[p].op \in {"add", "update", "delete", "register"} => call[p].car \in Car
  /\ call[p].op = "add" => call[p].details \in Details
  /\ call[p].op = "end" => call[p].rental \in Rental /\ call[p].today \in 0..day
  /\ call[p].op = "register" /\ pc[p] \in InTransaction =>
        call[p].rental \in Rental /\ call[p].today \in 0..day

\* An id drawn for an insert is nobody else's; a rental's car never changes.
IdsOK(p) ==
  /\ call[p].op = "add" /\ pc[p] \in InTransaction => cars[call[p].car] = NULL
  /\ call[p].op = "register" /\ pc[p] \in InTransaction => rentals[call[p].rental] = NULL
  /\ call[p].op = "end" /\ pc[p] \in InTransaction \ {"lookup"} =>
        /\ call[p].car \in Car
        /\ rentals[call[p].rental] # NULL
        /\ rentals[call[p].rental].car = call[p].car

\* From its locked read of the car to its end, a transaction holds the car.
PastCarLock(p) ==
  call[p].op # "add" /\ pc[p] \in InTransaction \ {"lookup", "lockCar"}

CarLocked(p) ==
  PastCarLock(p) => carLock[call[p].car] = p /\ IsLive(cars[call[p].car])

\* So the copies it decides on are the committed rows, and what it decided
\* is still right when it commits.
Rentable(p) == cars[call[p].car].status = "available" /\ OpenRentals(call[p].car) = {}

Returnable(p) == /\ IsOpen(rentals[call[p].rental])
                 /\ rentals[call[p].rental].start <= call[p].today

NewRental(p) == [car |-> call[p].car, start |-> call[p].today, returned |-> NULL]

CopiesFresh(p) ==
  /\ pc[p] \in {"decide", "lockRental", "retire", "markInUse", "flush"}
        \/ (pc[p] = "insert" /\ call[p].op = "register")
       => tx[p].car = cars[call[p].car]
  /\ pc[p] = "insert" /\ call[p].op = "register" => Rentable(p)
  /\ pc[p] = "markInUse" => Rentable(p) /\ tx[p].rental = NewRental(p)
  /\ pc[p] = "retire" => OpenRentals(call[p].car) = {}
  /\ pc[p] = "flush" => Returnable(p) /\ tx[p].rental = rentals[call[p].rental]

DecisionHolds(p) ==
  pc[p] = "commit" =>
    LET row == cars[call[p].car]
        rental == rentals[call[p].rental]
    IN /\ call[p].op = "add" =>
            /\ tx[p].dirty = CarColumns
            /\ tx[p].car = [fleet |-> "live", status |-> "available",
                            details |-> call[p].details]
       /\ call[p].op = "update" =>
            /\ UpdateVerdict(call[p], row) = "ok"
            /\ tx[p].dirty = ChangedColumns(call[p], row)
            /\ "status" \in tx[p].dirty => tx[p].car.status = call[p].status
            /\ "details" \in tx[p].dirty => tx[p].car.details = call[p].details
       /\ call[p].op = "delete" =>
            /\ OpenRentals(call[p].car) = {}
            /\ tx[p].dirty = {"fleet"}
            /\ tx[p].car.fleet = "retired"
       /\ call[p].op = "register" =>
            /\ Rentable(p)
            /\ tx[p].dirty = {"rental", "status"}
            /\ tx[p].car.status = "in_use"
            /\ tx[p].rental = NewRental(p)
       /\ call[p].op = "end" =>
            /\ Returnable(p)
            /\ tx[p].dirty = IF row.status = "available" THEN {"rental"}
                                                        ELSE {"rental", "status"}
            /\ tx[p].car.status = "available"
            /\ tx[p].rental = [rental EXCEPT !.returned = call[p].today]

RequestOK(p) == /\ ArgumentsOK(p) /\ IdsOK(p) /\ CarLocked(p)
                /\ CopiesFresh(p) /\ DecisionHolds(p)

IdsDistinct ==
  \A p, q \in Request : p # q =>
    /\ call[p].op = "add" /\ call[q].op = "add" => call[p].car # call[q].car
    /\ call[p].op = "register" /\ call[q].op = "register" /\ call[p].rental # NULL
         => call[p].rental # call[q].rental

ServiceInv == TypeOK /\ IdsDistinct /\ \A p \in Request : RequestOK(p)

----------------------------------------------------------------------------
(* Properties.  RentedIffInUse, RetiredCarsAreFree, OneOpenRentalPerCar and  *)
(* ClosedRecordsFrozen of FleetTables speak of the committed tables here.    *)

\* Every committed transaction is one of the contract's operations, applied to
\* the newest rows: no lost update, no decision on a stale copy.
ContractSpec == Contract!Spec

\* The car lock and the service's own checks keep every transaction away from
\* the unique index and the CHECK on returned_date: no request ends in a 500
\* because the database had to refuse its rows.
BackstopsNeverReached == \A p \in Request : answer[p] # "IntegrityError"

\* What the service has told others of a request: its event goes out, or a 2xx.
Promised(p) == pc[p] = "publish" \/ answer[p] = "ok"

\* Everything p asked for is in the tables.
Shows(p) ==
  LET car == cars[call[p].car]
      rental == rentals[call[p].rental]
  IN CASE call[p].op = "add"      -> car = [fleet |-> "live", status |-> "available",
                                            details |-> call[p].details]
       [] call[p].op = "update"   -> car # NULL /\ ChangedColumns(call[p], car) = {}
       [] call[p].op = "delete"   -> car # NULL /\ car.fleet = "retired"
       [] call[p].op = "register" -> rental = NewRental(p) /\ car.status = "in_use"
       [] call[p].op = "end"      -> /\ rental # NULL /\ rental.returned = call[p].today
                                     /\ car.status = "available"

\* As much of it as no later request may undo.
Lasts(p) ==
  LET car == cars[call[p].car]
      rental == rentals[call[p].rental]
  IN CASE call[p].op = "register" -> /\ rental # NULL /\ rental.car = call[p].car
                                     /\ rental.start = call[p].today
       [] call[p].op = "end"      -> rental # NULL /\ rental.returned = call[p].today
       [] call[p].op = "delete"   -> car # NULL /\ car.fleet = "retired"
       [] OTHER                   -> car # NULL

\* An event goes out, and success is answered, only for what is committed: in the
\* very step that promises it the tables show all that was asked for, an event
\* only if that step changed them; and what no later request may undo is there
\* until the answer is out, whatever other requests commit before it.
EventTellsTruth ==
  [][\A p \in Request : Promised(p)' =>
       /\ Lasts(p)'
       /\ ~Promised(p) => Shows(p)'
       /\ pc'[p] = "publish" /\ pc[p] # "publish"
            => cars' # cars \/ rentals' # rentals]_vars

\* The rules that the committed tables, read at this moment, break for a call.
Objection(p) ==
  LET car == cars[call[p].car]
      rental == rentals[call[p].rental]
  IN CASE call[p].op = "update" /\ IsLive(car) -> UpdateVerdict(call[p], car)
       [] call[p].op = "register" /\ IsLive(car) ->
            RegisterVerdict(car, OpenRentals(call[p].car))
       [] call[p].op = "delete" /\ IsLive(car) -> DeleteVerdict(OpenRentals(call[p].car))
       [] call[p].op = "end" /\ rental = NULL -> "RentalNotFoundError"
       [] call[p].op = "end" /\ rental # NULL /\ IsLive(cars[rental.car]) ->
            EndVerdict(rental, call[p].today)
       [] OTHER -> "CarNotFoundError"

\* A domain error tells the client the truth at the moment it is raised: the
\* committed tables break the rule it names, not a copy read earlier.  (A wrong
\* start date is refused on arrival, from the clock alone.)
RefusalsTellTruth ==
  [][\A p \in Request :
       pc[p] \in InTransaction /\ answer'[p] \in DomainError
         => answer'[p] = Objection(p)]_vars

\* end_rental misses the car of no rental that is still out: when it answers
\* CarNotFoundError the rental has been returned and its car retired since.
EndMissesOnlyRetiredCars ==
  \A p \in Request :
    call[p].op = "end" /\ answer[p] = "CarNotFoundError"
      => rentals[call[p].rental].returned # NULL

\* rental_service.py:116 calls that branch unreachable.
EndAlwaysFindsItsCar ==
  \A p \in Request : call[p].op = "end" => answer[p] # "CarNotFoundError"

\* What was closed is never open again, on SQLite too, where two requests may end
\* one rental and update a car that is being deleted: a stored rental keeps its
\* car and its start, a returned one stays returned, a retired car stays retired.
ClosedStaysClosed ==
  [][/\ \A r \in Rental : rentals[r] # NULL =>
          /\ rentals'[r] # NULL
          /\ rentals'[r].car = rentals[r].car /\ rentals'[r].start = rentals[r].start
          /\ rentals[r].returned # NULL => rentals'[r].returned # NULL
     /\ \A c \in Car : cars[c] # NULL =>
          /\ cars'[c] # NULL
          /\ cars[c].fleet = "retired" => cars'[c].fleet = "retired"]_vars

\* q has what p's next statement needs: the row's lock, the entry of the unique
\* index, or SQLite's writer lock.
WaitsFor(p, q) ==
  \/ pc[p] = "lockCar" /\ IsLive(cars[call[p].car]) /\ carLock[call[p].car] = q
  \/ pc[p] = "lockRental" /\ rentalLock[call[p].rental] = q
  \/ /\ pc[p] = "insert" /\ call[p].op = "register" /\ q # p
     /\ HasIndexEntry(q, call[p].car)
  \/ /\ pc[p] \in {"insert", "markInUse", "retire", "flush"}
          \/ (pc[p] = "decide" /\ call[p].op = "update")
     /\ writer = q /\ q # p

\* No two requests ever wait for each other, in a circle of any length: who is
\* waited for is in the middle of a transaction and waits for nobody.  The car
\* is locked before the rental by all who lock both, and nobody who left his
\* transaction, by whatever exception, is still waited for.
WaitsAreShort ==
  \A p, q \in Request :
    WaitsFor(p, q) => pc[q] \in InTransaction /\ \A s \in Request : ~WaitsFor(q, s)

\* How many statements a request still sends, at most, before its answer.
StatementsLeft(p) ==
  CASE pc[p] = "lookup"                           -> 10
    [] pc[p] = "lockCar"                          -> 9
    [] pc[p] \in {"decide", "lockRental"}         -> 8
    [] pc[p] = "insert"                           -> 7
    [] pc[p] = "markInUse"                        -> 6
    [] pc[p] \in {"retire", "flush"}              -> 5
    [] pc[p] = "commit"                           -> 4
    [] pc[p] = "publish"                          -> 3
    [] pc[p] = "readBack"                         -> 2
    [] pc[p] = "reply"                            -> 1
    [] pc[p] = "idle"                             -> 0

\* A request that has arrived only moves on: none is begun again, by itself after
\* a failure or a lost wait, or by what another request does.
RequestsOnlyMoveOn ==
  [][\A p \in Request :
       pc[p] # "idle" /\ pc'[p] # pc[p] => StatementsLeft(p)' < StatementsLeft(p)]_vars

\* Every request is answered, or dies with its process: no wait for a row lock
\* lasts for ever, in whatever order the requests take the locks.
EveryRequestEnds == \A p \in Request : pc[p] # "idle" ~> pc[p] = "idle"
============================================================================
