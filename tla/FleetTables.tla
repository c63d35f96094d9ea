---------------------------- MODULE FleetTables ----------------------------
(***************************************************************************)
(* The committed contents of DriveNow's two tables, cars and rentals, and   *)
(* what the repositories and the business rules read from them.             *)
(*                                                                         *)
(* A car's model and year are one abstract value, its Details; deleted_at   *)
(* is the field fleet.  A rental keeps the columns some rule reads: the car *)
(* it is for, the start date and the returned date (NULL while the car is   *)
(* out).  customer_name and end_date are stored and never read again.       *)
(***************************************************************************)
EXTENDS Naturals, FiniteSets

CONSTANTS Car,       \* the ids the cars table may ever hand out
          Rental,    \* the ids the rentals table may ever hand out
          Details,   \* the values of a car's (model, year)
          MaxDay,    \* bound: the calendar runs from day 0 to MaxDay
          NULL       \* SQL's NULL, Python's None: no row, no value, nobody

CarStatus == {"available", "in_use", "under_maintenance"}
Fleet     == {"live", "retired"}
Day       == 0..MaxDay

CarRow    == [fleet : Fleet, status : CarStatus, details : Details]
RentalRow == [car : Car, start : Day, returned : Day \cup {NULL}]

ASSUME FleetAssumption ==
  /\ MaxDay \in Nat
  /\ NULL \notin Car /\ NULL \notin Rental /\ NULL \notin Details
  /\ NULL \notin CarStatus /\ NULL \notin Day
  /\ NULL \notin CarRow
  /\ NULL \notin RentalRow

VARIABLES cars,      \* cars[c]: the committed row of car c, or NULL
          rentals,   \* rentals[r]: the committed row of rental r, or NULL
          day        \* what date.today() returns

tables == <<cars, rentals, day>>

TablesOK == /\ cars \in [Car -> CarRow \cup {NULL}]
            /\ rentals \in [Rental -> RentalRow \cup {NULL}]
            /\ day \in Day

TablesInit == /\ cars = [c \in Car |-> NULL]
              /\ rentals = [r \in Rental |-> NULL]
              /\ day = 0

----------------------------------------------------------------------------
(* What the repositories select. *)

\* The WHERE clause of every car read: the row exists and is not soft-deleted.
IsLive(row) == row # NULL /\ row.fleet = "live"

IsOpen(row) == row # NULL /\ row.returned = NULL

\* The open rentals of car c; get_active_by_car returns one of them, or None.
OpenRentals(c) == {r \in Rental : IsOpen(rentals[r]) /\ rentals[r].car = c}

----------------------------------------------------------------------------
(* The business rules.  Each returns "ok" or the exception that is raised.  *)

AllowedTargets(status) ==
  CASE status = "available"         -> {"available", "under_maintenance"}
    [] status = "under_maintenance" -> {"under_maintenance", "available"}
    [] status = "in_use"            -> {"in_use"}

\* The columns an update really changes: sent, and different from the row.
ChangedColumns(body, row) ==
  {f \in {"details", "status"} : body[f] # NULL /\ body[f] # row[f]}

UpdateVerdict(body, row) ==
  IF "status" \in ChangedColumns(body, row)
       /\ body.status \notin AllowedTargets(row.status)
  THEN "CarStatusTransitionError" ELSE "ok"

RegisterVerdict(row, open) ==
  IF row.status # "available" \/ open # {} THEN "CarNotAvailableError" ELSE "ok"

\* Mutant: delete_car does not look for an open rental.
DeleteVerdictAlwaysOk(open) == "ok"

DeleteVerdict(open) == IF open # {} THEN "CarHasActiveRentalError" ELSE "ok"

\* Mutant: an ended rental may be ended again.
EndVerdictAgain(row, today) ==
  CASE row = NULL        -> "RentalNotFoundError"
    [] today < row.start -> "RentalDateError"
    [] OTHER             -> "ok"

EndVerdict(row, today) ==
  CASE row = NULL          -> "RentalNotFoundError"
    [] ~IsOpen(row)        -> "RentalAlreadyEndedError"
    [] today < row.start   -> "RentalDateError"
    [] OTHER               -> "ok"

----------------------------------------------------------------------------
(* What must be true of the committed tables. *)

\* A car's status says in_use exactly while one rental of it is open: the
\* register_rental / end_rental pair keeps the two tables in step.
RentedIffInUse ==
  \A c \in Car :
    IF cars[c] # NULL /\ cars[c].status = "in_use"
    THEN \E r \in Rental : OpenRentals(c) = {r}
    ELSE OpenRentals(c) = {}

\* delete_car never retires a car that is out: an open rental is always of a
\* car that exists and is live, so it can be returned.
RetiredCarsAreFree ==
  \A r \in Rental : IsOpen(rentals[r]) => IsLive(cars[rentals[r].car])

\* At most one open rental per car: what the partial unique index promises.
OneOpenRentalPerCar ==
  \A r, s \in Rental :
    IsOpen(rentals[r]) /\ IsOpen(rentals[s]) /\ rentals[r].car = rentals[s].car
      => r = s

\* History is never rewritten: an ended rental and a retired car keep every
\* column they had when they were closed, whatever is called afterwards.
ClosedRecordsFrozen ==
  [][/\ \A r \in Rental :
          rentals[r] # NULL /\ rentals[r].returned # NULL => rentals'[r] = rentals[r]
     /\ \A c \in Car :
          cars[c] # NULL /\ cars[c].fleet = "retired" => cars'[c] = cars[c]]_tables
============================================================================
