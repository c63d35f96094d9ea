--------------------------- MODULE FleetContract ---------------------------
(***************************************************************************)
(* What the service layer promises about the two tables: each operation     *)
(* happens at once, on the newest committed rows, or not at all.            *)
(* FleetService, where an operation is a transaction of several statements  *)
(* running beside others, implements this specification.                    *)
(***************************************************************************)
EXTENDS FleetTables

\* A car joins the fleet, free.
Add(c, d) ==
  /\ cars[c] = NULL
  /\ cars' = [cars EXCEPT ![c] = [fleet |-> "live", status |-> "available", details |-> d]]
  /\ UNCHANGED <<rentals, day>>

\* A live car's details or its maintenance status change.
Change(c, body) ==
  /\ IsLive(cars[c])
  /\ ChangedColumns(body, cars[c]) # {}
  /\ UpdateVerdict(body, cars[c]) = "ok"
  /\ cars' = [cars EXCEPT ![c] =
        [fleet   |-> "live",
         status  |-> IF body.status = NULL THEN @.status ELSE body.status,
         details |-> IF body.details = NULL THEN @.details ELSE body.details]]
  /\ UNCHANGED <<rentals, day>>

\* A car nobody has out leaves the fleet.
Retire(c) ==
  /\ IsLive(cars[c])
  /\ OpenRentals(c) = {}
  /\ cars' = [cars EXCEPT ![c].fleet = "retired"]
  /\ UNCHANGED <<rentals, day>>

\* A free car goes out.  The start date is the day of the call, which may have
\* begun before midnight.
Rent(c, r, start) ==
  /\ IsLive(cars[c])
  /\ cars[c].status = "available"
  /\ OpenRentals(c) = {}
  /\ rentals[r] = NULL
  /\ start <= day
  /\ rentals' = [rentals EXCEPT ![r] = [car |-> c, start |-> start, returned |-> NULL]]
  /\ cars' = [cars EXCEPT ![c].status = "in_use"]
  /\ UNCHANGED day

\* The car of an open rental comes back.
Return(r, returned) ==
  /\ IsOpen(rentals[r])
  /\ IsLive(cars[rentals[r].car])
  /\ rentals[r].start <= returned /\ returned <= day
  /\ rentals' = [rentals EXCEPT ![r].returned = returned]
  /\ cars' = [cars EXCEPT ![rentals[r].car].status = "available"]
  /\ UNCHANGED day

Tick ==
  /\ day < MaxDay
  /\ day' = day + 1
  /\ UNCHANGED <<cars, rentals>>

Body == [details : Details \cup {NULL}, status : CarStatus \cup {NULL}]

Next ==
  \/ \E c \in Car, d \in Details : Add(c, d)
  \/ \E c \in Car, body \in Body : Change(c, body)
  \/ \E c \in Car : Retire(c)
  \/ \E c \in Car, r \in Rental, start \in Day : Rent(c, r, start)
  \/ \E r \in Rental, returned \in Day : Return(r, returned)
  \/ Tick

Init == TablesInit
Spec == Init /\ [][Next]_tables
============================================================================
