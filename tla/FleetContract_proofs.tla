------------------------ MODULE FleetContract_proofs ------------------------
(***************************************************************************)
(* The promises of FleetContract hold for any number of cars and rentals.   *)
(***************************************************************************)
EXTENDS FleetContract, FleetTables_proofs

\* Every operation of the contract keeps the tables consistent.
LEMMA StepKeepsTablesInv == TablesInv /\ [Next]_tables => TablesInv'
<1> SUFFICES ASSUME TablesInv, [Next]_tables PROVE TablesInv'
  OBVIOUS
<1>0. cars \in [Car -> CarRow \cup {NULL}] /\ rentals \in [Rental -> RentalRow \cup {NULL}]
  BY DEF TablesInv, TablesOK
<1>1. ASSUME NEW c \in Car, NEW d \in Details, Add(c, d) PROVE TablesInv'
  BY <1>1, AddKeepsInv DEF Add
<1>2. ASSUME NEW c \in Car, NEW body \in Body, Change(c, body) PROVE TablesInv'
  <2>1. cars[c] \in CarRow /\ IsLive(cars[c]) /\ cars[c].fleet = "live"
    BY <1>0, <1>2 DEF Change, IsLive
  <2>2. PICK car : car = [fleet   |-> "live",
                          status  |-> IF body.status = NULL THEN cars[c].status ELSE body.status,
                          details |-> IF body.details = NULL THEN cars[c].details
                                                            ELSE body.details]
    OBVIOUS
  <2>3. car \in CarRow /\ car.fleet = "live" /\ (car.status = "in_use" <=> cars[c].status = "in_use")
    BY <1>2, <2>1, <2>2, UpdateKeepsInUse DEF Change, Body
  <2>4. cars' = [cars EXCEPT ![c] = car] /\ UNCHANGED <<rentals, day>>
    BY <1>2, <2>2 DEF Change
  <2> QED BY <2>1, <2>3, <2>4, ChangeKeepsInv
<1>3. ASSUME NEW c \in Car, Retire(c) PROVE TablesInv'
  BY <1>3, RetireKeepsInv DEF Retire
<1>4. ASSUME NEW c \in Car, NEW r \in Rental, NEW start \in Day, Rent(c, r, start)
      PROVE  TablesInv'
  <2>1. cars[c] \in CarRow /\ IsLive(cars[c]) /\ cars[c].fleet = "live"
    BY <1>0, <1>4 DEF Rent, IsLive
  <2>2. PICK row \in RentalRow : row = [car |-> c, start |-> start, returned |-> NULL]
    BY DEF RentalRow
  <2>3. PICK car \in CarRow : car = [fleet |-> cars[c].fleet, status |-> "in_use",
                                    details |-> cars[c].details]
    BY <2>1 DEF CarRow, CarStatus
  <2>4. cars' = [cars EXCEPT ![c] = [fleet |-> cars[c].fleet, status |-> "in_use",
                                     details |-> cars[c].details]]
    <3>1. cars' = [cars EXCEPT ![c].status = "in_use"]
      BY <1>4 DEF Rent
    <3>2. cars \in [Car -> CarRow \cup {NULL}] /\ cars[c] \in CarRow
      BY <1>0, <2>1
    <3>3. [cars[c] EXCEPT !.status = "in_use"] =
          [fleet |-> cars[c].fleet, status |-> "in_use", details |-> cars[c].details]
      BY <3>2 DEF CarRow
    <3> QED BY <3>1, <3>3
  <2>5. /\ rentals' = [rentals EXCEPT ![r] = row] /\ rentals[r] = NULL
        /\ OpenRentals(c) = {} /\ UNCHANGED day
    BY <1>4, <2>2 DEF Rent
  <2> QED BY <2>1, <2>2, <2>3, <2>4, <2>5, RentKeepsInv
<1>5. ASSUME NEW r \in Rental, NEW returned \in Day, Return(r, returned) PROVE TablesInv'
  <2>1. rentals[r] \in RentalRow /\ IsOpen(rentals[r]) /\ IsLive(cars[rentals[r].car])
    BY <1>0, <1>5 DEF Return, IsOpen
  <2>2. PICK c \in Car : c = rentals[r].car
    BY <2>1 DEF RentalRow
  <2>3. cars[c] \in CarRow /\ cars[c].fleet = "live"
    BY <1>0, <2>1, <2>2 DEF IsLive
  <2>4. PICK row \in RentalRow : row = [car |-> rentals[r].car, start |-> rentals[r].start,
                                       returned |-> returned]
    BY <2>1 DEF RentalRow
  <2>5. rentals' = [rentals EXCEPT ![r] = [car |-> rentals[r].car, start |-> rentals[r].start,
                                           returned |-> returned]]
    <3>1. rentals' = [rentals EXCEPT ![r].returned = returned]
      BY <1>5 DEF Return
    <3> QED BY <1>0, <2>1, <3>1, SetReturned
  <2>6. PICK car \in CarRow : car = [fleet |-> cars[c].fleet, status |-> "available",
                                    details |-> cars[c].details]
    BY <2>3 DEF CarRow, CarStatus
  <2>7. cars' = [cars EXCEPT ![c] = [fleet |-> cars[c].fleet, status |-> "available",
                                     details |-> cars[c].details]]
    <3>1. cars' = [cars EXCEPT ![c].status = "available"]
      BY <1>5, <2>2 DEF Return
    <3>2. [cars[c] EXCEPT !.status = "available"] =
          [fleet |-> cars[c].fleet, status |-> "available", details |-> cars[c].details]
      BY <2>3 DEF CarRow
    <3> QED BY <3>1, <3>2
  <2>8. row.returned # NULL /\ UNCHANGED day
    BY <1>5, <2>4, FleetAssumption DEF Return
  <2> QED BY <2>1, <2>2, <2>3, <2>4, <2>5, <2>6, <2>7, <2>8, ReturnKeepsInv
<1>6. ASSUME Tick PROVE TablesInv'
  BY <1>6, FleetAssumption, StutterKeepsInv DEF Tick, TablesInv, TablesOK, Day
<1>7. CASE UNCHANGED tables
  BY <1>7, StutterKeepsInv DEF tables, TablesInv, TablesOK
<1> QED BY <1>1, <1>2, <1>3, <1>4, <1>5, <1>6, <1>7 DEF Next

\* In the contract, a car's status says in_use exactly while one rental of it
\* is open, and no retired car is out.
THEOREM ContractKeepsTables == Spec => []TablesInv
<1>1. Init => TablesInv
  BY FleetAssumption DEF Init, TablesInit, TablesInv, TablesOK, Day, RentedIffInUse,
     RetiredCarsAreFree, OpenRentals, IsOpen
<1> QED BY <1>1, StepKeepsTablesInv, PTL DEF Spec
============================================================================
