------------------------- MODULE FleetTables_proofs -------------------------
(***************************************************************************)
(* Lemmas about changes of the two tables, for the proofs about the modules *)
(* that make them.                                                          *)
(***************************************************************************)
EXTENDS FleetTables, TLAPS

\* Setting fleet is writing the row anew with its other columns kept.
LEMMA SetFleet ==
  ASSUME NEW T \in [Car -> CarRow \cup {NULL}], NEW c \in Car, T[c] \in CarRow, NEW f
  PROVE  [T EXCEPT ![c].fleet = f] =
         [T EXCEPT ![c] = [fleet |-> f, status |-> T[c].status, details |-> T[c].details]]
<1>1. [T[c] EXCEPT !.fleet = f] =
      [fleet |-> f, status |-> T[c].status, details |-> T[c].details]
  BY DEF CarRow
<1> QED BY <1>1

\* Setting status is writing the row anew with its other columns kept.
LEMMA SetStatus ==
  ASSUME NEW T \in [Car -> CarRow \cup {NULL}], NEW c \in Car, T[c] \in CarRow, NEW s
  PROVE  [T EXCEPT ![c].status = s] =
         [T EXCEPT ![c] = [fleet |-> T[c].fleet, status |-> s, details |-> T[c].details]]
<1>1. [T[c] EXCEPT !.status = s] =
      [fleet |-> T[c].fleet, status |-> s, details |-> T[c].details]
  BY DEF CarRow
<1> QED BY <1>1

\* Setting returned is writing the rental anew with its other columns kept.
LEMMA SetReturned ==
  ASSUME NEW T \in [Rental -> RentalRow \cup {NULL}], NEW r \in Rental, T[r] \in RentalRow,
         NEW returned
  PROVE  [T EXCEPT ![r].returned = returned] =
         [T EXCEPT ![r] = [car |-> T[r].car, start |-> T[r].start, returned |-> returned]]
<1>1. [T[r] EXCEPT !.returned = returned] =
      [car |-> T[r].car, start |-> T[r].start, returned |-> returned]
  BY DEF RentalRow
<1> QED BY <1>1

----------------------------------------------------------------------------
(* Each operation of the contract, whoever performs it, keeps the promises  *)
(* about the tables.  They need each other: a car is retired only when it   *)
(* has no open rental, and a rental is opened only for a live car.          *)

TablesInv == TablesOK /\ RentedIffInUse /\ RetiredCarsAreFree

\* add_car: a new car is free, so the tables stay in step.
LEMMA AddKeepsInv ==
  ASSUME TablesInv, NEW c \in Car, NEW d \in Details, cars[c] = NULL,
         cars' = [cars EXCEPT ![c] = [fleet |-> "live", status |-> "available", details |-> d]],
         UNCHANGED <<rentals, day>>
  PROVE  TablesInv'
<1> USE FleetAssumption DEF TablesInv
<1>1. cars' = [cars EXCEPT ![c] = [fleet |-> "live", status |-> "available", details |-> d]]
      /\ rentals' = rentals /\ day' = day /\ cars[c] = NULL
  OBVIOUS
<1>2. TablesOK'
  BY <1>1 DEF TablesOK, CarRow, Fleet, CarStatus
<1>3. \A x \in Car : OpenRentals(x)' = OpenRentals(x)
  BY <1>1 DEF OpenRentals
<1>4. RentedIffInUse'
  BY <1>1, <1>3 DEF RentedIffInUse, TablesOK
<1>5. RetiredCarsAreFree'
  BY <1>1 DEF RetiredCarsAreFree, TablesOK, IsLive, IsOpen, RentalRow
<1> QED BY <1>2, <1>4, <1>5

\* An update_car may neither put a car in use nor take it out of use.
LEMMA UpdateKeepsInUse ==
  ASSUME NEW row \in CarRow, row.fleet = "live", NEW body, NEW car,
         body.details \in Details \cup {NULL}, body.status \in CarStatus \cup {NULL},
         UpdateVerdict(body, row) = "ok",
         car = [fleet   |-> "live",
                status  |-> IF body.status = NULL THEN row.status ELSE body.status,
                details |-> IF body.details = NULL THEN row.details ELSE body.details]
  PROVE  /\ car \in CarRow /\ car.fleet = "live"
         /\ car.status = "in_use" <=> row.status = "in_use"
<1>1. car.status = "in_use" <=> row.status = "in_use"
  <2>1. CASE body.status = NULL \/ body.status = row.status
    BY <2>1
  <2>2. CASE body.status # NULL /\ body.status # row.status
    <3>1. "status" \in ChangedColumns(body, row)
      BY <2>2 DEF ChangedColumns
    <3>2. body.status \in AllowedTargets(row.status)
      BY <3>1 DEF UpdateVerdict
    <3>3. row.status \in CarStatus
      BY DEF CarRow
    <3> QED BY <2>2, <3>2, <3>3 DEF AllowedTargets, CarStatus
  <2> QED BY <2>1, <2>2
<1> QED BY <1>1 DEF CarRow, Fleet

\* update_car keeps the tables in step: it moves no car in or out of in_use.
LEMMA ChangeKeepsInv ==
  ASSUME TablesInv, NEW c \in Car, NEW car \in CarRow,
         IsLive(cars[c]), car.fleet = "live", car.status = "in_use" <=> cars[c].status = "in_use",
         cars' = [cars EXCEPT ![c] = car], UNCHANGED <<rentals, day>>
  PROVE  TablesInv'
<1> USE FleetAssumption DEF TablesInv
<1>1. car # NULL /\ cars[c] # NULL
  BY DEF IsLive
<1>2. TablesOK'
  BY DEF TablesOK
<1>3. \A x \in Car : OpenRentals(x)' = OpenRentals(x)
  BY DEF OpenRentals
<1>4. cars'[c] = car /\ \A x \in Car \ {c} : cars'[x] = cars[x]
  BY DEF TablesOK
<1>5. RentedIffInUse'
  BY <1>1, <1>3, <1>4 DEF RentedIffInUse
<1>6. RetiredCarsAreFree'
  BY <1>1, <1>4 DEF RetiredCarsAreFree, TablesOK, IsLive, IsOpen, RentalRow
<1> QED BY <1>2, <1>5, <1>6

\* delete_car: a car without an open rental may go.
LEMMA RetireKeepsInv ==
  ASSUME TablesInv, NEW c \in Car, IsLive(cars[c]), OpenRentals(c) = {},
         cars' = [cars EXCEPT ![c].fleet = "retired"], UNCHANGED <<rentals, day>>
  PROVE  TablesInv'
<1> USE FleetAssumption DEF TablesInv
<1>1. rentals' = rentals /\ day' = day /\ OpenRentals(c) = {} /\ cars[c] \in CarRow
      /\ cars' = [cars EXCEPT ![c] = [fleet |-> "retired", status |-> cars[c].status,
                                      details |-> cars[c].details]]
  BY SetFleet DEF IsLive, TablesOK
<1>2. TablesOK'
  BY <1>1 DEF TablesOK, CarRow, Fleet
<1>3. \A x \in Car : OpenRentals(x)' = OpenRentals(x)
  BY <1>1 DEF OpenRentals
<1>4. RentedIffInUse'
  BY <1>1, <1>3 DEF RentedIffInUse, TablesOK
<1>5. RetiredCarsAreFree'
  BY <1>1 DEF RetiredCarsAreFree, OpenRentals, TablesOK, IsLive, IsOpen, RentalRow
<1> QED BY <1>2, <1>4, <1>5

\* register_rental opens a rental and marks its car in the same commit.
LEMMA RentKeepsInv ==
  ASSUME TablesInv, NEW c \in Car, NEW r \in Rental, NEW row \in RentalRow, NEW car \in CarRow,
         IsLive(cars[c]), OpenRentals(c) = {}, rentals[r] = NULL,
         row.car = c, row.returned = NULL, car.fleet = "live", car.status = "in_use",
         rentals' = [rentals EXCEPT ![r] = row], cars' = [cars EXCEPT ![c] = car], UNCHANGED day
  PROVE  TablesInv'
<1> USE FleetAssumption DEF TablesInv
<1>1. row # NULL /\ car # NULL
  OBVIOUS
<1>2. TablesOK'
  BY DEF TablesOK
<1>3. OpenRentals(c)' = {r}
  BY <1>1 DEF OpenRentals, IsOpen, TablesOK
<1>4. \A x \in Car \ {c} : OpenRentals(x)' = OpenRentals(x)
  BY <1>1 DEF OpenRentals, IsOpen, TablesOK
<1>5. cars'[c] = car /\ \A x \in Car \ {c} : cars'[x] = cars[x]
  BY DEF TablesOK
<1>6. RentedIffInUse'
  BY <1>1, <1>3, <1>4, <1>5 DEF RentedIffInUse
<1>7. RetiredCarsAreFree'
  <2>1. \A x \in Car : IsLive(cars[x]) => IsLive(cars'[x])
    BY <1>1, <1>5 DEF IsLive
  <2>2. \A q \in Rental : IF q = r THEN rentals'[q] = row ELSE rentals'[q] = rentals[q]
    BY DEF TablesOK
  <2> QED BY <2>1, <2>2 DEF RetiredCarsAreFree, TablesOK, IsOpen, RentalRow
<1> QED BY <1>2, <1>6, <1>7

\* end_rental closes the car's only open rental and frees the car.
LEMMA ReturnKeepsInv ==
  ASSUME TablesInv, NEW c \in Car, NEW r \in Rental, NEW row \in RentalRow, NEW car \in CarRow,
         IsOpen(rentals[r]), rentals[r].car = c, IsLive(cars[c]),
         row.car = c, row.returned # NULL, car.fleet = "live", car.status = "available",
         rentals' = [rentals EXCEPT ![r] = row], cars' = [cars EXCEPT ![c] = car], UNCHANGED day
  PROVE  TablesInv'
<1> USE FleetAssumption DEF TablesInv
<1>1. row # NULL /\ car # NULL
  OBVIOUS
<1>2. TablesOK'
  BY DEF TablesOK
<1>3. OpenRentals(c) = {r}
  BY DEF RentedIffInUse, OpenRentals, IsOpen
<1>4. OpenRentals(c)' = {}
  BY <1>1, <1>3 DEF OpenRentals, IsOpen, TablesOK
<1>5. \A x \in Car \ {c} : OpenRentals(x)' = OpenRentals(x)
  BY <1>1 DEF OpenRentals, IsOpen, TablesOK
<1>6. cars'[c] = car /\ \A x \in Car \ {c} : cars'[x] = cars[x]
  BY DEF TablesOK
<1>7. RentedIffInUse'
  BY <1>1, <1>4, <1>5, <1>6 DEF RentedIffInUse
<1>8. RetiredCarsAreFree'
  <2>1. \A x \in Car : IsLive(cars[x]) => IsLive(cars'[x])
    BY <1>1, <1>6 DEF IsLive
  <2>2. \A q \in Rental : IsOpen(rentals'[q]) => rentals'[q] = rentals[q]
    BY <1>1 DEF TablesOK, IsOpen
  <2> QED BY <2>1, <2>2 DEF RetiredCarsAreFree, TablesOK, IsOpen, RentalRow
<1> QED BY <1>2, <1>7, <1>8

\* What leaves both tables alone keeps them in step.
LEMMA StutterKeepsInv ==
  ASSUME TablesInv, UNCHANGED <<cars, rentals>>, day' \in Day
  PROVE  TablesInv'
BY DEF TablesInv, TablesOK, RentedIffInUse, RetiredCarsAreFree, OpenRentals
============================================================================
