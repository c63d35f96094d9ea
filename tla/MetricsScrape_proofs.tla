------------------------- MODULE MetricsScrape_proofs -------------------------
(***************************************************************************)
(* An undisturbed scrape is exact, for any number of scrapes, cars, rentals *)
(* and any history of torn scrapes and restarts.                            *)
(***************************************************************************)
EXTENDS MetricsScrape, FleetContract_proofs, FiniteSetTheorems

\* Where scrape p has set the gauge of status s.
Passed(p, s) ==
  CASE pc[p] = "available"         -> FALSE
    [] pc[p] = "in_use"            -> s = "available"
    [] pc[p] = "under_maintenance" -> s # "under_maintenance"
    [] OTHER                       -> TRUE

\* Scrape p has read what is still in the tables, and the gauges it has set
\* since are as it left them.
Exact(p) ==
  /\ byStatus[p] = CountByStatus
  /\ \A s \in CarStatus : Passed(p, s) => carGauge[s] = Cardinality(LiveCars(s))
  /\ pc[p] \in {"setRentals", "generate", "answered"} => active[p] = CountActive
  /\ pc[p] \in {"generate", "answered"} => rentalGauge = CountActive
  /\ pc[p] = "answered" => response[p] = [cars |-> carGauge, rentals |-> rentalGauge]

Undisturbed(p) == quiet[p] /\ pc[p] # "idle" => Alone(p) /\ Exact(p)

ScrapeInv ==
  /\ TypeOK /\ TablesInv
  /\ byStatus = [p \in Scraper |-> byStatus[p]]
  /\ \A p \in Scraper : response[p] # NULL => pc[p] = "answered"
  /\ \A p \in Scraper : Undisturbed(p)

----------------------------------------------------------------------------
\* The two queries return counts.
LEMMA Counts ==
  /\ \A s \in CarStatus : Cardinality(LiveCars(s)) \in Count
  /\ \A s \in CarStatus : LiveCars(s) # {} => Cardinality(LiveCars(s)) # 0
  /\ CountActive \in 0..Cardinality(Rental)
<1>1. ASSUME NEW s \in CarStatus
      PROVE  /\ Cardinality(LiveCars(s)) \in Count
             /\ LiveCars(s) # {} => Cardinality(LiveCars(s)) # 0
  <2>1. LiveCars(s) \in SUBSET Car
    BY DEF LiveCars
  <2>2. IsFiniteSet(LiveCars(s)) /\ Cardinality(LiveCars(s)) <= Cardinality(Car)
    BY <2>1, ScrapeAssumption, FS_Subset
  <2>3. Cardinality(LiveCars(s)) \in Nat /\ Cardinality(Car) \in Nat
    BY <2>2, ScrapeAssumption, FS_CardinalityType
  <2>4. LiveCars(s) # {} => Cardinality(LiveCars(s)) # 0
    BY <2>2, FS_EmptySet
  <2> QED BY <2>2, <2>3, <2>4 DEF Count
<1>2. CountActive \in 0..Cardinality(Rental)
  <2>1. PICK S \in SUBSET Rental : S = {r \in Rental : IsOpen(rentals[r])}
    OBVIOUS
  <2>2. IsFiniteSet(S) /\ Cardinality(S) <= Cardinality(Rental)
    BY ScrapeAssumption, FS_Subset
  <2>3. Cardinality(S) \in Nat /\ Cardinality(Rental) \in Nat
    BY <2>2, ScrapeAssumption, FS_CardinalityType
  <2> QED BY <2>1, <2>2, <2>3 DEF CountActive
<1> QED BY <1>1, <1>2

\* The query's row for a status, or 0 where it has none, is the number of its
\* cars.
LEMMA NoRowMeansNone ==
  ASSUME NEW s \in CarStatus
  PROVE  (IF s \in DOMAIN CountByStatus THEN CountByStatus[s] ELSE 0) = Cardinality(LiveCars(s))
<1>1. CASE LiveCars(s) = {}
  <2>1. s \notin DOMAIN CountByStatus
    BY <1>1 DEF CountByStatus
  <2> QED BY <1>1, <2>1, FS_EmptySet
<1>2. CASE LiveCars(s) # {}
  BY <1>2 DEF CountByStatus
<1> QED BY <1>1, <1>2

\* While the tables stand still, so do the queries' results.
LEMMA SameTablesSameCounts ==
  ASSUME UNCHANGED tables
  PROVE  /\ CountByStatus' = CountByStatus /\ CountActive' = CountActive
         /\ \A s \in CarStatus : Cardinality(LiveCars(s))' = Cardinality(LiveCars(s))
BY DEF tables, CountByStatus, CountActive, LiveCars

\* The gauges start at 0, and no scrape is under way.
LEMMA InitScrape == MInit => ScrapeInv
<1> SUFFICES ASSUME MInit PROVE ScrapeInv
  OBVIOUS
<1>1. TablesInv
  BY FleetAssumption DEF MInit, TablesInit, TablesInv, TablesOK, Day, RentedIffInUse,
     RetiredCarsAreFree, OpenRentals, IsOpen
<1>2. Cardinality(Car) \in Nat /\ Cardinality(Rental) \in Nat
  BY ScrapeAssumption, FS_CardinalityType
<1>3. TypeOK
  BY <1>1, <1>2 DEF MInit, InitScrapes, TypeOK, TablesInv, PC, CarStatus, Count, NoRows
<1> QED BY <1>1, <1>3 DEF MInit, InitScrapes, ScrapeInv, Undisturbed

----------------------------------------------------------------------------
\* The first query begins a scrape: it disturbs every other one.
LEMMA CountCarsKeepsInv ==
  ASSUME ScrapeInv, NEW p \in Scraper, CountCars(p)
  PROVE  ScrapeInv'
<1>0. UNCHANGED tables
  BY DEF CountCars
<1>1. TablesInv'
  BY <1>0, StepKeepsTablesInv DEF ScrapeInv
<1>2. /\ DOMAIN CountByStatus \subseteq CarStatus
      /\ \A s \in DOMAIN CountByStatus : CountByStatus[s] \in Count \ {0}
  BY Counts DEF CountByStatus
<1>3. byStatus'[p] = CountByStatus /\ \A q \in Scraper \ {p} : byStatus'[q] = byStatus[q]
  BY DEF CountCars, ScrapeInv
<1>4. TypeOK'
  BY <1>1, <1>2, <1>3 DEF ScrapeInv, TypeOK, TablesInv, CountCars, Goto, PC, CarStatus, gauges
<1>5. \A q \in Scraper : response'[q] # NULL => pc'[q] = "answered"
  BY DEF ScrapeInv, TypeOK, CountCars, Goto
<1>6. pc' = [pc EXCEPT ![p] = "available"] /\ pc'[p] = "available"
  BY DEF ScrapeInv, TypeOK, CountCars, Goto
<1>7. ASSUME NEW q \in Scraper PROVE Undisturbed(q)'
  <2>1. quiet'[q] = (q = p /\ Alone(p))
    BY DEF CountCars
  <2>2. CASE q = p
    <3>1. Alone(p) => Alone(p)'
      BY <1>6 DEF Alone
    <3>2. Exact(p)'
      BY <1>0, <1>3, <1>6, SameTablesSameCounts DEF Exact, Passed
    <3> QED BY <2>1, <2>2, <3>1, <3>2 DEF Undisturbed
  <2> QED BY <2>1, <2>2 DEF Undisturbed
<1>8. byStatus' = [q \in Scraper |-> byStatus'[q]]
  BY DEF CountCars, ScrapeInv
<1> QED BY <1>1, <1>4, <1>5, <1>7, <1>8 DEF ScrapeInv

\* A step of a scrape that was not alone, or of a scrape beside an undisturbed
\* one: there is none of the latter.
LEMMA OthersAreDisturbed ==
  ASSUME ScrapeInv, NEW p \in Scraper, NEW q \in Scraper \ {p}, pc[p] # "idle", UNCHANGED quiet,
         pc' = [pc EXCEPT ![p] = pc'[p]]
  PROVE  Undisturbed(q)'
<1>1. ~quiet[q] \/ pc[q] = "idle"
  BY DEF ScrapeInv, Undisturbed, Alone
<1>2. pc'[q] = pc[q]
  BY DEF ScrapeInv, TypeOK
<1> QED BY <1>1, <1>2 DEF Undisturbed

\* One turn of the loop over the statuses.
LEMMA SetCarGaugeKeepsInv ==
  ASSUME ScrapeInv, NEW p \in Scraper, SetCarGauge(p)
  PROVE  ScrapeInv'
<1>0. UNCHANGED tables
  BY DEF SetCarGauge
<1>1. TablesInv'
  BY <1>0, StepKeepsTablesInv DEF ScrapeInv
<1>2. PICK s \in CarStatus : s = pc[p]
  BY DEF SetCarGauge
<1>3. PICK n : n = IF s \in DOMAIN byStatus[p] THEN byStatus[p][s] ELSE 0
  OBVIOUS
<1>4. carGauge' = [carGauge EXCEPT ![s] = n] /\ pc' = [pc EXCEPT ![p] = After[s]]
  BY <1>2, <1>3 DEF SetCarGauge, Goto
<1>5. n \in Count
  <2>1. 0 \in Count
    BY ScrapeAssumption, FS_CardinalityType DEF Count
  <2> QED BY <1>3, <2>1 DEF ScrapeInv, TypeOK
<1>6. After[s] \in PC \ {"idle", "answered"}
  BY DEF After, CarStatus, PC
<1>7. TypeOK'
  BY <1>1, <1>4, <1>5, <1>6 DEF ScrapeInv, TypeOK, TablesInv, SetCarGauge
<1>8. pc[p] # "answered" /\ pc[p] # "idle"
  BY <1>2 DEF CarStatus
<1>9. \A q \in Scraper : response'[q] # NULL => pc'[q] = "answered"
  BY <1>4, <1>8 DEF ScrapeInv, TypeOK, SetCarGauge
<1>10. pc'[p] = After[s]
  BY <1>4 DEF ScrapeInv, TypeOK
<1>11. ASSUME quiet[p] PROVE Alone(p)' /\ Exact(p)'
  <2>1. Alone(p) /\ Exact(p)
    BY <1>8, <1>11 DEF ScrapeInv, Undisturbed
  <2>2. n = Cardinality(LiveCars(s))
    BY <1>3, <2>1, NoRowMeansNone DEF Exact
  <2>3. Alone(p)'
    BY <1>4, <2>1 DEF Alone, ScrapeInv, TypeOK
  <2>4. ASSUME NEW t \in CarStatus, Passed(p, t)' PROVE carGauge'[t] = Cardinality(LiveCars(t))'
    <3>1. t = s \/ Passed(p, t)
      BY <1>2, <1>10, <2>4 DEF Passed, After, CarStatus
    <3>2. carGauge'[t] = IF t = s THEN n ELSE carGauge[t]
      BY <1>4 DEF ScrapeInv, TypeOK
    <3> QED BY <1>0, <2>1, <2>2, <3>1, <3>2, SameTablesSameCounts DEF Exact
  <2>5. pc'[p] \notin {"setRentals", "generate", "answered"}
    BY <1>10 DEF After, CarStatus
  <2>6. byStatus'[p] = CountByStatus'
    BY <1>0, <2>1, SameTablesSameCounts DEF Exact, SetCarGauge
  <2> QED BY <2>3, <2>4, <2>5, <2>6 DEF Exact
<1>12. pc' = [pc EXCEPT ![p] = pc'[p]] /\ UNCHANGED <<quiet, byStatus>>
  BY <1>4, <1>10 DEF SetCarGauge
<1>13. \A q \in Scraper : Undisturbed(q)'
  BY <1>8, <1>11, <1>12, OthersAreDisturbed DEF Undisturbed
<1> QED BY <1>1, <1>7, <1>9, <1>12, <1>13 DEF ScrapeInv

\* The second query.
LEMMA CountRentalsKeepsInv ==
  ASSUME ScrapeInv, NEW p \in Scraper, CountRentals(p)
  PROVE  ScrapeInv'
<1>0. UNCHANGED tables
  BY DEF CountRentals
<1>1. TablesInv'
  BY <1>0, StepKeepsTablesInv DEF ScrapeInv
<1>2. /\ pc[p] = "countRentals" /\ pc' = [pc EXCEPT ![p] = "setRentals"]
      /\ active' = [active EXCEPT ![p] = CountActive]
      /\ UNCHANGED <<carGauge, rentalGauge, byStatus, response, quiet>>
  BY DEF CountRentals, Goto, gauges
<1>3. TypeOK'
  BY <1>1, <1>2, Counts DEF ScrapeInv, TypeOK, TablesInv, PC
<1>4. pc'[p] = "setRentals" /\ active'[p] = CountActive
  BY <1>2 DEF ScrapeInv, TypeOK
<1>5. \A q \in Scraper : response'[q] # NULL => pc'[q] = "answered"
  BY <1>2 DEF ScrapeInv, TypeOK
<1>6. ASSUME quiet[p] PROVE Alone(p)' /\ Exact(p)'
  <2>1. Alone(p) /\ Exact(p)
    BY <1>2, <1>6 DEF ScrapeInv, Undisturbed
  <2>2. Alone(p)'
    BY <1>2, <2>1 DEF Alone, ScrapeInv, TypeOK
  <2> QED BY <1>0, <1>2, <1>4, <2>1, <2>2, SameTablesSameCounts DEF Exact, Passed
<1>7. pc' = [pc EXCEPT ![p] = pc'[p]]
  BY <1>2, <1>4
<1>8. \A q \in Scraper : Undisturbed(q)'
  BY <1>2, <1>6, <1>7, OthersAreDisturbed DEF Undisturbed
<1> QED BY <1>1, <1>2, <1>3, <1>5, <1>8 DEF ScrapeInv

\* The gauge of the open rentals is set.
LEMMA SetRentalGaugeKeepsInv ==
  ASSUME ScrapeInv, NEW p \in Scraper, SetRentalGauge(p)
  PROVE  ScrapeInv'
<1>0. UNCHANGED tables
  BY DEF SetRentalGauge
<1>1. TablesInv'
  BY <1>0, StepKeepsTablesInv DEF ScrapeInv
<1>2. /\ pc[p] = "setRentals" /\ pc' = [pc EXCEPT ![p] = "generate"]
      /\ rentalGauge' = active[p]
      /\ UNCHANGED <<carGauge, byStatus, active, response, quiet>>
  BY DEF SetRentalGauge, Goto
<1>3. TypeOK'
  BY <1>1, <1>2 DEF ScrapeInv, TypeOK, TablesInv, PC
<1>4. pc'[p] = "generate"
  BY <1>2 DEF ScrapeInv, TypeOK
<1>5. \A q \in Scraper : response'[q] # NULL => pc'[q] = "answered"
  BY <1>2 DEF ScrapeInv, TypeOK
<1>6. ASSUME quiet[p] PROVE Alone(p)' /\ Exact(p)'
  <2>1. Alone(p) /\ Exact(p)
    BY <1>2, <1>6 DEF ScrapeInv, Undisturbed
  <2>2. Alone(p)'
    BY <1>2, <2>1 DEF Alone, ScrapeInv, TypeOK
  <2> QED BY <1>0, <1>2, <1>4, <2>1, <2>2, SameTablesSameCounts DEF Exact, Passed
<1>7. pc' = [pc EXCEPT ![p] = pc'[p]]
  BY <1>2, <1>4
<1>8. \A q \in Scraper : Undisturbed(q)'
  BY <1>2, <1>6, <1>7, OthersAreDisturbed DEF Undisturbed
<1> QED BY <1>1, <1>2, <1>3, <1>5, <1>8 DEF ScrapeInv

\* The answer is what the gauges hold.
LEMMA GenerateKeepsInv ==
  ASSUME ScrapeInv, NEW p \in Scraper, Generate(p)
  PROVE  ScrapeInv'
<1>0. UNCHANGED tables
  BY DEF Generate
<1>1. TablesInv'
  BY <1>0, StepKeepsTablesInv DEF ScrapeInv
<1>2. /\ pc[p] = "generate" /\ pc' = [pc EXCEPT ![p] = "answered"]
      /\ response' = [response EXCEPT ![p] = [cars |-> carGauge, rentals |-> rentalGauge]]
      /\ UNCHANGED <<carGauge, rentalGauge, byStatus, active, quiet>>
  BY DEF Generate, Goto, gauges
<1>3. TypeOK'
  <2>1. [cars |-> carGauge, rentals |-> rentalGauge] \in Figures
    BY DEF ScrapeInv, TypeOK, Figures
  <2> QED BY <1>1, <1>2, <2>1 DEF ScrapeInv, TypeOK, TablesInv, PC
<1>4. pc'[p] = "answered" /\ response'[p] = [cars |-> carGauge, rentals |-> rentalGauge]
  BY <1>2 DEF ScrapeInv, TypeOK
<1>5. \A q \in Scraper : response'[q] # NULL => pc'[q] = "answered"
  BY <1>2, <1>4 DEF ScrapeInv, TypeOK
<1>6. ASSUME quiet[p] PROVE Alone(p)' /\ Exact(p)'
  <2>1. Alone(p) /\ Exact(p)
    BY <1>2, <1>6 DEF ScrapeInv, Undisturbed
  <2>2. Alone(p)'
    BY <1>2, <2>1 DEF Alone, ScrapeInv, TypeOK
  <2> QED BY <1>0, <1>2, <1>4, <2>1, <2>2, SameTablesSameCounts DEF Exact, Passed
<1>7. pc' = [pc EXCEPT ![p] = pc'[p]]
  BY <1>2, <1>4
<1>8. \A q \in Scraper : Undisturbed(q)'
  BY <1>2, <1>6, <1>7, OthersAreDisturbed DEF Undisturbed
<1> QED BY <1>1, <1>2, <1>3, <1>5, <1>8 DEF ScrapeInv

\* The thread is free for another request.
LEMMA FinishKeepsInv ==
  ASSUME ScrapeInv, NEW p \in Scraper, Finish(p)
  PROVE  ScrapeInv'
<1>0. UNCHANGED tables
  BY DEF Finish
<1>1. TablesInv'
  BY <1>0, StepKeepsTablesInv DEF ScrapeInv
<1>2. /\ pc[p] = "answered" /\ pc' = [pc EXCEPT ![p] = "idle"]
      /\ byStatus' = [byStatus EXCEPT ![p] = NoRows] /\ active' = [active EXCEPT ![p] = 0]
      /\ response' = [response EXCEPT ![p] = NULL]
      /\ UNCHANGED <<carGauge, rentalGauge, quiet>>
  BY DEF Finish, Goto, gauges
<1>3. byStatus'[p] = NoRows /\ \A q \in Scraper \ {p} : byStatus'[q] = byStatus[q]
  BY <1>2 DEF ScrapeInv
<1>4. 0 \in 0..Cardinality(Rental)
  BY ScrapeAssumption, FS_CardinalityType
<1>5. TypeOK'
  BY <1>1, <1>2, <1>3, <1>4 DEF ScrapeInv, TypeOK, TablesInv, PC, NoRows
<1>6. pc'[p] = "idle" /\ \A q \in Scraper : response'[q] # NULL => pc'[q] = "answered"
  BY <1>2 DEF ScrapeInv, TypeOK
<1>7. pc' = [pc EXCEPT ![p] = pc'[p]]
  BY <1>2, <1>6
<1>8. \A q \in Scraper : Undisturbed(q)'
  BY <1>2, <1>6, <1>7, OthersAreDisturbed DEF Undisturbed
<1>9. byStatus' = [q \in Scraper |-> byStatus'[q]]
  BY <1>2 DEF ScrapeInv
<1> QED BY <1>1, <1>5, <1>6, <1>8, <1>9 DEF ScrapeInv

\* An operation's commit disturbs every scrape.
LEMMA OperateKeepsInv == ScrapeInv /\ Operate => ScrapeInv'
<1> SUFFICES ASSUME ScrapeInv, Operate PROVE ScrapeInv'
  OBVIOUS
<1>1. TablesInv'
  BY StepKeepsTablesInv DEF ScrapeInv, Operate
<1>2. /\ quiet' = [p \in Scraper |-> FALSE]
      /\ UNCHANGED <<carGauge, rentalGauge, pc, byStatus, active, response>>
  BY DEF Operate, gauges
<1>3. TypeOK'
  BY <1>1, <1>2 DEF ScrapeInv, TypeOK, TablesInv
<1> QED BY <1>1, <1>2, <1>3 DEF ScrapeInv, Undisturbed

\* A restart cuts every scrape off, and the tables stay.
LEMMA RestartKeepsInv == ScrapeInv /\ Restart => ScrapeInv'
<1> SUFFICES ASSUME ScrapeInv, Restart PROVE ScrapeInv'
  OBVIOUS
<1>1. TablesInv'
  BY StepKeepsTablesInv DEF ScrapeInv, Restart
<1>2. Cardinality(Car) \in Nat /\ Cardinality(Rental) \in Nat
  BY ScrapeAssumption, FS_CardinalityType
<1>3. TypeOK'
  BY <1>1, <1>2 DEF Restart, TypeOK, TablesInv, PC, CarStatus, Count, NoRows
<1> QED BY <1>1, <1>3 DEF Restart, ScrapeInv, Undisturbed

\* ScrapeInv is an invariant of any number of scrapes beside the operations.
THEOREM ScrapeInvariant == MSpec => []ScrapeInv
<1>1. ScrapeInv /\ [MNext]_vars => ScrapeInv'
  <2> SUFFICES ASSUME ScrapeInv, [MNext]_vars PROVE ScrapeInv'
    OBVIOUS
  <2>1. CASE UNCHANGED vars
    <3>1. TablesInv'
      BY <2>1, StepKeepsTablesInv DEF ScrapeInv, vars
    <3>2. UNCHANGED <<carGauge, rentalGauge, pc, byStatus, active, response, quiet>>
      BY <2>1 DEF vars, gauges
    <3>3. TypeOK'
      BY <3>1, <3>2 DEF ScrapeInv, TypeOK, TablesInv
    <3>4. \A p \in Scraper : Undisturbed(p)'
      BY <2>1, <3>2, SameTablesSameCounts DEF ScrapeInv, Undisturbed, Alone, Exact, Passed, vars
    <3> QED BY <3>1, <3>2, <3>3, <3>4 DEF ScrapeInv
  <2> QED BY <2>1, CountCarsKeepsInv, SetCarGaugeKeepsInv, CountRentalsKeepsInv,
             SetRentalGaugeKeepsInv, GenerateKeepsInv, FinishKeepsInv, OperateKeepsInv,
             RestartKeepsInv DEF MNext
<1> QED BY <1>1, InitScrape, PTL DEF MSpec

\* Type correctness: no gauge ever exceeds the number of cars or rentals.
THEOREM ScrapeTypes == MSpec => []TypeOK
BY ScrapeInvariant, PTL DEF ScrapeInv

\* A scrape beside which nothing is committed and no other scrape runs answers
\* with the tables' figures, whatever went before it.
THEOREM UndisturbedScrapes == MSpec => []UndisturbedScrapeIsExact
<1>1. ScrapeInv => UndisturbedScrapeIsExact
  <2> SUFFICES ASSUME ScrapeInv, NEW p \in Scraper, response[p] # NULL, quiet[p]
               PROVE  /\ \A s \in CarStatus : response[p].cars[s] = Cardinality(LiveCars(s))
                      /\ response[p].rentals = CountActive
    BY DEF UndisturbedScrapeIsExact
  <2>1. pc[p] = "answered" /\ Exact(p)
    BY DEF ScrapeInv, Undisturbed
  <2> QED BY <2>1 DEF Exact, Passed
<1> QED BY <1>1, ScrapeInvariant, PTL
============================================================================
