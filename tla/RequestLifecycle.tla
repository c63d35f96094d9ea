-------------------------- MODULE RequestLifecycle --------------------------
(***************************************************************************)
(* What a request occupies between its arrival and its answer: a worker     *)
(* thread, a pooled database connection, a row lock, the publisher's lock;  *)
(* and what the client and the request metrics are told in the end.         *)
(*                                                                         *)
(* A burst of requests shares them.  What the operations do to the tables   *)
(* is FleetService's subject, and publish itself EventPublisher's; here all *)
(* writers are after the same row.  The database may go down at any time:   *)
(* that cuts every connection, in use or pooled, and the pool does not see; *)
(* nobody gets a connection then, until it is back.                         *)
(***************************************************************************)
EXTENDS Naturals, Sequences, FiniteSets

CONSTANTS Request,      \* the requests of the burst
          Conn,         \* the pool's connections, at most
          Threads,      \* the worker threads
          MaxOutages,   \* bound: outages of the database
          NULL          \* None

\* How an endpoint ends that does not return: with a refusal (a 4xx), with the
\* pool's timeout or with another unexpected exception.
Exception == {"refused", "timeout", "error"}

\* The class of a response's status.
Outcome == {"2xx", "4xx", "5xx"}

ASSUME LifecycleAssumption ==
  /\ NULL \notin Request \cup Exception \cup Outcome
  /\ Conn # {} /\ Threads \in Nat \ {0} /\ MaxOutages \in Nat

VARIABLES pc,         \* pc[p]: what request p does, or waits for
          kind,       \* kind[p]: what p asks for
          held,       \* held[c]: the request whose session has connection c
          cut,        \* the connections the server has cut
          row,        \* who holds the row lock
          publisher,  \* who holds the publisher's lock
          committed,  \* the requests whose transaction is committed
          raised,     \* raised[p]: the kind of exception p ended with
          answer,     \* answer[p]: the class of the status p's client got
          samples,    \* samples[p]: the outcomes recorded for p
          struck,     \* history: who has lost a connection in use
          up,         \* the database answers
          outages     \* outages so far

resources == <<held, cut, row, publisher>>
results   == <<committed, raised, answer, samples>>
database  == <<struck, up, outages>>
vars      == <<pc, kind, resources, results, database>>

\* A write is a POST, PATCH or DELETE; a list is GET /cars, a scrape GET /metrics.
\* (GET /health shares nothing with anybody: no thread, no session, no sample.)
Kind == {"write", "list", "scrape"}

\* _SKIP_PATHS.
Skipped == {"scrape"}

\* The endpoint runs, or waits, in a worker thread.
InThread == {"checkout", "statement", "locked", "publish", "publishing"}
PC == InThread \cup {"deps", "serialize", "send", "close", "record", "done"}

TypeOK ==
  /\ pc \in [Request -> PC]
  /\ kind \in [Request -> Kind]
  /\ held \in [Conn -> Request \cup {NULL}]
  /\ cut \subseteq Conn
  /\ row \in Request \cup {NULL} /\ publisher \in Request \cup {NULL}
  /\ committed \subseteq Request
  /\ raised \in [Request -> Exception \cup {NULL}]
  /\ answer \in [Request -> Outcome \cup {NULL}]
  /\ samples \in [Request -> Seq(Outcome)]
  /\ struck \subseteq Request
  /\ up \in BOOLEAN /\ outages \in 0..MaxOutages

\* All of them have arrived; one that comes later is one that waits here longer.
Init ==
  /\ pc = [p \in Request |-> "deps"] /\ kind \in [Request -> Kind]
  /\ held = [c \in Conn |-> NULL] /\ cut = {}
  /\ row = NULL /\ publisher = NULL
  /\ committed = {} /\ raised = [p \in Request |-> NULL]
  /\ answer = [p \in Request |-> NULL] /\ samples = [p \in Request |-> <<>>]
  /\ struck = {} /\ up = TRUE /\ outages = 0

----------------------------------------------------------------------------
(* Threads, connections, and the ways out of the endpoint.                  *)

Goto(p, next) == pc' = [pc EXCEPT ![p] = next]

ThreadIsFree == Cardinality({p \in Request : pc[p] \in InThread}) < Threads

Of(p) == {c \in Conn : held[c] = p}
Free  == {c \in Conn : held[c] = NULL}
Connected(p) == Of(p) \cap cut = {}

\* The session's transaction ends: its locks go, its connection is back in the
\* pool.  One that turned out to be cut is replaced.
EndTransaction(p) ==
  /\ held' = [c \in Conn |-> IF held[c] = p THEN NULL ELSE held[c]]
  /\ cut' = cut \ Of(p)
  /\ row' = IF row = p THEN NULL ELSE row
  /\ UNCHANGED publisher

\* The endpoint raises.  _transaction has rolled a write back by then; and a
\* connection that failed is taken from its session at once.
Raise(p, how) ==
  /\ raised' = [raised EXCEPT ![p] = how]
  /\ Goto(p, "close")
  /\ IF how = "error" \/ (kind[p] = "write" /\ p \notin committed)
       THEN EndTransaction(p)
       ELSE UNCHANGED resources
  /\ UNCHANGED <<kind, committed, answer, samples, database>>

----------------------------------------------------------------------------
(* From the arrival to the endpoint. *)

\* 422: the path, the query or the body does not validate, or a rental is not to
\* start today.
Invalid(p) == pc[p] = "deps" /\ ThreadIsFree /\ kind[p] # "scrape" /\ Raise(p, "refused")

\* get_db, the services and the endpoint are plain functions, called in worker
\* threads.  The session opens no connection yet.
StartEndpoint(p) ==
  /\ pc[p] = "deps" /\ ThreadIsFree
  /\ Goto(p, "checkout")
  /\ UNCHANGED <<kind, resources, results, database>>

\* Mutant: the engine is created without pool_pre_ping.
CheckoutUnchecked(p) ==
  /\ pc[p] = "checkout" /\ up
  /\ \E c \in Free : held' = [held EXCEPT ![c] = p]
  /\ Goto(p, "statement")
  /\ UNCHANGED <<kind, cut, row, publisher, results, database>>

\* The session's first statement takes a connection.  pool_pre_ping finds one
\* that was cut in the pool, and opens another in its place.
Checkout(p) ==
  /\ pc[p] = "checkout" /\ up
  /\ \E c \in Free : held' = [held EXCEPT ![c] = p] /\ cut' = cut \ {c}
  /\ Goto(p, "statement")
  /\ UNCHANGED <<kind, row, publisher, results, database>>

\* OperationalError: the ping fails and so does the attempt to connect again.
CheckoutFails(p) == pc[p] = "checkout" /\ Free # {} /\ ~up /\ Raise(p, "error")

\* Mutant: pool_timeout is None.
PoolWaits(p) == pc[p] = "checkout" /\ Free = {} /\ UNCHANGED vars

PoolTimeout(p) == pc[p] = "checkout" /\ Free = {} /\ Raise(p, "timeout")

----------------------------------------------------------------------------
(* The endpoint. *)

\* A query of list_cars or metrics, or the read of updated_at after a commit.
Read(p) ==
  /\ pc[p] = "statement" /\ Connected(p) /\ (kind[p] # "write" \/ p \in committed)
  /\ Goto(p, IF kind[p] = "scrape" THEN "send" ELSE "serialize")
  /\ UNCHANGED <<kind, resources, results, database>>

Write(p) == pc[p] = "statement" /\ kind[p] = "write" /\ p \notin committed /\ Connected(p)

LockRow(p) ==
  /\ Write(p) /\ row = NULL
  /\ row' = p
  /\ Goto(p, "locked")
  /\ UNCHANGED <<kind, held, cut, publisher, results, database>>

\* add_car locks no row.
Insert(p) ==
  /\ Write(p)
  /\ Goto(p, "locked")
  /\ UNCHANGED <<kind, resources, results, database>>

\* A DomainError, before or after the row is locked.
Refuse(p) == (Write(p) \/ (pc[p] = "locked" /\ Connected(p))) /\ Raise(p, "refused")

\* Mutant: the transaction stays open until the event is published.
CommitAfterPublish(p) ==
  /\ pc[p] = "locked" /\ Connected(p)
  /\ committed' = committed \cup {p}
  /\ Goto(p, "publish")
  /\ UNCHANGED <<kind, resources, raised, answer, samples, database>>

\* An update that changed nothing commits too, and has nothing to publish.
Commit(p) ==
  /\ pc[p] = "locked" /\ Connected(p)
  /\ committed' = committed \cup {p}
  /\ EndTransaction(p)
  /\ Goto(p, "publish") \/ Goto(p, "serialize")
  /\ UNCHANGED <<kind, raised, answer, samples, database>>

\* Mutant: an OperationalError makes the endpoint begin again.
StatementRetried(p) ==
  /\ pc[p] \in {"statement", "locked"} /\ ~Connected(p)
  /\ EndTransaction(p)
  /\ Goto(p, "checkout")
  /\ UNCHANGED <<kind, results, database>>

\* OperationalError: the connection was cut.
StatementFails(p) == pc[p] \in {"statement", "locked"} /\ ~Connected(p) /\ Raise(p, "error")

LockPublisher(p) ==
  /\ pc[p] = "publish" /\ publisher = NULL
  /\ publisher' = p
  /\ Goto(p, "publishing")
  /\ UNCHANGED <<kind, held, cut, row, results, database>>

\* Mutant: publish acquires the lock without a with-block, and an exception keeps it.
PublishedKeepingLock(p) ==
  /\ pc[p] = "publishing"
  /\ publisher' \in {NULL, publisher}
  /\ \E next \in {"checkout", "serialize", "send"} : Goto(p, next)
  /\ UNCHANGED <<kind, held, cut, row, results, database>>

\* publish returned or raised, which _publish only logs.  An UPDATE has expired
\* updated_at, a new row is complete, and delete_car returns a bare 204.
Published(p) ==
  /\ pc[p] = "publishing"
  /\ publisher' = NULL
  /\ \E next \in {"checkout", "serialize", "send"} : Goto(p, next)
  /\ UNCHANGED <<kind, held, cut, row, results, database>>

----------------------------------------------------------------------------
(* From the endpoint's end to the answer. *)

\* FastAPI validates the response in a worker thread.
Serialize(p) ==
  /\ pc[p] = "serialize" /\ ThreadIsFree
  /\ Goto(p, "send")
  /\ UNCHANGED <<kind, resources, results, database>>

Send(p) ==
  /\ pc[p] = "send"
  /\ answer' = [answer EXCEPT ![p] = "2xx"]
  /\ Goto(p, "close")
  /\ UNCHANGED <<kind, resources, committed, raised, samples, database>>

\* Mutant: get_db closes the session in an except, not in a finally.
CloseIfRaised(p) ==
  /\ pc[p] = "close" /\ Connected(p)
  /\ IF raised[p] # NULL THEN EndTransaction(p) ELSE UNCHANGED resources
  /\ answer' = [answer EXCEPT ![p] = IF raised[p] = "refused" THEN "4xx" ELSE @]
  /\ Goto(p, "record")
  /\ UNCHANGED <<kind, committed, raised, samples, database>>

\* Mutant: register_exception_handlers is not called, and nothing answers.
CloseUnmapped(p) ==
  /\ pc[p] = "close" /\ Connected(p)
  /\ EndTransaction(p)
  /\ Goto(p, "record")
  /\ UNCHANGED <<kind, results, database>>

\* get_db closes the session, after the response or under the exception; a
\* refusal then becomes a 4xx.
Close(p) ==
  /\ pc[p] = "close" /\ Connected(p)
  /\ EndTransaction(p)
  /\ answer' = [answer EXCEPT ![p] = IF raised[p] = "refused" THEN "4xx" ELSE @]
  /\ Goto(p, "record")
  /\ UNCHANGED <<kind, committed, raised, samples, database>>

\* OperationalError: what the request read last is rolled back on a connection
\* that was cut meanwhile.  The response is out, and stays what it was.
CloseFails(p) ==
  /\ pc[p] = "close" /\ ~Connected(p)
  /\ EndTransaction(p)
  /\ raised' = [raised EXCEPT ![p] = "error"]
  /\ Goto(p, "record")
  /\ UNCHANGED <<kind, committed, answer, samples, database>>

Failed(p) == raised[p] \in {"timeout", "error"}

\* Around the middleware, an unexpected exception is a 500, if nothing was sent.
Final(p) == IF Failed(p) /\ answer[p] = NULL THEN "5xx" ELSE answer[p]

\* Mutant: the sample is recorded in a finally, beside the except.
RecordFinally(p) ==
  /\ pc[p] = "record"
  /\ answer' = [answer EXCEPT ![p] = Final(p)]
  /\ samples' = [samples EXCEPT ![p] =
       IF kind[p] \in Skipped THEN @
       ELSE IF Failed(p) THEN @ \o <<"5xx", Final(p)>> ELSE Append(@, Final(p))]
  /\ Goto(p, "done")
  /\ UNCHANGED <<kind, resources, committed, raised, database>>

\* The middleware's one sample: a 5xx whenever an exception comes through.
Record(p) ==
  /\ pc[p] = "record"
  /\ answer' = [answer EXCEPT ![p] = Final(p)]
  /\ samples' = [samples EXCEPT ![p] =
       IF kind[p] \in Skipped THEN @
       ELSE Append(@, IF Failed(p) THEN "5xx" ELSE Final(p))]
  /\ Goto(p, "done")
  /\ UNCHANGED <<kind, resources, committed, raised, database>>

----------------------------------------------------------------------------
\* The database stops: open transactions are gone, with their locks.
DatabaseFails ==
  /\ up /\ outages < MaxOutages
  /\ up' = FALSE /\ outages' = outages + 1
  /\ cut' = Conn
  /\ row' = NULL
  /\ struck' = struck \cup {p \in Request : Of(p) # {}}
  /\ UNCHANGED <<pc, kind, held, publisher, results>>

DatabaseReturns ==
  /\ ~up
  /\ up' = TRUE
  /\ UNCHANGED <<pc, kind, resources, results, struck, outages>>

Serve(p) ==
  \/ Invalid(p) \/ StartEndpoint(p) \/ Checkout(p) \/ CheckoutFails(p) \/ PoolTimeout(p)
  \/ Read(p) \/ LockRow(p) \/ Insert(p) \/ Refuse(p) \/ Commit(p) \/ StatementFails(p)
  \/ LockPublisher(p) \/ Published(p)
  \/ Serialize(p) \/ Send(p) \/ Close(p) \/ CloseFails(p) \/ Record(p)

Next == (\E p \in Request : Serve(p)) \/ DatabaseFails \/ DatabaseReturns

Spec == Init /\ [][Next]_vars

----------------------------------------------------------------------------
(* Properties. *)

\* Resources are taken in one order: who waits for a connection holds neither
\* lock, and who waits for or has the publisher's lock, which a silent broker
\* keeps for seconds, has no connection and keeps no row locked.
WaitersHoldNothing ==
  \A p \in Request :
    /\ pc[p] \in {"deps", "checkout", "publish", "publishing"}
         => Of(p) = {} /\ row # p
    /\ pc[p] # "publishing" => publisher # p

\* However a request ended, its connection is back in the pool and its lock gone
\* before the next layer is told.
ConnectionsComeBack ==
  \A p \in Request : pc[p] \in {"record", "done"} => Of(p) = {} /\ row # p

\* An outage of the database fails those requests that used a connection when it
\* began, and those that need one while it lasts.  Whoever comes later is served:
\* the pool hands out no dead connection, though all it has are dead.
OutageHitsOnlyItsUsers ==
  [][\A p \in Request :
       raised[p] # "error" /\ raised'[p] = "error" => p \in struck \/ ~up]_vars

\* "Records exactly one sample per request, including when the endpoint raises"
\* (middleware.py:5), and of the class the client was answered with: only a request
\* whose connection was lost after its last read may be counted a failure although
\* it was answered, when its session is closed.
OneTrueSample ==
  \A p \in Request :
    pc[p] = "done" =>
      IF kind[p] \in Skipped THEN samples[p] = <<>>
      ELSE \/ samples[p] = <<answer[p]>>
           \/ /\ samples[p] = <<"5xx">> /\ answer[p] = "2xx"
              /\ raised[p] = "error" /\ p \in struck

\* Whatever p may be waiting for where it is, is there: a thread, the row (every
\* write may have sent its locking read), the publisher.  A wait for the pool ends
\* with a connection or with the timeout.
Ready(p) ==
  /\ pc[p] # "done"
  /\ pc[p] \in {"deps", "serialize"} => ThreadIsFree
  /\ Write(p) => row = NULL
  /\ pc[p] = "publish" => publisher = NULL

\* No wait is for ever: as long as a request is unanswered, what some request may
\* be waiting for is there.  Requests with a thread wait for a connection while
\* those that have one wait, until they are answered, for a thread; and writers
\* wait, in threads, for one that holds the row.
NobodyIsStuck ==
  (\E p \in Request : pc[p] # "done") => \E p \in Request : Ready(p)

\* What is there is enough: a request whose waits are over can take a step.  One
\* that waits for a connection needs the pool's timeout for that.
ReadyMeansEnabled ==
  \A p \in Request : Ready(p) => ENABLED <<Serve(p)>>_vars

\* How many steps p still has before it, at most: an UPDATE comes to the pool, and
\* to a statement, a second time.
StepsLeft(p) ==
  LET again == p \in committed IN
  CASE pc[p] = "deps"       -> 12
    [] pc[p] = "checkout"   -> IF again THEN 6 ELSE 11
    [] pc[p] = "statement"  -> IF again THEN 5 ELSE 10
    [] pc[p] = "locked"     -> 9
    [] pc[p] = "publish"    -> 8
    [] pc[p] = "publishing" -> 7
    [] pc[p] = "serialize"  -> 4
    [] pc[p] = "send"       -> 3
    [] pc[p] = "close"      -> 2
    [] pc[p] = "record"     -> 1
    [] pc[p] = "done"       -> 0

\* Every step brings a request nearer to its end, and none throws another back:
\* no failure, timeout or outage makes a request begin again.
EveryStepIsProgress ==
  [][/\ \A p \in Request : StepsLeft(p)' <= StepsLeft(p)
     /\ UNCHANGED <<up, outages>> => \E p \in Request : StepsLeft(p)' < StepsLeft(p)]_vars
============================================================================
