--------------------------- MODULE EventPublisher ---------------------------
(***************************************************************************)
(* The publishing side of DriveNow's events: get_event_publisher, cached    *)
(* per process, and RabbitMQPublisher.publish, which request threads call   *)
(* one at a time on one lazily opened connection, trying at most twice.     *)
(*                                                                         *)
(* A thread carries one event per request.  The broker may drop a           *)
(* connection at any time; an idle client does not notice, so the cached    *)
(* channel still says is_open.  A publisher is named by the thread that     *)
(* constructed it.                                                          *)
(***************************************************************************)
EXTENDS Naturals, FiniteSets

CONSTANTS Thread,      \* the request threads of the API process
          Connection,  \* names for the connections that may be open at once
          MaxFaults,   \* bound: connections dropped or refused
          NULL         \* None

ASSUME PublisherAssumption ==
  NULL \notin Thread /\ NULL \notin Connection /\ MaxFaults \in Nat

VARIABLES cached,    \* the publisher in get_event_publisher's cache
          conn,      \* conn[i]: publisher i's _conn
          channel,   \* channel[i]: the connection of i's _channel
          lock,      \* lock[i]: the thread that holds i's _lock
          orphan,    \* orphan[t]: left open when t dropped a publisher of its own
          broken,    \* the connections whose channel is known to be closed
          open,      \* the connections this process has not closed
          alive,     \* those of them that the broker still serves
          pc,        \* pc[t]: what thread t does next
          mine,      \* mine[t]: the publisher injected into t's request
          attempt,   \* attempt[t]: 1 or 2 once t is publishing
          outcome,   \* outcome[t]: how publish ended
          copies,    \* copies[t]: how often t's event was put into a queue
          faults,    \* connections dropped or refused so far
          lost       \* events given up after the retry

process == <<cached, conn, channel, lock, orphan, broken, open, alive>>
thread  == <<pc, mine, attempt, outcome, copies>>
vars    == <<process, thread, faults, lost>>

PC == {"idle", "construct", "acquire", "ensure", "connect", "declare", "send",
       "confirm", "returned"}
Outcome == {"ok", "refused", "lost"}

TypeOK ==
  /\ cached \in Thread \cup {NULL}
  /\ conn \in [Thread -> Connection \cup {NULL}]
  /\ channel \in [Thread -> Connection \cup {NULL}]
  /\ lock \in [Thread -> Thread \cup {NULL}]
  /\ orphan \in [Thread -> Connection \cup {NULL}]
  /\ broken \subseteq open /\ alive \subseteq open /\ open \subseteq Connection
  /\ pc \in [Thread -> PC]
  /\ mine \in [Thread -> Thread \cup {NULL}]
  /\ attempt \in [Thread -> 0..2]
  /\ outcome \in [Thread -> Outcome \cup {NULL}]
  /\ copies \in [Thread -> 0..2]
  /\ faults \in 0..MaxFaults /\ lost \in 0..MaxFaults

Init ==
  /\ cached = NULL
  /\ conn = [i \in Thread |-> NULL] /\ channel = [i \in Thread |-> NULL]
  /\ lock = [i \in Thread |-> NULL] /\ orphan = [t \in Thread |-> NULL]
  /\ broken = {} /\ open = {} /\ alive = {}
  /\ pc = [t \in Thread |-> "idle"] /\ mine = [t \in Thread |-> NULL]
  /\ attempt = [t \in Thread |-> 0] /\ outcome = [t \in Thread |-> NULL]
  /\ copies = [t \in Thread |-> 0]
  /\ faults = 0 /\ lost = 0

Goto(t, next) == pc' = [pc EXCEPT ![t] = next]

----------------------------------------------------------------------------
(* get_event_publisher: lru_cache runs the function outside its own lock.   *)

\* A hit.
Resolve(t) ==
  /\ pc[t] = "idle" /\ cached # NULL
  /\ mine' = [mine EXCEPT ![t] = cached]
  /\ Goto(t, "acquire")
  /\ UNCHANGED <<process, attempt, outcome, copies, faults, lost>>

Miss(t) ==
  /\ pc[t] = "idle" /\ cached = NULL
  /\ Goto(t, "construct")
  /\ UNCHANGED <<process, mine, attempt, outcome, copies, faults, lost>>

\* Every thread that missed gets the publisher it built; the first one stays.
Construct(t) ==
  /\ pc[t] = "construct"
  /\ mine' = [mine EXCEPT ![t] = t]
  /\ cached' = IF cached = NULL THEN t ELSE cached
  /\ Goto(t, "acquire")
  /\ UNCHANGED <<orphan, conn, channel, lock, broken, open, alive, attempt, outcome,
                 copies, faults, lost>>

----------------------------------------------------------------------------
(* publish. *)

\* _reset: whatever close() raises is suppressed.
Reset(i) ==
  /\ conn' = [conn EXCEPT ![i] = NULL]
  /\ channel' = [channel EXCEPT ![i] = NULL]
  /\ open' = open \ {conn[i]}
  /\ alive' = alive \ {conn[i]}
  /\ broken' = broken \ {conn[i]}

\* publish returns or raises; the with-block releases the lock.
Leave(t, how) ==
  /\ lock' = [lock EXCEPT ![mine[t]] = NULL]
  /\ outcome' = [outcome EXCEPT ![t] = how]
  /\ Goto(t, "returned")

\* Mutant: what the broker refuses is tried again until it takes it.
RefusedRetried(t) ==
  /\ Goto(t, "ensure")
  /\ UNCHANGED <<cached, orphan, conn, channel, lock, open, alive, mine, attempt, outcome,
                 faults, lost>>

\* An error of another kind: it propagates, and nothing is reset.
Refused(t) ==
  /\ Leave(t, "refused")
  /\ UNCHANGED <<cached, orphan, conn, channel, open, alive, mine, attempt, faults, lost>>

\* Mutant: a failed attempt keeps the connection it failed on.
RetryOnSameConnection(t) ==
  /\ UNCHANGED <<cached, orphan, conn, channel, broken, open, alive, mine>>
  /\ IF attempt[t] = 2
     THEN /\ Leave(t, "lost")
          /\ lost' = lost + 1
          /\ UNCHANGED attempt
     ELSE /\ attempt' = [attempt EXCEPT ![t] = 2]
          /\ Goto(t, "ensure")
          /\ UNCHANGED <<lock, outcome, lost>>

\* Mutant: the attempts are not counted.
RetryForEver(t) ==
  /\ Reset(mine[t])
  /\ Goto(t, "ensure")
  /\ UNCHANGED <<cached, orphan, lock, outcome, mine, attempt, lost>>

\* The except branch of the loop, for the errors in _RETRYABLE.
Retry(t) ==
  /\ Reset(mine[t])
  /\ UNCHANGED <<cached, orphan, mine>>
  /\ IF attempt[t] = 2
     THEN /\ Leave(t, "lost")
          /\ lost' = lost + 1
          /\ UNCHANGED attempt
     ELSE /\ attempt' = [attempt EXCEPT ![t] = 2]
          /\ Goto(t, "ensure")
          /\ UNCHANGED <<lock, outcome, lost>>

\* Mutant: request threads publish side by side.
AcquireUnlocked(t) ==
  /\ pc[t] = "acquire"
  /\ attempt' = [attempt EXCEPT ![t] = 1]
  /\ Goto(t, "ensure")
  /\ UNCHANGED <<process, mine, outcome, copies, faults, lost>>

Acquire(t) ==
  /\ pc[t] = "acquire" /\ lock[mine[t]] = NULL
  /\ lock' = [lock EXCEPT ![mine[t]] = t]
  /\ attempt' = [attempt EXCEPT ![t] = 1]
  /\ Goto(t, "ensure")
  /\ UNCHANGED <<cached, orphan, conn, channel, broken, open, alive, mine, outcome, copies,
                 faults, lost>>

\* _channel.is_open is what the client knows, not what the broker did since.
ChannelIsOpen(i) == channel[i] # NULL /\ channel[i] \notin broken

\* Mutant: a half-open connection is not dropped before reconnecting.
EnsureChannelKeeping(t) ==
  /\ pc[t] = "ensure"
  /\ Goto(t, IF ChannelIsOpen(mine[t]) THEN "send" ELSE "connect")
  /\ UNCHANGED <<process, mine, attempt, outcome, copies, faults, lost>>

EnsureChannel(t) ==
  /\ pc[t] = "ensure"
  /\ IF ChannelIsOpen(mine[t])
     THEN Goto(t, "send") /\ UNCHANGED <<conn, channel, broken, open, alive>>
     ELSE Goto(t, "connect") /\ Reset(mine[t])
  /\ UNCHANGED <<cached, orphan, lock, mine, attempt, outcome, copies, faults, lost>>

Connect(t) ==
  /\ pc[t] = "connect"
  /\ \E c \in Connection \ open :
       /\ conn' = [conn EXCEPT ![mine[t]] = c]
       /\ open' = open \cup {c}
       /\ alive' = alive \cup {c}
  /\ Goto(t, "declare")
  /\ UNCHANGED <<cached, orphan, channel, lock, broken, mine, attempt, outcome, copies,
                 faults, lost>>

\* The broker is down, or does not answer within the timeout.
ConnectFails(t) ==
  /\ pc[t] = "connect" /\ faults < MaxFaults
  /\ faults' = faults + 1
  /\ Retry(t)
  /\ UNCHANGED copies

\* channel(), exchange_declare, confirm_delivery.
Declare(t) ==
  /\ pc[t] = "declare" /\ conn[mine[t]] \in alive
  /\ channel' = [channel EXCEPT ![mine[t]] = conn[mine[t]]]
  /\ Goto(t, "send")
  /\ UNCHANGED <<cached, orphan, conn, lock, broken, open, alive, mine, attempt, outcome, copies,
                 faults, lost>>

\* The exchange exists with another type: the channel is closed by the broker,
\* and the connection stays behind in _conn.
DeclareRefused(t) ==
  /\ pc[t] = "declare" /\ conn[mine[t]] \in alive
  /\ Refused(t)
  /\ UNCHANGED <<broken, copies>>

\* Mutant: without confirm_delivery the send returns whatever became of it.
SendUnconfirmed(t) ==
  /\ pc[t] = "send"
  /\ Leave(t, "ok")
  /\ copies' = [copies EXCEPT ![t] = IF conn[mine[t]] \in alive THEN @ + 1 ELSE @]
  /\ UNCHANGED <<cached, orphan, conn, channel, broken, open, alive, mine, attempt, faults, lost>>

\* basic_publish: the broker puts the event into the queues bound to it ...
Send(t) ==
  /\ pc[t] = "send" /\ conn[mine[t]] \in alive
  /\ copies' = [copies EXCEPT ![t] = @ + 1]
  /\ Goto(t, "confirm")
  /\ UNCHANGED <<process, mine, attempt, outcome, faults, lost>>

\* ... and confirms, which basic_publish waits for.
Confirm(t) ==
  /\ pc[t] = "confirm" /\ conn[mine[t]] \in alive
  /\ Leave(t, "ok")
  /\ UNCHANGED <<cached, orphan, conn, channel, broken, open, alive, mine, attempt, copies,
                 faults, lost>>

\* UnroutableError or NackError leave the channel open; ChannelClosedByBroker,
\* for an exchange that is gone, does not.
SendRefused(t) ==
  /\ pc[t] = "send" /\ conn[mine[t]] \in alive
  /\ Refused(t)
  /\ broken' \in {broken, broken \cup {conn[mine[t]]}}
  /\ UNCHANGED copies

\* The connection is found dead while the broker's answer is awaited.
AttemptFails(t) ==
  /\ pc[t] \in {"declare", "send", "confirm"} /\ conn[mine[t]] \notin alive
  /\ Retry(t)
  /\ UNCHANGED <<copies, faults>>

\* The request is answered; the thread takes another one.  A publisher that is
\* not the cached one goes with the request that built it, and is not closed.
Finish(t) ==
  /\ pc[t] = "returned"
  /\ Goto(t, "idle")
  /\ mine' = [mine EXCEPT ![t] = NULL]
  /\ attempt' = [attempt EXCEPT ![t] = 0]
  /\ outcome' = [outcome EXCEPT ![t] = NULL]
  /\ copies' = [copies EXCEPT ![t] = 0]
  /\ IF mine[t] = cached THEN UNCHANGED <<conn, channel, orphan>>
     ELSE /\ orphan' = [orphan EXCEPT ![t] = conn[mine[t]]]
          /\ conn' = [conn EXCEPT ![mine[t]] = NULL]
          /\ channel' = [channel EXCEPT ![mine[t]] = NULL]
  /\ UNCHANGED <<cached, lock, broken, open, alive, faults, lost>>

\* The collector finds a dropped publisher, if ever, and its socket is closed.
Collect(t) ==
  /\ orphan[t] # NULL
  /\ orphan' = [orphan EXCEPT ![t] = NULL]
  /\ open' = open \ {orphan[t]}
  /\ alive' = alive \ {orphan[t]}
  /\ broken' = broken \ {orphan[t]}
  /\ UNCHANGED <<cached, conn, channel, lock, thread, faults, lost>>

\* The broker drops a connection: a restart, or heartbeats an idle client
\* never answers.
Drop(c) ==
  /\ c \in alive /\ faults < MaxFaults
  /\ alive' = alive \ {c}
  /\ faults' = faults + 1
  /\ UNCHANGED <<cached, orphan, conn, channel, lock, broken, open, thread, lost>>

\* A request has something to publish.
Arrive(t) == Resolve(t) \/ Miss(t)

Publish(t) ==
  \/ Construct(t) \/ Acquire(t) \/ EnsureChannel(t)
  \/ Connect(t) \/ ConnectFails(t) \/ Declare(t) \/ DeclareRefused(t)
  \/ Send(t) \/ Confirm(t) \/ SendRefused(t) \/ AttemptFails(t) \/ Finish(t)

\* close() on the cached publisher.  The lifespan calls it after the last
\* request; the lock makes it safe beside one.
Close ==
  /\ cached # NULL /\ lock[cached] = NULL
  /\ Reset(cached)
  /\ UNCHANGED <<cached, orphan, lock, thread, faults, lost>>

Next == \/ \E t \in Thread : Arrive(t) \/ Publish(t) \/ Collect(t)
        \/ \E c \in Connection : Drop(c)
        \/ Close

Spec == Init /\ [][Next]_vars

\* A thread keeps running: every wait for the broker ends, with an answer or
\* with a timeout.  threading.Lock promises its waiters no order, so a thread
\* that waits for the lock is promised nothing.
FairSpec == Spec /\ \A t \in Thread : WF_vars(Publish(t))

----------------------------------------------------------------------------
(* Properties. *)

InUse(t) == pc[t] \in {"connect", "declare", "send", "confirm"}

\* A blocking connection is not thread-safe: no two requests ever work on the
\* same one, and nobody, close() included, closes one that a request works on.
OneThreadPerConnection ==
  /\ \A t, u \in Thread : t # u /\ InUse(t) /\ InUse(u) => mine[t] # mine[u]
  /\ \A t \in Thread : pc[t] \in {"declare", "send", "confirm"} => conn[mine[t]] \in open

\* The publishers that can still be called: the cached one, and those of the
\* requests going on.
Reachable == {i \in Thread : i = cached \/ \E t \in Thread : mine[t] = i}

\* However its attempts failed, a publisher forgets no connection: what is open is
\* the connection of a publisher that can still be called, which will reuse it or
\* close it, or the last connection of a thread that lost the race for the cache,
\* whose publisher was dropped with its request.  Each loser leaves one at most.
OnlyLosersAreForgotten ==
  /\ open = ({conn[i] : i \in Reachable} \cup {orphan[t] : t \in Thread}) \ {NULL}
  /\ \A t \in Thread : orphan[t] # NULL => cached \notin {NULL, t}

\* A lost confirmation makes the retry publish a second copy, never a third,
\* and the first attempt alone never more than one.
CopiesAreAttempts == \A t \in Thread : copies[t] <= attempt[t]

\* What a caller sees of its own call.
Stage(t) ==
  CASE pc[t] = "idle"                             -> "idle"
    [] pc[t] = "returned" /\ outcome[t] = "ok"    -> "ok"
    [] pc[t] = "returned" /\ outcome[t] # "ok"    -> "failed"
    [] OTHER                                      -> "publishing"

Contract == INSTANCE PublisherContract
              WITH Caller <- Thread, stage <- [t \in Thread |-> Stage(t)]

\* Through every retry, reset and shared connection each caller sees a publish
\* that keeps its promise: it returns only when the broker has the event in a
\* queue, and leaves two copies at most.
PublishContract == Contract!Spec

\* One dropped or refused connection loses no event: each event given up has
\* used up two faults of its own, since the retry is always on a new connection.
OneFaultLosesNothing == 2 * lost <= faults

\* How many steps are left of a call that has the lock: two attempts at most.
StepsLeft(t) ==
  CASE pc[t] = "ensure"   -> 5 + 5 * (2 - attempt[t])
    [] pc[t] = "connect"  -> 4 + 5 * (2 - attempt[t])
    [] pc[t] = "declare"  -> 3 + 5 * (2 - attempt[t])
    [] pc[t] = "send"     -> 2 + 5 * (2 - attempt[t])
    [] pc[t] = "confirm"  -> 1 + 5 * (2 - attempt[t])
    [] OTHER              -> 0

\* Who has a publisher's lock is in the middle of a call on it, never waiting for
\* a lock itself, and every step it takes brings it nearer to giving the lock back:
\* at most ten, whatever the broker drops or refuses and whatever others do.
PublishRunsOut ==
  [][\A i, t \in Thread : lock[i] = t =>
       /\ mine[t] = i /\ StepsLeft(t) > 0
       /\ lock'[i] # t \/ pc'[t] = pc[t] \/ StepsLeft(t)' < StepsLeft(t)]_vars

\* The lock is given back, however the broker behaves: no publish, failing or
\* retrying, keeps the requests behind it waiting for ever.
LockIsReleased == \A i, t \in Thread : lock[i] = t ~> lock[i] # t

\* "One lazily-opened BlockingConnection is reused across requests", and one
\* publisher per process, say rabbitmq.py:64 and deps.py:34.
OneConnectionPerProcess == Cardinality(open) <= 1
============================================================================
