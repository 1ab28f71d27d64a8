-------------------------- MODULE ServerLifecycle --------------------------
(***************************************************************************)
(* The life of one server process from the moment it listens: `serve` of   *)
(* backend/cmd/server/main.go, which waits for the listener or a signal,   *)
(* shuts the HTTP server down within a timeout and leaves the closing of   *)
(* the connection pool to the deferred calls of `run`, together with what  *)
(* the handlers do to that pool.                                           *)
(*                                                                         *)
(* A handler is the sequence of database calls of its route.  Every call   *)
(* takes one connection of the pool and gives it back before the next one: *)
(* a query holds it for one statement, a transaction from Begin to Commit  *)
(* or Rollback, and a transaction waits for one row that all of them       *)
(* contend for.  Requests carry no deadline and are not cancelled by the   *)
(* shutdown; the readiness probe alone has a timeout of its own.           *)
(***************************************************************************)
EXTENDS Naturals, Sequences, FiniteSets

CONSTANTS
    Requests,      \* requests that may reach the process during its life
    Routes,        \* the routes they may ask for, out of DOMAIN Work
    MaxConns,      \* connections of the pool, DATABASE_MAX_CONNECTIONS
    NoRequest      \* the row is locked by nobody

\* The database calls of a handler after RequireAuth, which queries once.
Health == << >>
Ready == <<"ping">>
Authenticated(calls) == <<"query">> \o calls
Login == <<"query", "transaction">>
Lookup == Authenticated(<<"query">>)
List == Authenticated(<<"query", "query", "query">>)
Change == Authenticated(<<"transaction">>)
Work ==
    [health |-> Health, ready |-> Ready, session |-> Authenticated(<< >>),
     login |-> Login, lookup |-> Lookup, list |-> List, change |-> Change]

ASSUME RoutesAreKnown == Routes \subseteq DOMAIN Work
ASSUME PoolHasConnections == MaxConns \in Nat \ {0}
ASSUME RequestsAreFinite == IsFiniteSet(Requests) /\ NoRequest \notin Requests

VARIABLES
    phase,         \* of `serve` and of the deferred calls of `run`
    result,        \* why `serve` returned
    signalled,     \* the context of signal.NotifyContext is done
    listener,      \* the goroutine that runs server.Listen
    report,        \* what it left in the channel listenerErrors
    request,       \* per request: its handler, and if it came while serve waited
    conns,         \* requests that hold a connection of the pool
    rowOwner,      \* the request whose transaction holds the row lock
    stalled        \* the database answers nothing any more

main == <<phase, result, signalled, listener, report>>
work == <<request, conns, rowOwner>>
lifecycleVars == <<main, work, stalled>>

ServePhases == {"serving", "draining", "closing", "exited"}
Results == {"none", "listener failed", "stopped", "completed", "timed out",
            "shutdown failed"}
Places == {"absent", "running", "holding", "locked",
           "answered", "refused", "dropped"}
Calls == {"ping", "query", "transaction"}

Open(q) == request[q].at \in {"running", "holding", "locked"}
OpenRequests == {q \in Requests : Open(q)}
Next1(q) == Head(request[q].left)
\* The exit code of main when serve has returned.
ExitCode == IF result \in {"completed", "stopped"} THEN 0 ELSE 1

LifecycleInit ==
    /\ phase = "serving" /\ result = "none" /\ signalled = FALSE
    /\ listener = "opening" /\ report = "none"
    /\ request = [q \in Requests |->
                    [at |-> "absent", left |-> << >>, early |-> FALSE]]
    /\ conns = {} /\ rowOwner = NoRequest /\ stalled = FALSE

----------------------------------------------------------------------------
\* The listener goroutine and the signal

\* Listening starts.  Shutdown holds the mutex that Serve needs, so it does
\* not start while the server drains; it may start after that.
ListenerOpens ==
    /\ listener = "opening" /\ phase \in {"serving", "closing"}
    /\ listener' = "accepting"
    /\ UNCHANGED <<phase, result, signalled, report, work, stalled>>

\* The address cannot be bound, or accepting fails, or the listener ends.
ListenerStops ==
    /\ listener \in {"opening", "accepting"} /\ phase # "exited"
    /\ listener' = "stopped"
    /\ report' \in {"error", "nil"}
    /\ UNCHANGED <<phase, result, signalled, work, stalled>>

\* SIGINT or SIGTERM.  Until the deferred stop(), which runs last, further
\* signals are swallowed.
Signal ==
    /\ ~ signalled /\ phase # "exited"
    /\ signalled' = TRUE
    /\ UNCHANGED <<phase, result, listener, report, work, stalled>>

----------------------------------------------------------------------------
\* serve, and the deferred calls of run

TakeReport ==
    /\ phase = "serving" /\ report # "none"
    /\ phase' = "closing"
    /\ result' = IF signalled THEN "stopped" ELSE "listener failed"
    /\ report' = "none"
    /\ UNCHANGED <<signalled, listener, work, stalled>>

\* The select may take this branch also when a report is waiting.
BeginShutdown ==
    /\ phase = "serving" /\ signalled
    /\ phase' = "draining"
    /\ IF listener = "accepting"
         THEN listener' = "stopped" /\ report' = "nil"
         ELSE UNCHANGED <<listener, report>>
    /\ UNCHANGED <<result, signalled, work, stalled>>

\* Slip: the shutdown does not wait for the open requests.
DrainEndsAtOnce ==
    /\ phase = "draining"
    /\ phase' = "closing" /\ result' = "completed"
    /\ UNCHANGED <<signalled, listener, report, work, stalled>>

DrainEnds ==
    /\ phase = "draining" /\ OpenRequests = {}
    /\ phase' = "closing" /\ result' = "completed"
    /\ UNCHANGED <<signalled, listener, report, work, stalled>>

DrainTimesOut ==
    /\ phase = "draining" /\ OpenRequests # {}
    /\ phase' = "closing" /\ result' = "timed out"
    /\ UNCHANGED <<signalled, listener, report, work, stalled>>

\* The shutdown fails otherwise, at closing the listener, and does not wait.
DrainFails ==
    /\ phase = "draining"
    /\ phase' = "closing" /\ result' = "shutdown failed"
    /\ UNCHANGED <<signalled, listener, report, work, stalled>>

\* Slip: main ends without pool.Close.
ExitAtOnce ==
    /\ phase = "closing"
    /\ phase' = "exited"
    /\ request' = [q \in Requests |->
                     IF Open(q) THEN [request[q] EXCEPT !.at = "dropped"]
                                ELSE request[q]]
    /\ UNCHANGED <<result, signalled, listener, report, conns, rowOwner, stalled>>

\* pool.Close returns once every connection came back; then the process
\* ends, with log.Fatal when there is an error, and its goroutines with it.
Exit ==
    /\ phase = "closing" /\ conns = {}
    /\ phase' = "exited"
    /\ request' = [q \in Requests |->
                     IF Open(q) THEN [request[q] EXCEPT !.at = "dropped"]
                                ELSE request[q]]
    /\ UNCHANGED <<result, signalled, listener, report, conns, rowOwner, stalled>>

----------------------------------------------------------------------------
\* Handlers

Arrive(q) ==
    /\ request[q].at = "absent"
    /\ listener = "accepting" /\ phase # "exited"
    /\ \E route \in Routes :
         request' = [request EXCEPT
             ![q] = [at |-> "running", left |-> Work[route],
                     early |-> phase = "serving"]]
    /\ UNCHANGED <<main, conns, rowOwner, stalled>>

\* pool.Acquire, inside pool.Query, QueryRow, Exec, Begin and Ping.
Acquire(q) ==
    /\ request[q].at = "running" /\ request[q].left # << >>
    /\ phase \in {"serving", "draining"}
    /\ Cardinality(conns) < MaxConns
    /\ request' = [request EXCEPT ![q].at = "holding"]
    /\ conns' = conns \cup {q}
    /\ UNCHANGED <<main, rowOwner, stalled>>

\* The pool is closed: the call fails, and the request is answered with 500.
RefuseCall(q) ==
    /\ request[q].at = "running" /\ request[q].left # << >>
    /\ phase = "closing"
    /\ request' = [request EXCEPT ![q].at = "refused", ![q].left = << >>]
    /\ UNCHANGED <<main, conns, rowOwner, stalled>>

\* The call of q is over, its connection is back, and rest is left to do.
Release(q, rest) ==
    /\ conns' = conns \ {q}
    /\ request' = [request EXCEPT ![q].at = "running", ![q].left = rest]

\* A query answers; the handler goes on or, refusing the request, ends.
QueryAnswers(q) ==
    /\ request[q].at = "holding" /\ Next1(q) # "transaction" /\ ~ stalled
    /\ \E rest \in {Tail(request[q].left), << >>} : Release(q, rest)
    /\ UNCHANGED <<main, rowOwner, stalled>>

LockRow(q) ==
    /\ request[q].at = "holding" /\ Next1(q) = "transaction" /\ ~ stalled
    /\ rowOwner = NoRequest
    /\ rowOwner' = q
    /\ request' = [request EXCEPT ![q].at = "locked"]
    /\ UNCHANGED <<main, conns, stalled>>

\* Slip: the detail for the answer is read from the pool, not in the
\* transaction, and needs a second connection.
EndTransactionFromPool(q) ==
    /\ request[q].at = "locked" /\ ~ stalled
    /\ Cardinality(conns) < MaxConns
    /\ rowOwner' = NoRequest
    /\ Release(q, << >>)
    /\ UNCHANGED <<main, stalled>>

\* Commit, or the deferred Rollback of a refusal or an error.
EndTransaction(q) ==
    /\ request[q].at = "locked" /\ ~ stalled
    /\ rowOwner' = NoRequest
    /\ Release(q, << >>)
    /\ UNCHANGED <<main, stalled>>

\* Slip: no deferred Rollback.
AbandonOpenTransaction(q) ==
    /\ request[q].at = "holding" /\ Next1(q) = "transaction" /\ ~ stalled
    /\ request' = [request EXCEPT ![q].at = "running", ![q].left = << >>]
    /\ UNCHANGED <<main, conns, rowOwner, stalled>>

\* A transaction that fails before it has the row.
AbandonTransaction(q) ==
    /\ request[q].at = "holding" /\ Next1(q) = "transaction" /\ ~ stalled
    /\ Release(q, << >>)
    /\ UNCHANGED <<main, rowOwner, stalled>>

\* Slip: the timeout covers the wait for a connection only.
PingWaitsForAnswer(q) ==
    /\ request[q].at = "running" /\ request[q].left = Ready
    /\ Release(q, << >>)
    /\ UNCHANGED <<main, rowOwner, stalled>>

\* The readiness probe gives up, waiting for a connection or for its answer.
PingTimesOut(q) ==
    /\ request[q].at \in {"running", "holding"} /\ request[q].left = Ready
    /\ Release(q, << >>)
    /\ UNCHANGED <<main, rowOwner, stalled>>

Answer(q) ==
    /\ request[q].at = "running" /\ request[q].left = << >>
    /\ request' = [request EXCEPT ![q].at = "answered"]
    /\ UNCHANGED <<main, conns, rowOwner, stalled>>

\* From now on no statement is answered: the database hangs, or another of
\* its sessions keeps a lock.
Stall ==
    /\ ~ stalled /\ phase # "exited"
    /\ stalled' = TRUE
    /\ UNCHANGED <<main, work>>

----------------------------------------------------------------------------
Serve ==
    \/ TakeReport \/ BeginShutdown
    \/ DrainEnds \/ DrainTimesOut \/ DrainFails
    \/ Exit

Handle(q) ==
    \/ Acquire(q) \/ RefuseCall(q) \/ QueryAnswers(q)
    \/ LockRow(q) \/ EndTransaction(q)
    \/ PingTimesOut(q) \/ Answer(q)

LifecycleNext ==
    \/ ListenerOpens \/ ListenerStops \/ Signal \/ Stall
    \/ Serve
    \/ \E q \in Requests : Arrive(q) \/ Handle(q) \/ AbandonTransaction(q)

LifecycleSpec == LifecycleInit /\ [][LifecycleNext]_lifecycleVars

----------------------------------------------------------------------------
\* Properties

\* Every variable keeps its type; a handler's place, the connections and the
\* row lock agree, so no handler that ended keeps a connection, and the pool
\* never hands out more than it has.
LifecycleTypeOK ==
    /\ phase \in ServePhases /\ result \in Results
    /\ signalled \in BOOLEAN /\ stalled \in BOOLEAN
    /\ listener \in {"opening", "accepting", "stopped"}
    /\ report \in {"none", "nil", "error"}
    /\ request \in [Requests ->
                      [at : Places, left : Seq(Calls), early : BOOLEAN]]
    /\ conns = {q \in Requests : request[q].at \in {"holding", "locked"}}
    /\ Cardinality(conns) <= MaxConns
    /\ \A q \in conns : request[q].left # << >>
    /\ rowOwner \in Requests \cup {NoRequest}
    /\ \A q \in Requests : rowOwner = q <=> request[q].at = "locked"

\* What serve knows when it returns, and the handlers before the pool closes.
Graceful ==
    /\ phase \in {"serving", "draining"} =>
          /\ result = "none"
          /\ \A q \in Requests : request[q].at \notin {"refused", "dropped"}
    /\ phase = "draining" \/ ExitCode = 0 => signalled
    /\ result = "completed" =>
          \A q \in Requests :
             request[q].early => request[q].at \in {"absent", "answered"}
    /\ phase = "exited" => conns = {}

\* What a zero exit code says (main.go:20-24, 65-95): the process was told to
\* stop; and if serve returned because the shutdown completed, every request
\* that was accepted while it served was answered by its own handler, none
\* refused for want of the pool and none cut off, although the pool closes
\* and the process ends right after.
ZeroMeansGraceful ==
    phase = "exited" /\ ExitCode = 0 =>
        /\ signalled
        /\ result = "completed" =>
              \A q \in Requests :
                 request[q].early => request[q].at \in {"absent", "answered"}

\* However serve returned - listener failure, timeout, late requests - the
\* process does not end in the middle of a database call: the deferred
\* pool.Close waits for every connection (main.go:43), so a request that is
\* cut off has committed or rolled back and is only short of its answer.
ExitCutsNoTransaction ==
    phase = "exited" => conns = {} /\ rowOwner = NoRequest

\* Sharing few connections, the handlers never wait for each other in a
\* circle: while the database answers, every accepted request ends, also one
\* that needs a connection while others wait for the row lock it will need.
\* This is why no repository method asks the pool for a second connection
\* inside its transaction (tickets/repository.go:272-335).
EveryRequestEnds ==
    \A q \in Requests : Open(q) ~> (~ Open(q) \/ stalled)

\* The readiness probe answers even when the pool is exhausted or the
\* database hangs (health.go:35-46).
ReadinessAnswers ==
    \A q \in Requests :
        (Open(q) /\ request[q].left = Ready) ~> ~ Open(q)

\* Once told to stop, or without a listener, the process exits as long as
\* the database answers: the timeout ends the drain and every handler gives
\* its connection back, so that pool.Close returns.
StopsWhenTold ==
    (signalled \/ report # "none") ~> (phase = "exited" \/ stalled)
============================================================================
