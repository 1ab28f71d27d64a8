----------------------- MODULE ServerLifecycleProofs -----------------------
(***************************************************************************)
(* Proofs about ServerLifecycle, for any set of requests, any routes and   *)
(* any size of the pool.                                                   *)
(***************************************************************************)
EXTENDS ServerLifecycle, FiniteSetTheorems, SequenceTheorems, TLAPS

LifecycleInvariant == LifecycleTypeOK /\ Graceful

----------------------------------------------------------------------------
\* The calls of every route form a sequence of calls.
LEMMA WorkIsCalls ==
    ASSUME NEW route \in Routes
    PROVE  Work[route] \in Seq(Calls)
  <1>1. ASSUME NEW calls \in Seq(Calls)
        PROVE  Authenticated(calls) \in Seq(Calls)
    <2>1. <<"query">> \in Seq(Calls)
      BY DEF Calls
    <2> QED
      BY <2>1, ConcatProperties DEF Authenticated
  <1>2. /\ << >> \in Seq(Calls) /\ <<"query">> \in Seq(Calls)
        /\ <<"transaction">> \in Seq(Calls)
        /\ <<"query", "query", "query">> \in Seq(Calls)
    BY DEF Calls
  <1>3. /\ Health \in Seq(Calls) /\ Ready \in Seq(Calls)
        /\ Login \in Seq(Calls)
    BY DEF Health, Ready, Login, Calls
  <1>4. /\ Lookup \in Seq(Calls) /\ List \in Seq(Calls)
        /\ Change \in Seq(Calls) /\ Authenticated(<< >>) \in Seq(Calls)
    BY <1>1, <1>2 DEF Lookup, List, Change
  <1>5. route \in {"health", "ready", "session", "login", "lookup",
                   "list", "change"}
    BY RoutesAreKnown DEF Work
  <1> QED
    BY <1>3, <1>4, <1>5 DEF Work

\* The pool's connections are finitely many: they belong to requests.
LEMMA ConnsAreFinite ==
    ASSUME LifecycleTypeOK
    PROVE  IsFiniteSet(conns)
  BY RequestsAreFinite, FS_Subset DEF LifecycleTypeOK

LEMMA InitHolds == LifecycleInit => LifecycleInvariant
  <1> SUFFICES ASSUME LifecycleInit PROVE LifecycleInvariant
    OBVIOUS
  <1>1. conns = {} /\ Cardinality(conns) <= MaxConns
    BY FS_EmptySet, PoolHasConnections DEF LifecycleInit
  <1>2. request \in [Requests -> [at : Places, left : Seq(Calls), early : BOOLEAN]]
    BY DEF LifecycleInit, Places, ServePhases
  <1>3. conns = {q \in Requests : request[q].at \in {"holding", "locked"}}
    BY DEF LifecycleInit
  <1>4. LifecycleTypeOK
    BY <1>1, <1>2, <1>3, RequestsAreFinite DEF LifecycleInit, LifecycleTypeOK, ServePhases, Results
  <1>5. Graceful
    BY DEF LifecycleInit, Graceful, ExitCode
  <1> QED
    BY <1>4, <1>5 DEF LifecycleInvariant

\* Giving a connection back keeps the pool within its bound.
LEMMA ReleaseShrinksConns ==
    ASSUME LifecycleTypeOK, NEW q \in Requests
    PROVE  Cardinality(conns \ {q}) <= MaxConns
  <1>1. IsFiniteSet(conns)
    BY ConnsAreFinite
  <1>2. Cardinality(conns \ {q}) <= Cardinality(conns)
    BY <1>1, FS_Subset
  <1>3. Cardinality(conns) \in Nat /\ Cardinality(conns \ {q}) \in Nat
    BY <1>1, FS_Subset, FS_CardinalityType
  <1> QED
    BY <1>2, <1>3, PoolHasConnections DEF LifecycleTypeOK

\* A handler that has ended its calls has none left.
LEMMA NothingLeft == << >> \in Seq(Calls)
  OBVIOUS

\* What is left after a handler's first call, while it makes calls.
LEMMA RestOfRequest ==
    ASSUME LifecycleTypeOK, NEW q \in Requests, QueryAnswers(q),
           NEW rest \in {Tail(request[q].left), << >>}
    PROVE  rest \in Seq(Calls)
  <1>1. request[q].left \in Seq(Calls) /\ request[q].left # << >>
    BY DEF LifecycleTypeOK, QueryAnswers
  <1>2. Tail(request[q].left) \in Seq(Calls)
    BY <1>1, HeadTailProperties
  <1> QED
    BY <1>2, NothingLeft

\* A handler moves from one place to another: what the step leaves in order.
LEMMA MoveKeepsTypes ==
    ASSUME LifecycleTypeOK, NEW q \in Requests,
           NEW place \in Places, NEW rest \in Seq(Calls),
           request' = [request EXCEPT ![q].at = place, ![q].left = rest],
           conns' = IF place \in {"holding", "locked"} THEN conns \cup {q}
                                                      ELSE conns \ {q},
           Cardinality(conns') <= MaxConns,
           place \in {"holding", "locked"} => rest # << >>,
           rowOwner' \in Requests \cup {NoRequest},
           \A r \in Requests : rowOwner' = r <=> request'[r].at = "locked",
           UNCHANGED <<main, stalled>>
    PROVE  LifecycleTypeOK'
  <1>1. request' \in [Requests -> [at : Places, left : Seq(Calls), early : BOOLEAN]]
    BY DEF LifecycleTypeOK
  <1>2. /\ request'[q].at = place
        /\ \A r \in Requests \ {q} : request'[r] = request[r]
    BY DEF LifecycleTypeOK
  <1>3. conns' = {r \in Requests : request'[r].at \in {"holding", "locked"}}
    BY <1>2 DEF LifecycleTypeOK
  <1>4. \A r \in conns' : request'[r].left # << >>
    BY <1>2, <1>3 DEF LifecycleTypeOK
  <1> QED
    BY <1>1, <1>3, <1>4 DEF LifecycleTypeOK, main
\* A handler that keeps its list of calls moves in the same way.
LEMMA KeepsCalls ==
    ASSUME LifecycleTypeOK, NEW q \in Requests, NEW place,
           request' = [request EXCEPT ![q].at = place]
    PROVE  /\ request[q].left \in Seq(Calls)
           /\ request' = [request EXCEPT ![q].at = place,
                                         ![q].left = request[q].left]
  <1>1. request[q] \in [at : Places, left : Seq(Calls), early : BOOLEAN]
    BY DEF LifecycleTypeOK
  <1>2. [request[q] EXCEPT !.at = place]
          = [request[q] EXCEPT !.at = place, !.left = request[q].left]
    BY <1>1
  <1> QED
    BY <1>1, <1>2 DEF LifecycleTypeOK

\* One request more holds a connection only while there is one left.
LEMMA AcquireTypes ==
    ASSUME LifecycleTypeOK, NEW q \in Requests, Acquire(q)
    PROVE  LifecycleTypeOK'
  <1>1. q \notin conns /\ IsFiniteSet(conns)
    BY ConnsAreFinite DEF LifecycleTypeOK, Acquire
  <1>2. Cardinality(conns \cup {q}) = Cardinality(conns) + 1
    BY <1>1, FS_AddElement
  <1>3. Cardinality(conns') <= MaxConns
    BY <1>1, <1>2, FS_CardinalityType, PoolHasConnections DEF Acquire
  <1>4. request[q].left \in Seq(Calls)
        /\ request' = [request EXCEPT ![q].at = "holding",
                                      ![q].left = request[q].left]
    BY KeepsCalls DEF Acquire
  <1>5. \A r \in Requests : rowOwner' = r <=> request'[r].at = "locked"
    BY DEF Acquire, LifecycleTypeOK
  <1>6. "holding" \in Places /\ UNCHANGED <<main, stalled>>
        /\ request[q].left # << >>
        /\ conns' = conns \cup {q} /\ rowOwner' \in Requests \cup {NoRequest}
    BY DEF Acquire, Places, LifecycleTypeOK
  <1> QED
    BY <1>3, <1>4, <1>5, <1>6, MoveKeepsTypes

\* A call that ends gives the connection back, whatever is left to do.
LEMMA ReleaseTypes ==
    ASSUME LifecycleTypeOK, NEW q \in Requests, NEW rest \in Seq(Calls),
           Release(q, rest), UNCHANGED <<main, stalled>>,
           \/ request[q].at # "locked" /\ rowOwner' = rowOwner
           \/ request[q].at = "locked" /\ rowOwner' = NoRequest
    PROVE  LifecycleTypeOK'
  <1>1. Cardinality(conns') <= MaxConns
    BY ReleaseShrinksConns DEF Release
  <1>2. request' = [request EXCEPT ![q].at = "running", ![q].left = rest]
        /\ conns' = conns \ {q} /\ "running" \in Places
    BY DEF Release, Places
  <1>3. /\ request'[q].at = "running"
        /\ \A r \in Requests \ {q} : request'[r] = request[r]
    BY <1>2 DEF LifecycleTypeOK
  <1>4. rowOwner' \in Requests \cup {NoRequest}
        /\ \A r \in Requests : rowOwner' = r <=> request'[r].at = "locked"
    BY <1>3, RequestsAreFinite DEF LifecycleTypeOK
  <1> QED
    BY <1>1, <1>2, <1>4, MoveKeepsTypes

\* Waiting for the row, refusing and answering leave the pool as it is.
LEMMA InPlaceTypes ==
    ASSUME LifecycleTypeOK, NEW q \in Requests,
           LockRow(q) \/ RefuseCall(q) \/ Answer(q)
    PROVE  LifecycleTypeOK'
  <1>1. CASE LockRow(q)
    <2>1. request[q].left \in Seq(Calls)
          /\ request' = [request EXCEPT ![q].at = "locked",
                                        ![q].left = request[q].left]
      BY <1>1, KeepsCalls DEF LockRow
    <2>2. /\ "locked" \in Places /\ UNCHANGED <<main, stalled>>
          /\ request[q].left # << >>
          /\ conns' = conns \cup {q} /\ Cardinality(conns') <= MaxConns
          /\ rowOwner' \in Requests \cup {NoRequest}
      BY <1>1 DEF LockRow, LifecycleTypeOK, Places
    <2>3. \A r \in Requests : rowOwner' = r <=> request'[r].at = "locked"
      BY <1>1, RequestsAreFinite DEF LockRow, LifecycleTypeOK
    <2> QED
      BY <2>1, <2>2, <2>3, MoveKeepsTypes
  <1>2. ASSUME NEW place \in {"refused", "answered"},
               request[q].at = "running",
               request' = [request EXCEPT ![q].at = place],
               UNCHANGED <<main, conns, rowOwner, stalled>>
        PROVE  LifecycleTypeOK'
    <2>1. request[q].left \in Seq(Calls)
          /\ request' = [request EXCEPT ![q].at = place,
                                        ![q].left = request[q].left]
      BY <1>2, KeepsCalls
    <2>2. /\ place \in Places
          /\ conns' = conns \ {q} /\ Cardinality(conns') <= MaxConns
          /\ rowOwner' \in Requests \cup {NoRequest}
      BY <1>2 DEF LifecycleTypeOK, Places
    <2>3. \A r \in Requests : rowOwner' = r <=> request'[r].at = "locked"
      BY <1>2 DEF LifecycleTypeOK
    <2>4. conns' = IF place \in {"holding", "locked"} THEN conns \cup {q}
                                                     ELSE conns \ {q}
      BY <2>2
    <2> QED
      BY <1>2, <2>1, <2>2, <2>3, <2>4, MoveKeepsTypes
  <1> QED
    BY <1>1, <1>2 DEF RefuseCall, Answer

\* A request that arrives has its route's calls to make.
LEMMA ArriveTypes ==
    ASSUME LifecycleTypeOK, NEW q \in Requests, Arrive(q)
    PROVE  LifecycleTypeOK'
  <1>1. PICK route \in Routes :
          request' = [request EXCEPT
             ![q] = [at |-> "running", left |-> Work[route],
                     early |-> phase = "serving"]]
    BY DEF Arrive
  <1>2. Work[route] \in Seq(Calls)
    BY WorkIsCalls
  <1>3. request' \in [Requests -> [at : Places, left : Seq(Calls), early : BOOLEAN]]
    BY <1>1, <1>2 DEF LifecycleTypeOK, Places
  <1>4. /\ request[q].at = "absent" /\ request'[q].at = "running"
        /\ \A r \in Requests \ {q} : request'[r] = request[r]
    BY <1>1 DEF Arrive, LifecycleTypeOK
  <1>5. conns' = {r \in Requests : request'[r].at \in {"holding", "locked"}}
    BY <1>4 DEF Arrive, LifecycleTypeOK
  <1>6. \A r \in Requests : rowOwner' = r <=> request'[r].at = "locked"
    BY <1>4 DEF Arrive, LifecycleTypeOK
  <1> QED
    BY <1>3, <1>5, <1>6 DEF Arrive, LifecycleTypeOK, main

\* When the process ends no handler holds anything, so none loses it.
LEMMA ExitTypes ==
    ASSUME LifecycleTypeOK, Exit
    PROVE  LifecycleTypeOK'
  <1>1. \A q \in Requests : request[q].at \notin {"holding", "locked"}
    BY DEF LifecycleTypeOK, Exit
  <1>2. request' \in [Requests -> [at : Places, left : Seq(Calls), early : BOOLEAN]]
    BY DEF LifecycleTypeOK, Exit, Places
  <1>3. \A q \in Requests : request'[q].at \notin {"holding", "locked"}
    BY <1>1 DEF LifecycleTypeOK, Exit, Open
  <1>4. conns' = {q \in Requests : request'[q].at \in {"holding", "locked"}}
    BY <1>3 DEF Exit
  <1>5. \A q \in Requests : rowOwner' = q <=> request'[q].at = "locked"
    BY <1>1, <1>3 DEF LifecycleTypeOK, Exit
  <1> QED
    BY <1>2, <1>4, <1>5 DEF LifecycleTypeOK, Exit, ServePhases

LEMMA TypeStep ==
    ASSUME LifecycleTypeOK, [LifecycleNext]_lifecycleVars
    PROVE  LifecycleTypeOK'
  <1>1. CASE ListenerOpens \/ ListenerStops \/ Signal \/ Stall
    BY <1>1 DEF ListenerOpens, ListenerStops, Signal, Stall, LifecycleTypeOK, main, work
  <1>2. CASE TakeReport \/ BeginShutdown \/ DrainEnds \/ DrainTimesOut \/ DrainFails
    BY <1>2 DEF TakeReport, BeginShutdown, DrainEnds, DrainTimesOut, DrainFails,
       LifecycleTypeOK,
       work, ServePhases, Results
  <1>3. CASE Exit
    BY <1>3, ExitTypes
  <1>4. ASSUME NEW q \in Requests, Arrive(q) \/ Handle(q) \/ AbandonTransaction(q)
        PROVE  LifecycleTypeOK'
    <2>1. CASE Arrive(q)
      BY <2>1, ArriveTypes
    <2>2. CASE Acquire(q)
      BY <2>2, AcquireTypes
    <2>3. CASE LockRow(q) \/ RefuseCall(q) \/ Answer(q)
      BY <2>3, InPlaceTypes
    <2>4. CASE QueryAnswers(q)
      <3>1. PICK rest \in {Tail(request[q].left), << >>} : Release(q, rest)
        BY <2>4 DEF QueryAnswers
      <3> QED
        BY <2>4, <3>1, ReleaseTypes, RestOfRequest DEF QueryAnswers
    <2>5. CASE EndTransaction(q)
      BY <2>5, ReleaseTypes, NothingLeft DEF EndTransaction
    <2>6. CASE AbandonTransaction(q)
      BY <2>6, ReleaseTypes, NothingLeft DEF AbandonTransaction
    <2>7. CASE PingTimesOut(q)
      BY <2>7, ReleaseTypes, NothingLeft DEF PingTimesOut
    <2> QED
      BY <1>4, <2>1, <2>2, <2>3, <2>4, <2>5, <2>6, <2>7 DEF Handle
  <1>5. CASE UNCHANGED lifecycleVars
    BY <1>5 DEF lifecycleVars, main, work, LifecycleTypeOK
  <1> QED
    BY <1>1, <1>2, <1>3, <1>4, <1>5 DEF LifecycleNext, Serve

----------------------------------------------------------------------------
\* What the steps of serve and of the deferred calls keep.
LEMMA ServeKeepsGraceful ==
    ASSUME LifecycleTypeOK, Graceful, Serve
    PROVE  Graceful'
  <1>1. CASE TakeReport
    BY <1>1 DEF TakeReport, Graceful, ExitCode, work
  <1>2. CASE BeginShutdown
    BY <1>2 DEF BeginShutdown, Graceful, ExitCode, work
  <1>3. CASE DrainEnds
    <2>1. \A q \in Requests : request[q].at \in {"absent", "answered"}
      BY <1>3 DEF DrainEnds, Graceful, LifecycleTypeOK, OpenRequests, Open, Places
    <2> QED
      BY <1>3, <2>1 DEF DrainEnds, Graceful, ExitCode, work
  <1>4. CASE DrainTimesOut
    BY <1>4 DEF DrainTimesOut, Graceful, ExitCode, work
  <1>5. CASE DrainFails
    BY <1>5 DEF DrainFails, Graceful, ExitCode, work
  <1>6. CASE Exit
    <2>1. \A q \in Requests :
            /\ request'[q].early = request[q].early
            /\ request[q].at \in {"absent", "answered"} => request'[q] = request[q]
      BY <1>6 DEF Exit, LifecycleTypeOK, Open
    <2> QED
      BY <1>6, <2>1 DEF Exit, Graceful, ExitCode
  <1> QED
    BY <1>1, <1>2, <1>3, <1>4, <1>5, <1>6 DEF Serve

\* A request that arrives after the shutdown completed says so.
LEMMA ArriveKeepsGraceful ==
    ASSUME LifecycleTypeOK, Graceful, NEW q \in Requests, Arrive(q)
    PROVE  Graceful'
  <1>1. /\ request'[q].at = "running" /\ request'[q].early = (phase = "serving")
        /\ \A r \in Requests \ {q} : request'[r] = request[r]
    BY DEF Arrive, LifecycleTypeOK
  <1>2. result = "completed" => phase # "serving"
    BY DEF Graceful
  <1> QED
    BY <1>1, <1>2 DEF Arrive, Graceful, ExitCode, main

\* A handler's step is that of an open request; before the pool closes it is
\* refused nothing, and after the process ended there is none.
LEMMA HandlerKeepsGraceful ==
    ASSUME LifecycleTypeOK, Graceful, NEW q \in Requests,
           Handle(q) \/ AbandonTransaction(q)
    PROVE  Graceful'
  <1> DEFINE Moves ==
         /\ request[q].at \in {"running", "holding", "locked"}
         /\ request'[q].early = request[q].early
         /\ request'[q].at # "dropped"
         /\ request'[q].at = "refused" => phase = "closing"
         /\ \A r \in Requests \ {q} : request'[r] = request[r]
         /\ phase = "exited" => conns' = conns
         /\ UNCHANGED <<phase, result, signalled>>
  <1> HIDE DEF Moves
  <1>1. Moves
    <2>1. CASE Acquire(q)
      BY <2>1 DEF Acquire, LifecycleTypeOK, main, Moves
    <2>2. CASE RefuseCall(q)
      BY <2>2 DEF RefuseCall, LifecycleTypeOK, main, Moves
    <2>3. CASE LockRow(q)
      BY <2>3 DEF LockRow, LifecycleTypeOK, main, Moves
    <2>4. CASE Answer(q)
      BY <2>4 DEF Answer, LifecycleTypeOK, main, Moves
    <2>5. ASSUME NEW rest, Release(q, rest), UNCHANGED main,
                 request[q].at \in {"running", "holding", "locked"}
          PROVE  Moves
      BY <2>5 DEF Release, LifecycleTypeOK, Graceful, main, Moves
    <2>6. CASE QueryAnswers(q) \/ EndTransaction(q) \/ AbandonTransaction(q)
               \/ PingTimesOut(q)
      BY <2>5, <2>6
         DEF QueryAnswers, EndTransaction, AbandonTransaction, PingTimesOut
    <2> QED
      BY <2>1, <2>2, <2>3, <2>4, <2>6 DEF Handle
  <1> QED
    BY <1>1 DEF Moves, Graceful, ExitCode

LEMMA StepHolds ==
    ASSUME LifecycleInvariant, [LifecycleNext]_lifecycleVars
    PROVE  LifecycleInvariant'
  <1> USE DEF LifecycleInvariant
  <1>1. LifecycleTypeOK'
    BY TypeStep
  <1>2. CASE ListenerOpens \/ ListenerStops \/ Signal \/ Stall
    BY <1>1, <1>2 DEF ListenerOpens, ListenerStops, Signal, Stall, Graceful,
       ExitCode, main, work
  <1>3. CASE Serve
    BY <1>1, <1>3, ServeKeepsGraceful
  <1>4. ASSUME NEW q \in Requests, Arrive(q) \/ Handle(q) \/ AbandonTransaction(q)
        PROVE  Graceful'
    BY <1>4, ArriveKeepsGraceful, HandlerKeepsGraceful
  <1>5. CASE UNCHANGED lifecycleVars
    BY <1>1, <1>5 DEF lifecycleVars, main, work, Graceful, ExitCode
  <1> QED
    BY <1>1, <1>2, <1>3, <1>4, <1>5 DEF LifecycleNext

----------------------------------------------------------------------------
(***************************************************************************)
(* Whatever requests arrive and whatever fails, connections, row lock and  *)
(* handlers agree, the pool stays within its bound, and serve's result     *)
(* tells what became of the requests.                                      *)
(***************************************************************************)
THEOREM LifecycleInvariantHolds == LifecycleSpec => []LifecycleInvariant
  <1>1. LifecycleInit => LifecycleInvariant
    BY InitHolds
  <1>2. LifecycleInvariant /\ [LifecycleNext]_lifecycleVars => LifecycleInvariant'
    BY StepHolds
  <1> QED
    BY <1>1, <1>2, PTL DEF LifecycleSpec

(* Connections, row lock and handlers agree, within the pool's bound       *)
(* (pool.Acquire and the releases of the repositories).                    *)
THEOREM LifecycleTypeCorrectness == LifecycleSpec => []LifecycleTypeOK
  <1>1. LifecycleInvariant => LifecycleTypeOK
    BY DEF LifecycleInvariant
  <1> QED
    BY <1>1, LifecycleInvariantHolds, PTL

(* A zero exit code means the process was told to stop and, when the       *)
(* shutdown completed, that every request accepted while it served was     *)
(* answered by its handler (main.go:20-24, 65-95).                         *)
THEOREM ZeroExitMeansGraceful == LifecycleSpec => []ZeroMeansGraceful
  <1>1. LifecycleInvariant => ZeroMeansGraceful
    BY DEF LifecycleInvariant, Graceful, ZeroMeansGraceful
  <1> QED
    BY <1>1, LifecycleInvariantHolds, PTL

(* The process never ends in the middle of a database call (main.go:43).   *)
THEOREM ExitIsBetweenTransactions == LifecycleSpec => []ExitCutsNoTransaction
  <1>1. LifecycleInvariant => ExitCutsNoTransaction
    <2> SUFFICES ASSUME LifecycleInvariant, phase = "exited"
                 PROVE  conns = {} /\ rowOwner = NoRequest
      BY DEF ExitCutsNoTransaction
    <2>1. conns = {}
      BY DEF LifecycleInvariant, Graceful
    <2>2. \A q \in Requests : rowOwner # q
      BY <2>1 DEF LifecycleInvariant, LifecycleTypeOK
    <2> QED
      BY <2>1, <2>2 DEF LifecycleInvariant, LifecycleTypeOK
  <1> QED
    BY <1>1, LifecycleInvariantHolds, PTL
============================================================================
