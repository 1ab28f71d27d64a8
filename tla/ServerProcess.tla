---------------------------- MODULE ServerProcess ----------------------------
(***************************************************************************)
(* `run` of backend/cmd/server/main.go: a process connects, migrates the   *)
(* database and then serves.  Migrating, which processes do against each   *)
(* other, and serving, which each does for itself, share only the pool,    *)
(* and one uses it after the other; so a behaviour shows one of the two.   *)
(***************************************************************************)
EXTENDS MigrationRunner, ServerLifecycle

runVars == <<vars, lifecycleVars>>

RunInit == Init /\ LifecycleInit

BeforeServing == LifecycleInit

\* A new database, before any process migrates it.
BeforeMigrating ==
    /\ \A s \in Servers : starts[s] = 0
    /\ \A v \in Versions : ledger[v] = None

Migrates(step) == BeforeServing /\ step /\ UNCHANGED lifecycleVars
Serves(step) == BeforeMigrating /\ step /\ UNCHANGED vars

RunNext == Migrates(Next) \/ Serves(LifecycleNext)

RunSpec == RunInit /\ [][RunNext]_runVars

\* The goroutine of main and those of the handlers are scheduled and timers
\* fire.  PostgreSQL answers, unless it stalls, grants the lock once it is
\* free and ends the sessions of lost clients.  Nobody has to call, to
\* signal or to stop listening, and no transaction has to fail.
FairSpec ==
    /\ RunSpec
    /\ \A s \in Servers : WF_runVars(Migrates(Proceed(s)))
    /\ WF_runVars(Migrates(OrphanEnds))
    /\ WF_runVars(Serves(Serve))
    /\ \A q \in Requests : WF_runVars(Serves(Handle(q)))
==============================================================================
