------------------------------- MODULE Spider -------------------------------
(***************************************************************************)
(* The spider as a process: how it takes its lock, runs its two crawls,    *)
(* reports its health and stops (cmd/spider/main.go and the Schedule loop  *)
(* of crawler/pipeline.go).  What a crawl does is the matter of Settlement *)
(* and Betting; here it is a job that runs for a while.                    *)
(*                                                                         *)
(* The lock is a session-level advisory lock: the database holds it for    *)
(* the connection that took it and frees it some time after that           *)
(* connection is closed.  The connection belongs to the pool of            *)
(* repo.NewDB, which closes every connection that is five minutes old.     *)
(*                                                                         *)
(* The instances of one host share one health file, whose writes succeed.  *)
(* Docker starts a daemon again whenever it has ended ("restart: always"). *)
(* Bounds of the model: MaxStops signals, kills and failed starts, and     *)
(* MaxRecycles closed lock connections.                                    *)
(***************************************************************************)
EXTENDS Integers, FiniteSets

CONSTANTS Daemons,     \* instances that run Schedule
          OneShots,    \* instances started with --once
          Free,        \* nobody holds the lock
          Ghost,       \* a closed connection the database still counts as the holder
          MaxStops, MaxRecycles

Instances == Daemons \cup OneShots
Jobs      == {"odds", "results"}

ASSUME SpiderAssumption ==
    /\ IsFiniteSet(Instances)
    /\ Daemons \cap OneShots = {}
    /\ Free \notin Instances /\ Ghost \notin Instances /\ Free # Ghost
    /\ MaxStops \in Nat /\ MaxRecycles \in Nat

VARIABLES pc,         \* per instance
          due,        \* per instance: the tickers that have fired, one slot each
          cancelled,  \* per instance: the context, cancelled by the first signal
          lock,       \* whose connection holds the advisory lock
          health,     \* whether the health file exists
          stops, recycles

spiderVars == <<pc, due, cancelled, lock, health, stops, recycles>>

SpiderInit ==
    /\ pc = [i \in Instances |-> "off"]
    /\ due = [i \in Instances |-> {}]
    /\ cancelled = [i \in Instances |-> FALSE]
    /\ lock = Free
    /\ health = FALSE
    /\ stops = 0 /\ recycles = 0

\* The process ends, and with it its connections.
End(i) ==
    /\ pc' = [pc EXCEPT ![i] = "off"]
    /\ due' = [due EXCEPT ![i] = {}]
    /\ cancelled' = [cancelled EXCEPT ![i] = FALSE]

Release(i) == lock' = IF lock = i THEN Ghost ELSE lock

Goto(i, l) == pc' = [pc EXCEPT ![i] = l]

-----------------------------------------------------------------------------
(* main                                                                    *)

\* NewDB connects.
Start(i) ==
    /\ pc[i] = "off"
    /\ Goto(i, "lock")
    /\ UNCHANGED <<due, cancelled, lock, health, stops, recycles>>

\* Mutant: the answer of pg_try_advisory_lock is not looked at.
TryAcquireLock_Unchecked(i) ==
    /\ pc[i] = "lock"
    /\ lock' = IF lock = Free THEN i ELSE lock
    /\ Goto(i, IF i \in Daemons THEN "boot" ELSE "firstOdds")
    /\ UNCHANGED <<due, cancelled, health, stops, recycles>>

\* tryAcquireLock: an instance that does not get the lock exits.
TryAcquireLock(i) ==
    /\ pc[i] = "lock"
    /\ \/ /\ lock = Free
          /\ lock' = i
          /\ Goto(i, IF i \in Daemons THEN "boot" ELSE "firstOdds")
          /\ UNCHANGED <<due, cancelled>>
       \/ /\ lock # Free
          /\ End(i)
          /\ UNCHANGED lock
    /\ UNCHANGED <<health, stops, recycles>>

-----------------------------------------------------------------------------
(* Schedule                                                                *)

\* signal.Notify; the tickers are made, the file is written, the heartbeat starts.
Boot(i) ==
    /\ pc[i] = "boot"
    /\ health' = TRUE
    /\ Goto(i, "firstOdds")
    /\ UNCHANGED <<due, cancelled, lock, stops, recycles>>

Scheduled == {"firstOdds", "firstResults", "select", "odds", "results", "write"}

\* A ticker drops the ticks its reader is too slow for.
Fire(i, j) ==
    /\ i \in Daemons
    /\ pc[i] \in Scheduled
    /\ j \notin due[i]
    /\ due' = [due EXCEPT ![i] = @ \cup {j}]
    /\ UNCHANGED <<pc, cancelled, lock, health, stops, recycles>>

\* RunAllOdds or RunAllResults returns; a panic in it is recovered.
EndJob(i) ==
    /\ \/ /\ pc[i] = "firstOdds"
          /\ Goto(i, "firstResults")
       \/ /\ pc[i] = "firstResults"
          /\ Goto(i, IF i \in Daemons THEN "select" ELSE "exit")
       \/ /\ pc[i] \in Jobs
          /\ Goto(i, "write")
    /\ UNCHANGED <<due, cancelled, lock, health, stops, recycles>>

WriteHealth(i) ==
    /\ pc[i] = "write"
    /\ health' = TRUE
    /\ Goto(i, "select")
    /\ UNCHANGED <<due, cancelled, lock, stops, recycles>>

\* Mutant: the results are crawled only when the odds are not due.
Serve_OddsFirst(i, j) ==
    /\ pc[i] = "select"
    /\ j \in due[i]
    /\ j = "results" => "odds" \notin due[i]
    /\ due' = [due EXCEPT ![i] = @ \ {j}]
    /\ Goto(i, j)
    /\ UNCHANGED <<cancelled, lock, health, stops, recycles>>

\* select takes any case that is ready: a job that is due ...
Serve(i, j) ==
    /\ pc[i] = "select"
    /\ j \in due[i]
    /\ due' = [due EXCEPT ![i] = @ \ {j}]
    /\ Goto(i, j)
    /\ UNCHANGED <<cancelled, lock, health, stops, recycles>>

\* Mutant: the context is looked at only when no job is due.
Shutdown_WhenIdle(i) ==
    /\ pc[i] = "select"
    /\ cancelled[i]
    /\ due[i] = {}
    /\ Goto(i, "clear")
    /\ UNCHANGED <<due, cancelled, lock, health, stops, recycles>>

\* ... or the cancelled context.
Shutdown(i) ==
    /\ pc[i] = "select"
    /\ cancelled[i]
    /\ Goto(i, "clear")
    /\ UNCHANGED <<due, cancelled, lock, health, stops, recycles>>

ClearHealth(i) ==
    /\ pc[i] = "clear"
    /\ health' = FALSE
    /\ Goto(i, "exit")
    /\ UNCHANGED <<due, cancelled, lock, stops, recycles>>

\* The heartbeat runs beside all this until it sees the cancelled context, which
\* may be after the file was cleared.
Heartbeat(i) ==
    /\ i \in Daemons
    /\ pc[i] \in Scheduled \cup {"clear", "exit"}
    /\ health' = TRUE
    /\ UNCHANGED <<pc, due, cancelled, lock, stops, recycles>>

\* Mutant: the lock outlives its holder.
Exit_KeepsLock(i) ==
    /\ pc[i] = "exit"
    /\ End(i)
    /\ UNCHANGED <<lock, health, stops, recycles>>

Exit(i) ==
    /\ pc[i] = "exit"
    /\ End(i)
    /\ Release(i)
    /\ UNCHANGED <<health, stops, recycles>>

-----------------------------------------------------------------------------
(* Signals, crashes, and the connection that holds the lock.               *)

Stop == stops < MaxStops /\ stops' = stops + 1

\* Mutant: the handler is installed before the --once run and the lock.
Signal_AlwaysHandled(i) ==
    /\ Stop
    /\ pc[i] # "off"
    /\ cancelled' = [cancelled EXCEPT ![i] = TRUE]
    /\ UNCHANGED <<pc, due, lock, health, recycles>>

\* Only a daemon that has come to Schedule handles a signal, and only the first.
Signal(i) ==
    /\ Stop
    /\ pc[i] # "off"
    /\ IF i \in Daemons /\ pc[i] \notin {"lock", "boot"}
       THEN /\ cancelled' = [cancelled EXCEPT ![i] = TRUE]
            /\ UNCHANGED <<pc, due, lock>>
       ELSE End(i) /\ Release(i)
    /\ UNCHANGED <<health, recycles>>

\* A crash, or Docker's SIGKILL after its grace period.
Kill(i) ==
    /\ Stop
    /\ pc[i] # "off"
    /\ End(i) /\ Release(i)
    /\ UNCHANGED <<health, recycles>>

\* The start fails at the database, maybe after the lock was granted.
StartFails(i) ==
    /\ Stop
    /\ pc[i] = "lock"
    /\ End(i)
    /\ lock' \in {lock, IF lock = Free THEN Ghost ELSE lock}
    /\ UNCHANGED <<health, recycles>>

\* The pool closes the connection that holds the lock; its owner does not notice.
Recycle(i) ==
    /\ recycles < MaxRecycles
    /\ lock = i
    /\ Release(i)
    /\ recycles' = recycles + 1
    /\ UNCHANGED <<pc, due, cancelled, health, stops>>

\* The database notices that the connection is gone.
Reap ==
    /\ lock = Ghost
    /\ lock' = Free
    /\ UNCHANGED <<pc, due, cancelled, health, stops, recycles>>

-----------------------------------------------------------------------------
\* The steps an instance takes by itself, the choices of select apart.
Progress(i) ==
    \/ TryAcquireLock(i)
    \/ Boot(i)
    \/ EndJob(i)
    \/ WriteHealth(i)
    \/ ClearHealth(i)
    \/ Exit(i)

SpiderNext ==
    \/ \E i \in Instances :
          \/ Start(i)
          \/ Progress(i)
          \/ \E j \in Jobs : Fire(i, j) \/ Serve(i, j)
          \/ Shutdown(i)
          \/ Heartbeat(i)
          \/ Signal(i)
          \/ Kill(i)
          \/ StartFails(i)
          \/ Recycle(i)
    \/ Reap

SpiderSpec == SpiderInit /\ [][SpiderNext]_spiderVars

\* Jobs end, for their requests time out; tickers fire for ever; Docker restarts
\* the daemons, and the database reaps closed connections.  Go's select chooses at
\* random among the ready cases, so none that is ready again and again is passed
\* over for ever: strong fairness.
SpiderFairness ==
    /\ \A i \in Daemons : WF_spiderVars(Start(i))
    /\ \A i \in Instances : WF_spiderVars(Progress(i))
    /\ \A i \in Daemons, j \in Jobs : WF_spiderVars(Fire(i, j)) /\ SF_spiderVars(Serve(i, j))
    /\ \A i \in Daemons : SF_spiderVars(Shutdown(i))
    /\ WF_spiderVars(Reap)

FairSpiderSpec == SpiderSpec /\ SpiderFairness

-----------------------------------------------------------------------------
(* Properties                                                              *)

SpiderTypeOK ==
    /\ pc \in [Instances -> Scheduled \cup {"off", "lock", "boot", "clear", "exit"}]
    /\ due \in [Instances -> SUBSET Jobs]
    /\ cancelled \in [Instances -> BOOLEAN]
    /\ lock \in Instances \cup {Free, Ghost}
    /\ health \in BOOLEAN
    /\ stops \in Nat /\ recycles \in Nat
    /\ \A i \in OneShots : due[i] = {} /\ ~cancelled[i]

\* The instances that got past tryAcquireLock.
Working == {i \in Instances : pc[i] \notin {"off", "lock"}}

\* "Another spider instance is already running, exiting" (cmd/spider/main.go:37):
\* there is never more than one.
OneSpider == Cardinality(Working) <= 1

\* What the lock achieves: every further spider at work is paid for by one lock
\* connection that the pool closed under its owner; starts, crashes, signals and
\* the database's delay in noticing them admit none.
SpidersBounded == Cardinality(Working) <= 1 + recycles

\* As long as the lock is kept, the health file is there whenever a daemon crawls,
\* so that the container is not restarted for its lack: an instance that stops
\* removes no file of another one, although both use the same path.
FileWhileCrawling ==
    recycles = 0 => \A i \in Daemons : pc[i] \in Scheduled => health

\* A daemon that got a signal ends, although jobs keep falling due.
StopsWhenAsked == \A i \in Daemons : cancelled[i] ~> pc[i] = "off"

\* A crawl that is due is run, or the daemon ends: neither ticker starves the other,
\* however long the jobs take compared with the intervals.
NothingStarves ==
    \A i \in Daemons, j \in Jobs : j \in due[i] ~> (pc[i] = j \/ pc[i] = "off")

\* A lock left by a dead instance keeps no daemon from starting for ever: again
\* and again there is a spider at work.
AlwaysASpider == []<>(Working # {})
=============================================================================
