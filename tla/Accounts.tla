------------------------------ MODULE Accounts ------------------------------
(***************************************************************************)
(* The rows of users and the connections to them: logins create a row      *)
(* (service/auth/auth.go), a share adds credits in a transaction that      *)
(* locks the row (pkg/credits/manager.go Add), the daily reset updates     *)
(* every row in one statement (cmd/server/main.go), and a settle request   *)
(* updates the row of each winner while it keeps the rows it read open     *)
(* (repo/user_repo.go SettleAllForMatch).  All of them take connections    *)
(* from one pool (repo/repo.go NewDB) and wait for one as long as it takes.*)
(*                                                                         *)
(* What a settle request writes is the matter of Settlement.  A statement  *)
(* that waits for no row lock takes and returns its connection in one step.*)
(* Bounds of the model: MaxRequests requests, of at most MaxRows rows if   *)
(* they settle, MaxDays midnights and MaxFaults failures of the reset or   *)
(* ends of the server.                                                     *)
(***************************************************************************)
EXTENDS Naturals, Sequences, FiniteSets

CONSTANTS Users,         \* open ids, those of the robots among them
          Logins, Sharers, Settlers,   \* goroutines that serve requests
          Reset,         \* the goroutine of scheduleDailyReset
          Conns,         \* the pool: max_open connections
          Idle, Free, NoUser, None,
          StartCredits,  \* what the row of a user is created with
          InitialCredits, ShareBonus,
          MaxRequests, MaxRows, MaxDays, MaxFaults

Actors == Logins \cup Sharers \cup Settlers \cup {Reset}

\* A connection is held for a transaction or an open result, or for one more statement.
Holders == Actors \X {"main", "extra"}

ASSUME AccountsAssumption ==
    /\ Logins \cap Sharers = {} /\ Logins \cap Settlers = {} /\ Sharers \cap Settlers = {}
    /\ Reset \notin Logins \cup Sharers \cup Settlers
    /\ IsFiniteSet(Conns) /\ IsFiniteSet(Settlers)
    /\ Idle \notin Holders /\ Free \notin Actors /\ NoUser \notin Users /\ None \notin Nat
    /\ StartCredits \in [Users -> Nat] /\ InitialCredits \in Nat /\ ShareBonus \in Nat
    /\ MaxRequests \in Nat /\ MaxRows \in Nat /\ MaxDays \in Nat /\ MaxFaults \in Nat

VARIABLES users,      \* the open ids that have a row
          credits,    \* column credits
          ledger,     \* credit_logs: balance_after, since the row was last reset
          base,       \* history: the credits the row was created with or last reset to
          since,      \* history: the day the row was created
          rowLock, conn,
          pc,
          of,         \* per actor: the user its request, or the row at hand, is about
          bal,        \* Add: the balance it has read
          left,       \* SettleAllForMatch: the rows still to come
          todo,       \* the reset: the rows it has still to lock
          today, next,   \* the day, and the day the reset sleeps for
          lastReset,  \* history: the day the last reset was planned for
          requests,
          faults      \* failed resets and ends of the server

rowVars   == <<users, credits, ledger, base, since>>
dayVars   == <<today, next, lastReset>>
boundVars == <<requests, faults>>
acctVars  == <<rowVars, rowLock, conn, pc, of, bal, left, todo, dayVars, boundVars>>

AccountsInit ==
    /\ users = {}
    /\ credits = [u \in Users |-> 0]
    /\ ledger = [u \in Users |-> <<>>]
    /\ base = [u \in Users |-> 0]
    /\ since = [u \in Users |-> 0]
    /\ rowLock = [u \in Users |-> Free]
    /\ conn = [c \in Conns |-> Idle]
    /\ pc = [a \in Actors |-> "idle"]
    /\ of = [a \in Actors |-> NoUser]
    /\ bal = [a \in Actors |-> 0]
    /\ left = [a \in Actors |-> 0]
    /\ todo = {}
    /\ today = 0 /\ next = 0 /\ lastReset = 0
    /\ requests = 0 /\ faults = 0

HasIdle == \E c \in Conns : conn[c] = Idle

Take(a, use) == \E c \in Conns : conn[c] = Idle /\ conn' = [conn EXCEPT ![c] = <<a, use>>]

GiveExtra(a) == conn' = [c \in Conns |-> IF conn[c] = <<a, "extra">> THEN Idle ELSE conn[c]]

GiveAll(a) ==
    conn' = [c \in Conns |-> IF conn[c] \in {<<a, "main">>, <<a, "extra">>} THEN Idle ELSE conn[c]]

Unlock(a) == rowLock' = [u \in Users |-> IF rowLock[u] = a THEN Free ELSE rowLock[u]]

Goto(a, l) == pc' = [pc EXCEPT ![a] = l]

\* The request is answered, and its locals are gone.
Return(a) ==
    /\ pc' = [pc EXCEPT ![a] = "idle"]
    /\ of' = [of EXCEPT ![a] = NoUser]
    /\ bal' = [bal EXCEPT ![a] = 0]
    /\ left' = [left EXCEPT ![a] = 0]

Request == requests < MaxRequests /\ requests' = requests + 1

Fault == faults < MaxFaults /\ faults' = faults + 1

-----------------------------------------------------------------------------
(* Login, LoginByOfficial, DevLogin, and ensureRobotUser alike             *)

LoginStart(a, u) ==
    /\ Request
    /\ pc[a] = "idle"
    /\ of' = [of EXCEPT ![a] = u]
    /\ Goto(a, "get")
    /\ UNCHANGED <<rowVars, rowLock, conn, bal, left, todo, dayVars, faults>>

GetUserByOpenID(a) ==
    /\ pc[a] = "get"
    /\ HasIdle
    /\ IF of[a] \in users THEN Return(a) ELSE Goto(a, "create") /\ UNCHANGED <<of, bal, left>>
    /\ UNCHANGED <<rowVars, rowLock, conn, todo, dayVars, boundVars>>

\* The row of user u as it is created.
Created(u) ==
    /\ users' = users \cup {u}
    /\ credits' = [credits EXCEPT ![u] = StartCredits[u]]
    /\ base' = [base EXCEPT ![u] = StartCredits[u]]
    /\ since' = [since EXCEPT ![u] = today]

\* An open id is unique: the insert of a second row fails, and the login with it.
CreateUser(a) ==
    /\ pc[a] = "create"
    /\ HasIdle
    /\ IF of[a] \in users THEN UNCHANGED <<users, credits, base, since>> ELSE Created(of[a])
    /\ Return(a)
    /\ UNCHANGED <<ledger, rowLock, conn, todo, dayVars, boundVars>>

LoginStep(a) == GetUserByOpenID(a) \/ CreateUser(a)

-----------------------------------------------------------------------------
(* ShareSuccess, Manager.Add                                               *)

ShareStart(a, u) ==
    /\ Request
    /\ pc[a] = "idle"
    /\ u \in users
    /\ of' = [of EXCEPT ![a] = u]
    /\ Goto(a, "begin")
    /\ UNCHANGED <<rowVars, rowLock, conn, bal, left, todo, dayVars, faults>>

Begin(a) ==
    /\ pc[a] = "begin"
    /\ Take(a, "main")
    /\ Goto(a, "select")
    /\ UNCHANGED <<rowVars, rowLock, of, bal, left, todo, dayVars, boundVars>>

\* Mutant: the balance is read without FOR UPDATE, and the row locked by the update.
SelectBalance_NoLock(a) ==
    /\ pc[a] = "select"
    /\ bal' = [bal EXCEPT ![a] = credits[of[a]]]
    /\ Goto(a, "update")
    /\ UNCHANGED <<rowVars, rowLock, conn, of, left, todo, dayVars, boundVars>>

\* SELECT ... FOR UPDATE waits for the row and reads what was committed last.
SelectBalance(a) ==
    /\ pc[a] = "select"
    /\ rowLock[of[a]] = Free
    /\ rowLock' = [rowLock EXCEPT ![of[a]] = a]
    /\ bal' = [bal EXCEPT ![a] = credits[of[a]]]
    /\ Goto(a, "update")
    /\ UNCHANGED <<rowVars, conn, of, left, todo, dayVars, boundVars>>

\* Mutant: the update is sent to the pool instead of the transaction.
UpdateCredits_OutsideTx(a) ==
    /\ pc[a] = "update"
    /\ HasIdle
    /\ rowLock[of[a]] = Free
    /\ Goto(a, "commit")
    /\ UNCHANGED <<rowVars, rowLock, conn, of, bal, left, todo, dayVars, boundVars>>

\* The update and the log row, which nobody else sees before they are committed.
UpdateCredits(a) ==
    /\ pc[a] = "update"
    /\ Goto(a, "commit")
    /\ UNCHANGED <<rowVars, rowLock, conn, of, bal, left, todo, dayVars, boundVars>>

Commit(a) ==
    /\ pc[a] = "commit"
    /\ credits' = [credits EXCEPT ![of[a]] = bal[a] + ShareBonus]
    /\ ledger' = [ledger EXCEPT ![of[a]] = Append(@, bal[a] + ShareBonus)]
    /\ Unlock(a) /\ GiveAll(a)
    /\ Return(a)
    /\ UNCHANGED <<users, base, since, todo, dayVars, boundVars>>

\* Mutant: no deferred rollback.
ShareFails_NoRollback(a) ==
    /\ pc[a] \in {"select", "update", "commit"}
    /\ Return(a)
    /\ UNCHANGED <<rowVars, rowLock, conn, todo, dayVars, boundVars>>

\* A statement or the commit fails; the transaction is rolled back.
ShareFails(a) ==
    /\ pc[a] \in {"select", "update", "commit"}
    /\ Unlock(a) /\ GiveAll(a)
    /\ Return(a)
    /\ UNCHANGED <<rowVars, todo, dayVars, boundVars>>

ShareStep(a) ==
    Begin(a) \/ SelectBalance(a) \/ UpdateCredits(a) \/ Commit(a)

-----------------------------------------------------------------------------
(* SettleMatch, SettleAllForMatch                                          *)

SettleStart(a) ==
    /\ Request
    /\ pc[a] = "idle"
    /\ Goto(a, "query")
    /\ UNCHANGED <<rowVars, rowLock, conn, of, bal, left, todo, dayVars, faults>>

\* The result is read; without a valid one the call ends here.
GetMatchResult(a) ==
    /\ pc[a] = "query"
    /\ HasIdle
    /\ Goto(a, "pending") \/ Goto(a, "idle")
    /\ UNCHANGED <<rowVars, rowLock, conn, of, bal, left, todo, dayVars, boundVars>>

QueryPending(a) ==
    /\ pc[a] = "pending"
    /\ Take(a, "main")
    /\ \E n \in 0 .. MaxRows :
          /\ n = 0 \/ users # {}
          /\ left' = [left EXCEPT ![a] = n]
    /\ Goto(a, "rows")
    /\ UNCHANGED <<rowVars, rowLock, of, bal, todo, dayVars, boundVars>>

\* Mutant: one row too many.
NextRow_PastEnd(a, u) ==
    /\ pc[a] = "rows"
    /\ u \in users
    /\ left' = [left EXCEPT ![a] = @ - 1]
    /\ of' = [of EXCEPT ![a] = u]
    /\ Goto(a, "mark")
    /\ UNCHANGED <<rowVars, rowLock, conn, bal, todo, dayVars, boundVars>>

NextRow(a, u) ==
    /\ pc[a] = "rows"
    /\ left[a] > 0
    /\ u \in users
    /\ left' = [left EXCEPT ![a] = @ - 1]
    /\ of' = [of EXCEPT ![a] = u]
    /\ Goto(a, "mark")
    /\ UNCHANGED <<rowVars, rowLock, conn, bal, todo, dayVars, boundVars>>

\* The row is marked over a second connection: won, or else nothing more to do.
MarkRow(a) ==
    /\ pc[a] = "mark"
    /\ HasIdle
    /\ Goto(a, "credit") \/ Goto(a, "rows")
    /\ UNCHANGED <<rowVars, rowLock, conn, of, bal, left, todo, dayVars, boundVars>>

CreditStart(a) ==
    /\ pc[a] = "credit"
    /\ Take(a, "extra")
    /\ Goto(a, "wins")
    /\ UNCHANGED <<rowVars, rowLock, of, bal, left, todo, dayVars, boundVars>>

\* wins = wins + 1 waits for the row of the user.
IncrementWins(a) ==
    /\ pc[a] = "wins"
    /\ rowLock[of[a]] = Free
    /\ GiveExtra(a)
    /\ Goto(a, "rows")
    /\ UNCHANGED <<rowVars, rowLock, of, bal, left, todo, dayVars, boundVars>>

\* The last row gives the connection back.
RowsEnd(a) ==
    /\ pc[a] = "rows"
    /\ left[a] = 0
    /\ GiveAll(a)
    /\ Goto(a, "grade")
    /\ UNCHANGED <<rowVars, rowLock, of, bal, left, todo, dayVars, boundVars>>

GradePicks(a) ==
    /\ pc[a] = "grade"
    /\ HasIdle
    /\ Return(a)
    /\ UNCHANGED <<rowVars, rowLock, conn, todo, dayVars, boundVars>>

\* The increment fails: the call ends, and its open rows are closed.
SettleFails(a) ==
    /\ pc[a] = "wins"
    /\ GiveAll(a)
    /\ Return(a)
    /\ UNCHANGED <<rowVars, rowLock, todo, dayVars, boundVars>>

SettleStep(a) ==
    \/ GetMatchResult(a)
    \/ QueryPending(a)
    \/ \E u \in Users : NextRow(a, u)
    \/ MarkRow(a)
    \/ CreditStart(a)
    \/ IncrementWins(a)
    \/ RowsEnd(a)
    \/ GradePicks(a)

-----------------------------------------------------------------------------
(* scheduleDailyReset, ResetAllCredits                                     *)

PlanReset ==
    /\ pc[Reset] = "idle"
    /\ next' = today + 1
    /\ Goto(Reset, "sleep")
    /\ UNCHANGED <<rowVars, rowLock, conn, of, bal, left, todo, today, lastReset, boundVars>>

\* Mutant: it sleeps a day too long.
WakeUp_Late ==
    /\ pc[Reset] = "sleep"
    /\ today > next
    /\ Goto(Reset, "awake")
    /\ UNCHANGED <<rowVars, rowLock, conn, of, bal, left, todo, dayVars, boundVars>>

\* The sleep is worked out once, and lasts until the planned midnight or longer: the
\* wall clock is assumed not to be set while it runs.
WakeUp ==
    /\ pc[Reset] = "sleep"
    /\ today >= next
    /\ Goto(Reset, "awake")
    /\ UNCHANGED <<rowVars, rowLock, conn, of, bal, left, todo, dayVars, boundVars>>

\* UPDATE users: the rows there are when it starts, each locked in turn.
ResetStart ==
    /\ pc[Reset] = "awake"
    /\ Take(Reset, "main")
    /\ todo' = users
    /\ Goto(Reset, "reset")
    /\ UNCHANGED <<rowVars, rowLock, of, bal, left, dayVars, boundVars>>

\* Mutant: a row that is locked is left out (SKIP LOCKED).
ResetRow_SkipLocked(u) ==
    /\ pc[Reset] = "reset"
    /\ u \in todo
    /\ rowLock' = IF rowLock[u] = Free THEN [rowLock EXCEPT ![u] = Reset] ELSE rowLock
    /\ todo' = todo \ {u}
    /\ UNCHANGED <<rowVars, conn, pc, of, bal, left, dayVars, boundVars>>

ResetRow(u) ==
    /\ pc[Reset] = "reset"
    /\ u \in todo
    /\ rowLock[u] = Free
    /\ rowLock' = [rowLock EXCEPT ![u] = Reset]
    /\ todo' = todo \ {u}
    /\ UNCHANGED <<rowVars, conn, pc, of, bal, left, dayVars, boundVars>>

ResetDone ==
    LET reset == {u \in Users : rowLock[u] = Reset} IN
    /\ pc[Reset] = "reset"
    /\ todo = {}
    /\ credits' = [u \in Users |-> IF u \in reset THEN InitialCredits ELSE credits[u]]
    /\ base' = [u \in Users |-> IF u \in reset THEN InitialCredits ELSE base[u]]
    /\ ledger' = [u \in Users |-> IF u \in reset THEN <<>> ELSE ledger[u]]
    /\ lastReset' = next
    /\ Unlock(Reset) /\ GiveAll(Reset)
    /\ Goto(Reset, "idle")
    /\ UNCHANGED <<users, since, of, bal, left, todo, today, next, boundVars>>

\* The statement fails: the error is logged, and the next midnight planned.
ResetFails ==
    /\ Fault
    /\ pc[Reset] \in {"awake", "reset"}
    /\ Unlock(Reset) /\ GiveAll(Reset)
    /\ todo' = {}
    /\ Goto(Reset, "idle")
    /\ UNCHANGED <<rowVars, of, bal, left, dayVars, requests>>

ResetStep ==
    PlanReset \/ WakeUp \/ ResetStart \/ (\E u \in Users : ResetRow(u)) \/ ResetDone

-----------------------------------------------------------------------------

Midnight ==
    /\ today < MaxDays
    /\ today' = today + 1
    /\ UNCHANGED <<rowVars, rowLock, conn, pc, of, bal, left, todo, next, lastReset, boundVars>>

\* The server ends and is started again: what was not committed is rolled back.
ServerDies ==
    /\ Fault
    /\ rowLock' = [u \in Users |-> Free]
    /\ conn' = [c \in Conns |-> Idle]
    /\ pc' = [a \in Actors |-> "idle"]
    /\ of' = [a \in Actors |-> NoUser]
    /\ bal' = [a \in Actors |-> 0]
    /\ left' = [a \in Actors |-> 0]
    /\ todo' = {}
    /\ UNCHANGED <<rowVars, dayVars, requests>>

AccountsNext ==
    \/ \E a \in Logins : LoginStep(a) \/ \E u \in Users : LoginStart(a, u)
    \/ \E a \in Sharers : ShareStep(a) \/ ShareFails(a) \/ \E u \in Users : ShareStart(a, u)
    \/ \E a \in Settlers : SettleStart(a) \/ SettleStep(a) \/ SettleFails(a)
    \/ ResetStep
    \/ ResetFails
    \/ Midnight
    \/ ServerDies

AccountsSpec == AccountsInit /\ [][AccountsNext]_acctVars

\* A request whose next statement can run runs it; failures are not relied on.
FairAccountsSpec ==
    /\ AccountsSpec
    /\ \A a \in Logins : WF_acctVars(LoginStep(a))
    /\ \A a \in Sharers : WF_acctVars(ShareStep(a))
    /\ \A a \in Settlers : WF_acctVars(SettleStep(a))
    /\ WF_acctVars(ResetStep)

-----------------------------------------------------------------------------
(* Properties                                                              *)

AccountsTypeOK ==
    /\ users \subseteq Users
    /\ credits \in [Users -> Nat] /\ base \in [Users -> Nat] /\ since \in [Users -> Nat]
    /\ ledger \in [Users -> Seq(Nat)]
    /\ rowLock \in [Users -> Actors \cup {Free}]
    /\ conn \in [Conns -> Holders \cup {Idle}]
    /\ pc \in [Actors -> {"idle", "get", "create", "begin", "select", "update", "commit",
                          "query", "pending", "rows", "mark", "credit", "wins", "grade",
                          "sleep", "awake", "reset"}]
    /\ of \in [Actors -> Users \cup {NoUser}]
    /\ bal \in [Actors -> Nat] /\ left \in [Actors -> Nat]
    /\ todo \subseteq users
    /\ today \in Nat /\ next \in Nat /\ lastReset \in Nat
    /\ requests \in Nat /\ faults \in Nat

\* "Every share adds credits" (openapi.yaml:505): since the row was created or reset,
\* each committed share has added its bonus to the balance the one before it left,
\* and the row has the balance of the last: no share, reset, login or rollback in
\* between takes one away or lets it count on an old balance.
LedgerExact ==
    \A u \in Users :
        /\ \A i \in 1 .. Len(ledger[u]) : ledger[u][i] = base[u] + i * ShareBonus
        /\ credits[u] = base[u] + Len(ledger[u]) * ShareBonus

\* "Extra credits are good for the day" (openapi.yaml:510): the credits of all rows
\* follow the interface, in which no share is lost, and a day has one reset at most,
\* that leaves out nobody who had a row when the day began, whatever shares and
\* logins run beside it and however often it fails or the server is started again.
Credits ==
    INSTANCE Purse WITH
        purse     <- [u \in Users |-> IF u \in users THEN credits[u] ELSE None],
        since     <- since,
        day       <- today,
        lastReset <- lastReset

ImplementsPurse == Credits!PurseSpec

Busy == {a \in Actors : pc[a] \notin {"idle", "sleep"}}

\* Whether the next statement of a finds what it waits for.
CanGo(a) ==
    CASE pc[a] \in {"select", "wins"} -> rowLock[of[a]] = Free
      [] pc[a] \in {"update", "commit", "rows"} -> TRUE
      [] pc[a] = "reset" -> todo = {} \/ \E u \in todo : rowLock[u] = Free
      [] OTHER -> HasIdle

\* As long as there are fewer settle requests than connections, requests never wait
\* on each other in a ring, whether for a connection or for a row: one of them can
\* go on.  (A settle request holds one connection while it waits for another.)
NoStall ==
    Cardinality(Settlers) < Cardinality(Conns) /\ Busy # {} => \E a \in Busy : CanGo(a)

\* The reset of a day that has begun comes, behind every request that holds a row or a
\* connection, unless it fails or the server ends first: then the day has none.
DueResetComes ==
    \A n \in 0 .. MaxFaults :
        (pc[Reset] = "sleep" /\ today >= next /\ faults = n) ~> (lastReset = next \/ faults > n)

\* Every request comes to an end.
EveryoneReturns ==
    \A a \in Logins \cup Sharers \cup Settlers : pc[a] # "idle" ~> pc[a] = "idle"
=============================================================================
