--------------------------- MODULE AccountsProofs ---------------------------
(***************************************************************************)
(* Proofs about Accounts, for any number of users, requests, connections,  *)
(* failures and ends of the server: balances are exact, requests never     *)
(* wait on each other in a ring, and a day has one reset at most.          *)
(***************************************************************************)
EXTENDS Accounts, FiniteSetTheorems, TLAPS

\* Which statements each kind of actor runs, and about whom.
RolesOK ==
    /\ \A a \in Logins :
          /\ pc[a] \in {"idle", "get", "create"}
          /\ pc[a] # "idle" => of[a] \in Users
    /\ \A a \in Sharers :
          /\ pc[a] \in {"idle", "begin", "select", "update", "commit"}
          /\ pc[a] # "idle" => of[a] \in users
    /\ \A a \in Settlers :
          /\ pc[a] \in {"idle", "query", "pending", "rows", "mark", "credit", "wins", "grade"}
          /\ pc[a] \in {"mark", "credit", "wins"} => of[a] \in Users
    /\ pc[Reset] \in {"idle", "sleep", "awake", "reset"}

\* A row is locked by a share that has read it, or by the reset that is past it.
LocksOK ==
    /\ \A u \in Users : rowLock[u] # Free =>
          \/ rowLock[u] \in Sharers /\ pc[rowLock[u]] \in {"update", "commit"}
                                   /\ of[rowLock[u]] = u
          \/ rowLock[u] = Reset /\ pc[Reset] = "reset" /\ u \in users \ todo
    /\ \A a \in Sharers : pc[a] \in {"update", "commit"} => rowLock[of[a]] = a

\* The balance a share has read is still that of the row.
BalancesOK ==
    /\ \A a \in Sharers : pc[a] \in {"update", "commit"} => bal[a] = credits[of[a]]
    /\ \A u \in Users \ users : ledger[u] = <<>> /\ credits[u] = 0
    /\ LedgerExact

\* Each use of a connection has one connection at most ...
OneEach == \A c, d \in Conns : conn[c] = conn[d] => c = d \/ conn[c] = Idle

\* ... and goes with a statement.
UseOK(c, a) ==
    /\ conn[c] = <<a, "extra">> => a \in Settlers /\ pc[a] = "wins"
    /\ conn[c] = <<a, "main">> =>
          \/ a \in Sharers /\ pc[a] \in {"select", "update", "commit"}
          \/ a \in Settlers /\ pc[a] \in {"rows", "mark", "credit", "wins"}
          \/ a = Reset /\ pc[a] = "reset"

ConnsOK == OneEach /\ \A c \in Conns, a \in Actors : UseOK(c, a)

\* The reset sleeps for a day after the last one it did.
DaysOK ==
    /\ lastReset <= today
    /\ pc[Reset] # "idle" => lastReset < next
    /\ pc[Reset] \in {"awake", "reset"} => next <= today

RowInv == AccountsTypeOK /\ RolesOK

AccountsInv == RowInv /\ LocksOK /\ BalancesOK /\ ConnsOK /\ DaysOK

-----------------------------------------------------------------------------

\* Types and roles.
LEMMA RowStepOK ==
    ASSUME RowInv, [AccountsNext]_acctVars
    PROVE  RowInv'
<1> USE AccountsAssumption
<1> USE DEF RowInv, AccountsTypeOK, RolesOK, Actors, Holders, rowVars, dayVars, boundVars
<1>1. ASSUME NEW a \in Logins, NEW u \in Users, LoginStart(a, u) PROVE RowInv'
  BY <1>1 DEF LoginStart, Request, Goto
<1>2. ASSUME NEW a \in Logins, GetUserByOpenID(a) PROVE RowInv'
  <2>1. CASE of[a] \in users
    <3>1. a \in Actors /\ pc' = [pc EXCEPT ![a] = "idle"] /\ of' = [of EXCEPT ![a] = NoUser]
          /\ bal' = [bal EXCEPT ![a] = 0] /\ left' = [left EXCEPT ![a] = 0]
          /\ UNCHANGED <<rowVars, rowLock, conn, todo, dayVars, boundVars>>
      BY <1>2, <2>1 DEF GetUserByOpenID, Return
    <3>2. QED
      BY <3>1
  <2>2. CASE of[a] \notin users
    BY <1>2, <2>2, ZenonT(30) DEF GetUserByOpenID, Goto
  <2>3. QED
    BY <2>1, <2>2
<1>3. ASSUME NEW a \in Logins, CreateUser(a) PROVE RowInv'
  <2>1. CASE of[a] \in users
    BY <1>3, <2>1 DEF CreateUser, Goto, Return
  <2>2. CASE of[a] \notin users
    <3>1. of[a] \in Users /\ StartCredits[of[a]] \in Nat
      BY <1>3 DEF CreateUser
    <3>2. /\ users' = users \cup {of[a]}
          /\ credits' = [credits EXCEPT ![of[a]] = StartCredits[of[a]]]
          /\ base' = [base EXCEPT ![of[a]] = StartCredits[of[a]]]
          /\ since' = [since EXCEPT ![of[a]] = today]
          /\ pc' = [pc EXCEPT ![a] = "idle"]
          /\ of' = [of EXCEPT ![a] = NoUser]
          /\ bal' = [bal EXCEPT ![a] = 0]
          /\ left' = [left EXCEPT ![a] = 0]
          /\ UNCHANGED <<ledger, rowLock, conn, todo, dayVars, boundVars>>
      BY <1>3, <2>2 DEF CreateUser, Created, Return
    <3>3. QED
      BY <1>3, <2>2, <3>1, <3>2
  <2>3. QED
    BY <2>1, <2>2
<1>4. ASSUME NEW a \in Sharers, NEW u \in Users, ShareStart(a, u) PROVE RowInv'
  BY <1>4 DEF ShareStart, Request, Goto
<1>5. ASSUME NEW a \in Sharers, Begin(a) PROVE RowInv'
  BY <1>5 DEF Begin, Take, Goto
<1>6. ASSUME NEW a \in Sharers, SelectBalance(a) PROVE RowInv'
  BY <1>6 DEF SelectBalance, Goto
<1>7. ASSUME NEW a \in Sharers, UpdateCredits(a) PROVE RowInv'
  BY <1>7 DEF UpdateCredits, Goto
<1>8. ASSUME NEW a \in Sharers, Commit(a) PROVE RowInv'
  <2>1. of[a] \in users /\ bal[a] + ShareBonus \in Nat
    BY <1>8 DEF Commit
  <2>2. /\ credits' \in [Users -> Nat] /\ rowLock' \in [Users -> Actors \cup {Free}]
        /\ ledger' \in [Users -> Seq(Nat)]
    BY <1>8, <2>1 DEF Commit, Unlock
  <2>3. conn' \in [Conns -> Holders \cup {Idle}]
    BY <1>8 DEF Commit, GiveAll
  <2>4. QED
    BY <1>8, <2>2, <2>3 DEF Commit, Return
<1>9. ASSUME NEW a \in Sharers, ShareFails(a) PROVE RowInv'
  BY <1>9 DEF ShareFails, Unlock, GiveAll, Goto, Return
<1>10. ASSUME NEW a \in Settlers, SettleStart(a) PROVE RowInv'
  BY <1>10 DEF SettleStart, Request, Goto
<1>11. ASSUME NEW a \in Settlers, GetMatchResult(a) PROVE RowInv'
  BY <1>11, ZenonT(30) DEF GetMatchResult, Goto
<1>12. ASSUME NEW a \in Settlers, QueryPending(a) PROVE RowInv'
  BY <1>12, SMTT(20) DEF QueryPending, Take, Goto
<1>13. ASSUME NEW a \in Settlers, NEW u \in Users, NextRow(a, u) PROVE RowInv'
  BY <1>13, SMTT(20) DEF NextRow, Goto
<1>14. ASSUME NEW a \in Settlers, MarkRow(a) PROVE RowInv'
  BY <1>14 DEF MarkRow, Goto
<1>15. ASSUME NEW a \in Settlers, CreditStart(a) PROVE RowInv'
  BY <1>15 DEF CreditStart, Take, Goto
<1>16. ASSUME NEW a \in Settlers, IncrementWins(a) PROVE RowInv'
  BY <1>16 DEF IncrementWins, GiveExtra, Goto
<1>17. ASSUME NEW a \in Settlers, RowsEnd(a) PROVE RowInv'
  BY <1>17 DEF RowsEnd, GiveAll, Goto
<1>18. ASSUME NEW a \in Settlers, GradePicks(a) PROVE RowInv'
  BY <1>18 DEF GradePicks, Goto, Return
<1>19. ASSUME NEW a \in Settlers, SettleFails(a) PROVE RowInv'
  BY <1>19 DEF SettleFails, GiveAll, Goto, Return
<1>20. ASSUME PlanReset PROVE RowInv'
  BY <1>20 DEF PlanReset, Goto
<1>21. ASSUME WakeUp PROVE RowInv'
  BY <1>21 DEF WakeUp, Goto
<1>22. ASSUME ResetStart PROVE RowInv'
  BY <1>22 DEF ResetStart, Take, Goto
<1>23. ASSUME NEW u \in Users, ResetRow(u) PROVE RowInv'
  BY <1>23 DEF ResetRow
<1>24. ASSUME ResetDone PROVE RowInv'
  BY <1>24 DEF ResetDone, Unlock, GiveAll, Goto
<1>25. ASSUME ResetFails PROVE RowInv'
  BY <1>25 DEF ResetFails, Fault, Unlock, GiveAll, Goto
<1>26. ASSUME Midnight PROVE RowInv'
  BY <1>26 DEF Midnight
<1>27. ASSUME ServerDies PROVE RowInv'
  BY <1>27 DEF ServerDies, Fault
<1>28. CASE UNCHANGED acctVars
  BY <1>28 DEF acctVars
<1>29. QED
  BY <1>1, <1>2, <1>3, <1>4, <1>5, <1>6, <1>7, <1>8, <1>9, <1>10, <1>11, <1>12, <1>13, <1>14,
        <1>15, <1>16, <1>17, <1>18, <1>19, <1>20, <1>21, <1>22, <1>23, <1>24, <1>25, <1>26,
        <1>27, <1>28
  DEF AccountsNext, LoginStep, ShareStep, SettleStep, ResetStep

\* Locks.
LEMMA LocksStep ==
    ASSUME RowInv, LocksOK, [AccountsNext]_acctVars
    PROVE  LocksOK'
<1> USE AccountsAssumption
<1> USE DEF RowInv, AccountsTypeOK, RolesOK, LocksOK, Actors, rowVars, dayVars, boundVars
<1>1. ASSUME NEW a \in Logins, NEW u \in Users, LoginStart(a, u) PROVE LocksOK'
  BY <1>1 DEF LoginStart, Request, Goto
<1>2. ASSUME NEW a \in Logins, GetUserByOpenID(a) PROVE LocksOK'
  <2>1. CASE of[a] \in users
    <3>1. a \in Actors /\ pc' = [pc EXCEPT ![a] = "idle"] /\ of' = [of EXCEPT ![a] = NoUser]
          /\ bal' = [bal EXCEPT ![a] = 0] /\ left' = [left EXCEPT ![a] = 0]
          /\ UNCHANGED <<rowVars, rowLock, conn, todo, dayVars, boundVars>>
      BY <1>2, <2>1 DEF GetUserByOpenID, Return
    <3>2. QED
      BY <3>1
  <2>2. CASE of[a] \notin users
    <3>1. a \in Actors /\ pc' = [pc EXCEPT ![a] = "create"]
          /\ UNCHANGED <<of, users, rowLock, todo>>
      BY <1>2, <2>2 DEF GetUserByOpenID, Goto
    <3>2. QED
      BY <3>1
  <2>3. QED
    BY <2>1, <2>2
<1>3. ASSUME NEW a \in Logins, CreateUser(a) PROVE LocksOK'
  BY <1>3 DEF CreateUser, Created, Goto, Return
<1>4. ASSUME NEW a \in Sharers, NEW u \in Users, ShareStart(a, u) PROVE LocksOK'
  BY <1>4 DEF ShareStart, Request, Goto
<1>5. ASSUME NEW a \in Sharers, Begin(a) PROVE LocksOK'
  BY <1>5 DEF Begin, Take, Goto
<1>6. ASSUME NEW a \in Sharers, SelectBalance(a) PROVE LocksOK'
  BY <1>6 DEF SelectBalance, Goto
<1>7. ASSUME NEW a \in Sharers, UpdateCredits(a) PROVE LocksOK'
  BY <1>7 DEF UpdateCredits, Goto
<1>8. ASSUME NEW a \in Sharers, Commit(a) PROVE LocksOK'
  BY <1>8 DEF Commit, Unlock, GiveAll, Goto, Return
<1>9. ASSUME NEW a \in Sharers, ShareFails(a) PROVE LocksOK'
  BY <1>9 DEF ShareFails, Unlock, GiveAll, Goto, Return
<1>10. ASSUME NEW a \in Settlers, SettleStart(a) PROVE LocksOK'
  BY <1>10 DEF SettleStart, Request, Goto
<1>11. ASSUME NEW a \in Settlers, GetMatchResult(a) PROVE LocksOK'
  <2>1. PICK l : pc' = [pc EXCEPT ![a] = l]
    BY <1>11 DEF GetMatchResult, Goto
  <2>2. \A b \in Sharers \cup {Reset} : pc'[b] = pc[b]
    BY <2>1
  <2>3. UNCHANGED <<rowLock, of, todo, users>>
    BY <1>11 DEF GetMatchResult
  <2>4. QED
    BY <2>2, <2>3
<1>12. ASSUME NEW a \in Settlers, QueryPending(a) PROVE LocksOK'
  BY <1>12 DEF QueryPending, Take, Goto
<1>13. ASSUME NEW a \in Settlers, NEW u \in Users, NextRow(a, u) PROVE LocksOK'
  BY <1>13 DEF NextRow, Goto
<1>14. ASSUME NEW a \in Settlers, MarkRow(a) PROVE LocksOK'
  <2>1. PICK l : pc' = [pc EXCEPT ![a] = l]
    BY <1>14 DEF MarkRow, Goto
  <2>2. \A b \in Sharers \cup {Reset} : pc'[b] = pc[b]
    BY <2>1
  <2>3. UNCHANGED <<rowLock, of, todo, users>>
    BY <1>14 DEF MarkRow
  <2>4. QED
    BY <2>2, <2>3
<1>15. ASSUME NEW a \in Settlers, CreditStart(a) PROVE LocksOK'
  BY <1>15 DEF CreditStart, Take, Goto
<1>16. ASSUME NEW a \in Settlers, IncrementWins(a) PROVE LocksOK'
  BY <1>16 DEF IncrementWins, GiveExtra, Goto
<1>17. ASSUME NEW a \in Settlers, RowsEnd(a) PROVE LocksOK'
  BY <1>17 DEF RowsEnd, GiveAll, Goto
<1>18. ASSUME NEW a \in Settlers, GradePicks(a) PROVE LocksOK'
  BY <1>18 DEF GradePicks, Goto, Return
<1>19. ASSUME NEW a \in Settlers, SettleFails(a) PROVE LocksOK'
  BY <1>19 DEF SettleFails, GiveAll, Goto, Return
<1>20. ASSUME PlanReset PROVE LocksOK'
  BY <1>20 DEF PlanReset, Goto
<1>21. ASSUME WakeUp PROVE LocksOK'
  BY <1>21 DEF WakeUp, Goto
<1>22. ASSUME ResetStart PROVE LocksOK'
  BY <1>22 DEF ResetStart, Take, Goto
<1>23. ASSUME NEW u \in Users, ResetRow(u) PROVE LocksOK'
  BY <1>23 DEF ResetRow
<1>24. ASSUME ResetDone PROVE LocksOK'
  BY <1>24 DEF ResetDone, Unlock, GiveAll, Goto
<1>25. ASSUME ResetFails PROVE LocksOK'
  BY <1>25 DEF ResetFails, Fault, Unlock, GiveAll, Goto
<1>26. ASSUME Midnight PROVE LocksOK'
  BY <1>26 DEF Midnight
<1>27. ASSUME ServerDies PROVE LocksOK'
  BY <1>27 DEF ServerDies, Fault
<1>28. CASE UNCHANGED acctVars
  BY <1>28 DEF acctVars
<1>29. QED
  BY <1>1, <1>2, <1>3, <1>4, <1>5, <1>6, <1>7, <1>8, <1>9, <1>10, <1>11, <1>12, <1>13, <1>14,
        <1>15, <1>16, <1>17, <1>18, <1>19, <1>20, <1>21, <1>22, <1>23, <1>24, <1>25, <1>26,
        <1>27, <1>28
  DEF AccountsNext, LoginStep, ShareStep, SettleStep, ResetStep

\* Balances: while a share has its row locked nobody else writes it.
LEMMA BalancesStep ==
    ASSUME RowInv, LocksOK, BalancesOK, [AccountsNext]_acctVars
    PROVE  BalancesOK'
<1> USE AccountsAssumption
<1> USE DEF RowInv, AccountsTypeOK, RolesOK, LocksOK, BalancesOK, LedgerExact, Actors,
        rowVars, dayVars, boundVars
<1>1. ASSUME NEW a \in Logins, NEW u \in Users, LoginStart(a, u) PROVE BalancesOK'
  BY <1>1 DEF LoginStart, Request, Goto
<1>2. ASSUME NEW a \in Logins, GetUserByOpenID(a) PROVE BalancesOK'
  <2>1. CASE of[a] \in users
    <3>1. a \in Actors /\ pc' = [pc EXCEPT ![a] = "idle"] /\ of' = [of EXCEPT ![a] = NoUser]
          /\ bal' = [bal EXCEPT ![a] = 0] /\ left' = [left EXCEPT ![a] = 0]
          /\ UNCHANGED <<rowVars, rowLock, conn, todo, dayVars, boundVars>>
      BY <1>2, <2>1 DEF GetUserByOpenID, Return
    <3>2. QED
      BY <3>1
  <2>2. CASE of[a] \notin users
    BY <1>2, <2>2 DEF GetUserByOpenID, Goto
  <2>3. QED
    BY <2>1, <2>2
<1>3. ASSUME NEW a \in Logins, CreateUser(a) PROVE BalancesOK'
  <2>1. CASE of[a] \in users
    BY <1>3, <2>1 DEF CreateUser, Goto, Return
  <2>2. CASE of[a] \notin users
    <3>1. of[a] \in Users /\ StartCredits[of[a]] \in Nat
      BY <1>3 DEF CreateUser
    <3>2. /\ users' = users \cup {of[a]}
          /\ credits' = [credits EXCEPT ![of[a]] = StartCredits[of[a]]]
          /\ base' = [base EXCEPT ![of[a]] = StartCredits[of[a]]]
          /\ since' = [since EXCEPT ![of[a]] = today]
          /\ pc' = [pc EXCEPT ![a] = "idle"]
          /\ of' = [of EXCEPT ![a] = NoUser]
          /\ bal' = [bal EXCEPT ![a] = 0]
          /\ left' = [left EXCEPT ![a] = 0]
          /\ UNCHANGED <<ledger, rowLock, conn, todo, dayVars, boundVars>>
      BY <1>3, <2>2 DEF CreateUser, Created, Return
    <3>3. ledger[of[a]] = <<>>
      BY <2>2, <3>1
    <3>4. LedgerExact'
      <4>1. SUFFICES ASSUME NEW u \in Users
                     PROVE  /\ \A i \in 1 .. Len(ledger[u]) : ledger[u][i] = base'[u] + i * ShareBonus
                            /\ credits'[u] = base'[u] + Len(ledger[u]) * ShareBonus
        BY <3>2
      <4>2. CASE u = of[a]
        <5>1. Len(ledger[u]) = 0 /\ 1 .. 0 = {} /\ 0 * ShareBonus = 0
          BY <3>3, <4>2
        <5>2. credits'[u] = StartCredits[u] /\ base'[u] = StartCredits[u]
          BY <3>1, <3>2, <4>2
        <5>3. QED
          BY <3>1, <4>2, <5>1, <5>2
      <4>3. CASE u # of[a]
        BY <3>2, <4>3
      <4>4. QED
        BY <4>2, <4>3
    <3>5. \A b \in Sharers : pc'[b] \in {"update", "commit"} => bal'[b] = credits'[of'[b]]
      BY <1>3, <2>2, <3>2
    <3>6. QED
      BY <3>2, <3>4, <3>5
  <2>3. QED
    BY <2>1, <2>2
<1>4. ASSUME NEW a \in Sharers, NEW u \in Users, ShareStart(a, u) PROVE BalancesOK'
  BY <1>4 DEF ShareStart, Request, Goto
<1>5. ASSUME NEW a \in Sharers, Begin(a) PROVE BalancesOK'
  BY <1>5 DEF Begin, Take, Goto
<1>6. ASSUME NEW a \in Sharers, SelectBalance(a) PROVE BalancesOK'
  BY <1>6, SMTT(20) DEF SelectBalance, Goto
<1>7. ASSUME NEW a \in Sharers, UpdateCredits(a) PROVE BalancesOK'
  BY <1>7 DEF UpdateCredits, Goto
<1>8. ASSUME NEW a \in Sharers, Commit(a) PROVE BalancesOK'
  <2>1. /\ of[a] \in users /\ rowLock[of[a]] = a /\ bal[a] = credits[of[a]]
        /\ \A i \in 1 .. Len(ledger[of[a]]) : ledger[of[a]][i] = base[of[a]] + i * ShareBonus
        /\ credits[of[a]] = base[of[a]] + Len(ledger[of[a]]) * ShareBonus
    BY <1>8 DEF Commit
  <2>2. \A b \in Sharers \ {a} : pc[b] \in {"update", "commit"} => of[b] # of[a]
    BY <2>1
  <2>3. \A b \in Sharers : pc'[b] \in {"update", "commit"} => bal'[b] = credits'[of'[b]]
    BY <1>8, <2>1, <2>2 DEF Commit, Goto, Return
  <2>4. DEFINE l == ledger[of[a]]
               n == bal[a] + ShareBonus
  <2>5. l \in Seq(Nat) /\ Len(l) \in Nat /\ n \in Nat
    BY <2>1
  <2>6. /\ Len(Append(l, n)) = Len(l) + 1
        /\ \A i \in 1 .. Len(l) : Append(l, n)[i] = l[i]
        /\ Append(l, n)[Len(l) + 1] = n
    BY <2>5
  <2>7. n = base[of[a]] + (Len(l) + 1) * ShareBonus
    BY <2>1, <2>5
  <2>8. \A i \in 1 .. Len(Append(l, n)) : Append(l, n)[i] = base[of[a]] + i * ShareBonus
    <3>1. \A i \in 1 .. Len(l) : Append(l, n)[i] = base[of[a]] + i * ShareBonus
      BY <2>1, <2>6
    <3>2. \A i \in 1 .. Len(l) + 1 : i \in 1 .. Len(l) \/ i = Len(l) + 1
      BY <2>5
    <3>3. QED
      BY <2>6, <2>7, <3>1, <3>2
  <2>9. /\ ledger' = [ledger EXCEPT ![of[a]] = Append(l, n)]
        /\ credits' = [credits EXCEPT ![of[a]] = n]
        /\ UNCHANGED <<base, users>>
    BY <1>8 DEF Commit
  <2>10. LedgerExact'
    <3>1. ASSUME NEW u \in Users
          PROVE  /\ \A i \in 1 .. Len(ledger'[u]) : ledger'[u][i] = base'[u] + i * ShareBonus
                 /\ credits'[u] = base'[u] + Len(ledger'[u]) * ShareBonus
      <4>1. CASE u = of[a]
        <5>1. ledger'[u] = Append(l, n) /\ credits'[u] = n /\ base'[u] = base[of[a]]
          BY <2>9, <4>1
        <5>2. QED
          BY <5>1, <2>6, <2>7, <2>8
      <4>2. CASE u # of[a]
        BY <2>9, <4>2
      <4>3. QED
        BY <4>1, <4>2
    <3>2. QED
      BY <3>1
  <2>11. \A u \in Users \ users' : ledger'[u] = <<>> /\ credits'[u] = 0
    BY <2>1, <2>9
  <2>12. QED
    BY <2>3, <2>10, <2>11
<1>9. ASSUME NEW a \in Sharers, ShareFails(a) PROVE BalancesOK'
  BY <1>9 DEF ShareFails, Unlock, GiveAll, Goto, Return
<1>10. ASSUME NEW a \in Settlers, SettleStart(a) PROVE BalancesOK'
  BY <1>10 DEF SettleStart, Request, Goto
<1>11. ASSUME NEW a \in Settlers, GetMatchResult(a) PROVE BalancesOK'
  BY <1>11 DEF GetMatchResult, Goto
<1>12. ASSUME NEW a \in Settlers, QueryPending(a) PROVE BalancesOK'
  BY <1>12 DEF QueryPending, Take, Goto
<1>13. ASSUME NEW a \in Settlers, NEW u \in Users, NextRow(a, u) PROVE BalancesOK'
  BY <1>13 DEF NextRow, Goto
<1>14. ASSUME NEW a \in Settlers, MarkRow(a) PROVE BalancesOK'
  BY <1>14 DEF MarkRow, Goto
<1>15. ASSUME NEW a \in Settlers, CreditStart(a) PROVE BalancesOK'
  BY <1>15 DEF CreditStart, Take, Goto
<1>16. ASSUME NEW a \in Settlers, IncrementWins(a) PROVE BalancesOK'
  BY <1>16 DEF IncrementWins, GiveExtra, Goto
<1>17. ASSUME NEW a \in Settlers, RowsEnd(a) PROVE BalancesOK'
  BY <1>17 DEF RowsEnd, GiveAll, Goto
<1>18. ASSUME NEW a \in Settlers, GradePicks(a) PROVE BalancesOK'
  BY <1>18 DEF GradePicks, Goto, Return
<1>19. ASSUME NEW a \in Settlers, SettleFails(a) PROVE BalancesOK'
  BY <1>19 DEF SettleFails, GiveAll, Goto, Return
<1>20. ASSUME PlanReset PROVE BalancesOK'
  BY <1>20 DEF PlanReset, Goto
<1>21. ASSUME WakeUp PROVE BalancesOK'
  BY <1>21 DEF WakeUp, Goto
<1>22. ASSUME ResetStart PROVE BalancesOK'
  BY <1>22 DEF ResetStart, Take, Goto
<1>23. ASSUME NEW u \in Users, ResetRow(u) PROVE BalancesOK'
  BY <1>23 DEF ResetRow
<1>24. ASSUME ResetDone PROVE BalancesOK'
  BY <1>24 DEF ResetDone, Unlock, GiveAll, Goto
<1>25. ASSUME ResetFails PROVE BalancesOK'
  BY <1>25 DEF ResetFails, Fault, Unlock, GiveAll, Goto
<1>26. ASSUME Midnight PROVE BalancesOK'
  BY <1>26 DEF Midnight
<1>27. ASSUME ServerDies PROVE BalancesOK'
  BY <1>27 DEF ServerDies, Fault
<1>28. CASE UNCHANGED acctVars
  BY <1>28 DEF acctVars
<1>29. QED
  BY <1>1, <1>2, <1>3, <1>4, <1>5, <1>6, <1>7, <1>8, <1>9, <1>10, <1>11, <1>12, <1>13, <1>14,
        <1>15, <1>16, <1>17, <1>18, <1>19, <1>20, <1>21, <1>22, <1>23, <1>24, <1>25, <1>26,
        <1>27, <1>28
  DEF AccountsNext, LoginStep, ShareStep, SettleStep, ResetStep

\* Taking a connection for a use that has none.
LEMMA TakeOK ==
    ASSUME conn \in [Conns -> Holders \cup {Idle}], OneEach,
           NEW a \in Actors, NEW use \in {"main", "extra"}, Take(a, use),
           \A c \in Conns : conn[c] # <<a, use>>
    PROVE  /\ OneEach'
           /\ \A c \in Conns, h \in Holders : conn'[c] = h => conn[c] = h \/ h = <<a, use>>
<1>1. PICK k \in Conns : conn[k] = Idle /\ conn' = [conn EXCEPT ![k] = <<a, use>>]
  BY DEF Take
<1>2. <<a, use>> \in Holders
  BY DEF Holders
<1>3. OneEach'
  BY <1>1, <1>2, AccountsAssumption DEF OneEach
<1>4. ASSUME NEW c \in Conns, NEW h \in Holders, conn'[c] = h
      PROVE  conn[c] = h \/ h = <<a, use>>
  BY <1>1, <1>4
<1>5. QED
  BY <1>3, <1>4

\* Giving back what an actor has, or its extra connection.
LEMMA GiveAllOK ==
    ASSUME conn \in [Conns -> Holders \cup {Idle}], OneEach, NEW a \in Actors, GiveAll(a)
    PROVE  /\ OneEach'
           /\ \A c \in Conns, h \in Holders :
                 conn'[c] = h => conn[c] = h /\ h \notin {<<a, "main">>, <<a, "extra">>}
BY AccountsAssumption DEF GiveAll, OneEach, Holders

LEMMA GiveExtraOK ==
    ASSUME conn \in [Conns -> Holders \cup {Idle}], OneEach, NEW a \in Actors, GiveExtra(a)
    PROVE  /\ OneEach'
           /\ \A c \in Conns, h \in Holders :
                 conn'[c] = h => conn[c] = h /\ h # <<a, "extra">>
BY AccountsAssumption DEF GiveExtra, OneEach, Holders

\* Connections.
LEMMA ConnsStep ==
    ASSUME RowInv, ConnsOK, [AccountsNext]_acctVars
    PROVE  ConnsOK'
<1> USE AccountsAssumption
<1> USE DEF RowInv, AccountsTypeOK, RolesOK, ConnsOK, Actors, rowVars, dayVars, boundVars
<1>1. ASSUME NEW a \in Logins, NEW u \in Users, LoginStart(a, u) PROVE ConnsOK'
  BY <1>1 DEF LoginStart, Request, Goto, OneEach, UseOK
<1>2. ASSUME NEW a \in Logins, GetUserByOpenID(a) PROVE ConnsOK'
  BY <1>2 DEF GetUserByOpenID, Goto, Return, OneEach, UseOK
<1>3. ASSUME NEW a \in Logins, CreateUser(a) PROVE ConnsOK'
  BY <1>3 DEF CreateUser, Created, Goto, Return, OneEach, UseOK
<1>4. ASSUME NEW a \in Sharers, NEW u \in Users, ShareStart(a, u) PROVE ConnsOK'
  BY <1>4 DEF ShareStart, Request, Goto, OneEach, UseOK
<1>5. ASSUME NEW a \in Sharers, Begin(a) PROVE ConnsOK'
  <2>1. \A c \in Conns : conn[c] # <<a, "main">>
    BY <1>5 DEF Begin, UseOK
  <2>2. Take(a, "main")
    BY <1>5 DEF Begin
  <2>3. a \in Actors
    BY DEF Actors
  <2>4. /\ OneEach'
        /\ \A c \in Conns, h \in Holders : conn'[c] = h => conn[c] = h \/ h = <<a, "main">>
    BY <2>1, <2>2, <2>3, TakeOK
  <2>5. ASSUME NEW c \in Conns, NEW b \in Actors PROVE UseOK(c, b)'
    <3>1. UseOK(c, b) /\ <<b, "main">> \in Holders /\ <<b, "extra">> \in Holders
      BY DEF Holders
    <3>2. CASE b = a
      BY <1>5, <2>1, <2>3, <2>4, <3>1, <3>2, ZenonT(30) DEF Begin, Goto, UseOK
    <3>3. CASE b # a
      <4>1. conn'[c] = <<b, "main">> => conn[c] = <<b, "main">>
        BY <2>4, <3>1, <3>3
      <4>2. conn'[c] = <<b, "extra">> => conn[c] = <<b, "extra">>
        BY <2>4, <3>1, <3>3
      <4>3. pc'[b] = pc[b]
        BY <1>5, <3>3 DEF Begin, Goto
      <4>4. QED
        BY <3>1, <4>1, <4>2, <4>3 DEF UseOK
    <3>4. QED
      BY <3>2, <3>3
  <2>6. QED
    BY <2>4, <2>5
<1>6. ASSUME NEW a \in Sharers, SelectBalance(a) PROVE ConnsOK'
  BY <1>6 DEF SelectBalance, Goto, OneEach, UseOK
<1>7. ASSUME NEW a \in Sharers, UpdateCredits(a) PROVE ConnsOK'
  BY <1>7 DEF UpdateCredits, Goto, OneEach, UseOK
<1>8. ASSUME NEW a \in Sharers, Commit(a) PROVE ConnsOK'
  <2>1. GiveAll(a)
    BY <1>8 DEF Commit
  <2>3. a \in Actors
    BY DEF Actors
  <2>4. /\ OneEach'
        /\ \A c \in Conns, h \in Holders :
              conn'[c] = h => conn[c] = h /\ h \notin {<<a, "main">>, <<a, "extra">>}
    BY <2>1, <2>3, GiveAllOK
  <2>5. ASSUME NEW c \in Conns, NEW b \in Actors PROVE UseOK(c, b)'
    <3>1. UseOK(c, b) /\ <<b, "main">> \in Holders /\ <<b, "extra">> \in Holders
      BY DEF Holders
    <3>2. QED
      BY <1>8, <2>4, <3>1 DEF Commit, Goto, Return, UseOK
  <2>6. QED
    BY <2>4, <2>5
<1>9. ASSUME NEW a \in Sharers, ShareFails(a) PROVE ConnsOK'
  <2>1. GiveAll(a)
    BY <1>9 DEF ShareFails
  <2>3. a \in Actors
    BY DEF Actors
  <2>4. /\ OneEach'
        /\ \A c \in Conns, h \in Holders :
              conn'[c] = h => conn[c] = h /\ h \notin {<<a, "main">>, <<a, "extra">>}
    BY <2>1, <2>3, GiveAllOK
  <2>5. ASSUME NEW c \in Conns, NEW b \in Actors PROVE UseOK(c, b)'
    <3>1. UseOK(c, b) /\ <<b, "main">> \in Holders /\ <<b, "extra">> \in Holders
      BY DEF Holders
    <3>2. QED
      BY <1>9, <2>4, <3>1 DEF ShareFails, Goto, Return, UseOK
  <2>6. QED
    BY <2>4, <2>5
<1>10. ASSUME NEW a \in Settlers, SettleStart(a) PROVE ConnsOK'
  BY <1>10 DEF SettleStart, Request, Goto, OneEach, UseOK
<1>11. ASSUME NEW a \in Settlers, GetMatchResult(a) PROVE ConnsOK'
  BY <1>11 DEF GetMatchResult, Goto, OneEach, UseOK
<1>12. ASSUME NEW a \in Settlers, QueryPending(a) PROVE ConnsOK'
  <2>1. \A c \in Conns : conn[c] # <<a, "main">>
    BY <1>12 DEF QueryPending, UseOK
  <2>2. Take(a, "main")
    BY <1>12 DEF QueryPending
  <2>3. a \in Actors
    BY DEF Actors
  <2>4. /\ OneEach'
        /\ \A c \in Conns, h \in Holders : conn'[c] = h => conn[c] = h \/ h = <<a, "main">>
    BY <2>1, <2>2, <2>3, TakeOK
  <2>5. ASSUME NEW c \in Conns, NEW b \in Actors PROVE UseOK(c, b)'
    <3>1. UseOK(c, b) /\ <<b, "main">> \in Holders /\ <<b, "extra">> \in Holders
      BY DEF Holders
    <3>2. CASE b = a
      BY <1>12, <2>1, <2>3, <2>4, <3>1, <3>2, ZenonT(30) DEF QueryPending, Goto, UseOK
    <3>3. CASE b # a
      <4>1. conn'[c] = <<b, "main">> => conn[c] = <<b, "main">>
        BY <2>4, <3>1, <3>3
      <4>2. conn'[c] = <<b, "extra">> => conn[c] = <<b, "extra">>
        BY <2>4, <3>1, <3>3
      <4>3. pc'[b] = pc[b]
        BY <1>12, <3>3 DEF QueryPending, Goto
      <4>4. QED
        BY <3>1, <4>1, <4>2, <4>3 DEF UseOK
    <3>4. QED
      BY <3>2, <3>3
  <2>6. QED
    BY <2>4, <2>5
<1>13. ASSUME NEW a \in Settlers, NEW u \in Users, NextRow(a, u) PROVE ConnsOK'
  BY <1>13 DEF NextRow, Goto, OneEach, UseOK
<1>14. ASSUME NEW a \in Settlers, MarkRow(a) PROVE ConnsOK'
  BY <1>14, SMTT(20) DEF MarkRow, Goto, OneEach, UseOK
<1>15. ASSUME NEW a \in Settlers, CreditStart(a) PROVE ConnsOK'
  <2>1. \A c \in Conns : conn[c] # <<a, "extra">>
    BY <1>15 DEF CreditStart, UseOK
  <2>2. Take(a, "extra")
    BY <1>15 DEF CreditStart
  <2>3. a \in Actors
    BY DEF Actors
  <2>4. /\ OneEach'
        /\ \A c \in Conns, h \in Holders : conn'[c] = h => conn[c] = h \/ h = <<a, "extra">>
    BY <2>1, <2>2, <2>3, TakeOK
  <2>5. ASSUME NEW c \in Conns, NEW b \in Actors PROVE UseOK(c, b)'
    <3>1. UseOK(c, b) /\ <<b, "main">> \in Holders /\ <<b, "extra">> \in Holders
      BY DEF Holders
    <3>2. CASE b = a
      BY <1>15, <2>1, <2>3, <2>4, <3>1, <3>2 DEF CreditStart, Goto, UseOK
    <3>3. CASE b # a
      <4>1. conn'[c] = <<b, "main">> => conn[c] = <<b, "main">>
        BY <2>4, <3>1, <3>3
      <4>2. conn'[c] = <<b, "extra">> => conn[c] = <<b, "extra">>
        BY <2>4, <3>1, <3>3
      <4>3. pc'[b] = pc[b]
        BY <1>15, <3>3 DEF CreditStart, Goto
      <4>4. QED
        BY <3>1, <4>1, <4>2, <4>3 DEF UseOK
    <3>4. QED
      BY <3>2, <3>3
  <2>6. QED
    BY <2>4, <2>5
<1>16. ASSUME NEW a \in Settlers, IncrementWins(a) PROVE ConnsOK'
  <2>1. GiveExtra(a)
    BY <1>16 DEF IncrementWins
  <2>3. a \in Actors
    BY DEF Actors
  <2>4. /\ OneEach'
        /\ \A c \in Conns, h \in Holders :
              conn'[c] = h => conn[c] = h /\ h # <<a, "extra">>
    BY <2>1, <2>3, GiveExtraOK
  <2>5. ASSUME NEW c \in Conns, NEW b \in Actors PROVE UseOK(c, b)'
    <3>1. UseOK(c, b) /\ <<b, "main">> \in Holders /\ <<b, "extra">> \in Holders
      BY DEF Holders
    <3>2. QED
      BY <1>16, <2>4, <3>1, ZenonT(30) DEF IncrementWins, Goto, UseOK
  <2>6. QED
    BY <2>4, <2>5
<1>17. ASSUME NEW a \in Settlers, RowsEnd(a) PROVE ConnsOK'
  <2>1. GiveAll(a)
    BY <1>17 DEF RowsEnd
  <2>3. a \in Actors
    BY DEF Actors
  <2>4. /\ OneEach'
        /\ \A c \in Conns, h \in Holders :
              conn'[c] = h => conn[c] = h /\ h \notin {<<a, "main">>, <<a, "extra">>}
    BY <2>1, <2>3, GiveAllOK
  <2>5. ASSUME NEW c \in Conns, NEW b \in Actors PROVE UseOK(c, b)'
    <3>1. UseOK(c, b) /\ <<b, "main">> \in Holders /\ <<b, "extra">> \in Holders
      BY DEF Holders
    <3>2. QED
      BY <1>17, <2>4, <3>1 DEF RowsEnd, Goto, UseOK
  <2>6. QED
    BY <2>4, <2>5
<1>18. ASSUME NEW a \in Settlers, GradePicks(a) PROVE ConnsOK'
  BY <1>18 DEF GradePicks, Goto, Return, OneEach, UseOK
<1>19. ASSUME NEW a \in Settlers, SettleFails(a) PROVE ConnsOK'
  <2>1. GiveAll(a)
    BY <1>19 DEF SettleFails
  <2>3. a \in Actors
    BY DEF Actors
  <2>4. /\ OneEach'
        /\ \A c \in Conns, h \in Holders :
              conn'[c] = h => conn[c] = h /\ h \notin {<<a, "main">>, <<a, "extra">>}
    BY <2>1, <2>3, GiveAllOK
  <2>5. ASSUME NEW c \in Conns, NEW b \in Actors PROVE UseOK(c, b)'
    <3>1. UseOK(c, b) /\ <<b, "main">> \in Holders /\ <<b, "extra">> \in Holders
      BY DEF Holders
    <3>2. QED
      BY <1>19, <2>4, <3>1 DEF SettleFails, Goto, Return, UseOK
  <2>6. QED
    BY <2>4, <2>5
<1>20. ASSUME PlanReset PROVE ConnsOK'
  BY <1>20 DEF PlanReset, Goto, OneEach, UseOK
<1>21. ASSUME WakeUp PROVE ConnsOK'
  BY <1>21 DEF WakeUp, Goto, OneEach, UseOK
<1>22. ASSUME ResetStart PROVE ConnsOK'
  <2>1. \A c \in Conns : conn[c] # <<Reset, "main">>
    BY <1>22 DEF ResetStart, UseOK
  <2>2. Take(Reset, "main")
    BY <1>22 DEF ResetStart
  <2>3. Reset \in Actors
    BY DEF Actors
  <2>4. /\ OneEach'
        /\ \A c \in Conns, h \in Holders : conn'[c] = h => conn[c] = h \/ h = <<Reset, "main">>
    BY <2>1, <2>2, <2>3, TakeOK
  <2>5. ASSUME NEW c \in Conns, NEW b \in Actors PROVE UseOK(c, b)'
    <3>1. UseOK(c, b) /\ <<b, "main">> \in Holders /\ <<b, "extra">> \in Holders
      BY DEF Holders
    <3>2. CASE b = Reset
      BY <1>22, <2>1, <2>3, <2>4, <3>1, <3>2 DEF ResetStart, Goto, UseOK
    <3>3. CASE b # Reset
      <4>1. conn'[c] = <<b, "main">> => conn[c] = <<b, "main">>
        BY <2>4, <3>1, <3>3
      <4>2. conn'[c] = <<b, "extra">> => conn[c] = <<b, "extra">>
        BY <2>4, <3>1, <3>3
      <4>3. pc'[b] = pc[b]
        BY <1>22, <3>3 DEF ResetStart, Goto
      <4>4. QED
        BY <3>1, <4>1, <4>2, <4>3 DEF UseOK
    <3>4. QED
      BY <3>2, <3>3
  <2>6. QED
    BY <2>4, <2>5
<1>23. ASSUME NEW u \in Users, ResetRow(u) PROVE ConnsOK'
  BY <1>23 DEF ResetRow, OneEach, UseOK
<1>24. ASSUME ResetDone PROVE ConnsOK'
  <2>1. GiveAll(Reset)
    BY <1>24 DEF ResetDone
  <2>3. Reset \in Actors
    BY DEF Actors
  <2>4. /\ OneEach'
        /\ \A c \in Conns, h \in Holders :
              conn'[c] = h => conn[c] = h /\ h \notin {<<Reset, "main">>, <<Reset, "extra">>}
    BY <2>1, <2>3, GiveAllOK
  <2>5. ASSUME NEW c \in Conns, NEW b \in Actors PROVE UseOK(c, b)'
    <3>1. UseOK(c, b) /\ <<b, "main">> \in Holders /\ <<b, "extra">> \in Holders
      BY DEF Holders
    <3>2. QED
      BY <1>24, <2>4, <3>1 DEF ResetDone, Goto, UseOK
  <2>6. QED
    BY <2>4, <2>5
<1>25. ASSUME ResetFails PROVE ConnsOK'
  <2>1. GiveAll(Reset)
    BY <1>25 DEF ResetFails, Fault
  <2>3. Reset \in Actors
    BY DEF Actors
  <2>4. /\ OneEach'
        /\ \A c \in Conns, h \in Holders :
              conn'[c] = h => conn[c] = h /\ h \notin {<<Reset, "main">>, <<Reset, "extra">>}
    BY <2>1, <2>3, GiveAllOK
  <2>5. ASSUME NEW c \in Conns, NEW b \in Actors PROVE UseOK(c, b)'
    <3>1. UseOK(c, b) /\ <<b, "main">> \in Holders /\ <<b, "extra">> \in Holders
      BY DEF Holders
    <3>2. QED
      BY <1>25, <2>4, <3>1 DEF ResetFails, Fault, Goto, UseOK
  <2>6. QED
    BY <2>4, <2>5
<1>26. ASSUME Midnight PROVE ConnsOK'
  BY <1>26 DEF Midnight, OneEach, UseOK
<1>27. ASSUME ServerDies PROVE ConnsOK'
  BY <1>27 DEF ServerDies, Fault, OneEach, UseOK, Holders
<1>28. CASE UNCHANGED acctVars
  BY <1>28 DEF acctVars, OneEach, UseOK
<1>29. QED
  BY <1>1, <1>2, <1>3, <1>4, <1>5, <1>6, <1>7, <1>8, <1>9, <1>10, <1>11, <1>12, <1>13, <1>14,
        <1>15, <1>16, <1>17, <1>18, <1>19, <1>20, <1>21, <1>22, <1>23, <1>24, <1>25, <1>26,
        <1>27, <1>28
  DEF AccountsNext, LoginStep, ShareStep, SettleStep, ResetStep

\* Days.
LEMMA DaysStep ==
    ASSUME RowInv, DaysOK, [AccountsNext]_acctVars
    PROVE  DaysOK'
<1> USE AccountsAssumption
<1> USE DEF RowInv, AccountsTypeOK, RolesOK, DaysOK, Actors, rowVars, dayVars, boundVars
<1>1. ASSUME NEW a \in Logins, NEW u \in Users, LoginStart(a, u) PROVE DaysOK'
  BY <1>1 DEF LoginStart, Request, Goto
<1>2. ASSUME NEW a \in Logins, GetUserByOpenID(a) PROVE DaysOK'
  BY <1>2 DEF GetUserByOpenID, Goto, Return
<1>3. ASSUME NEW a \in Logins, CreateUser(a) PROVE DaysOK'
  BY <1>3 DEF CreateUser, Created, Goto, Return
<1>4. ASSUME NEW a \in Sharers, NEW u \in Users, ShareStart(a, u) PROVE DaysOK'
  BY <1>4 DEF ShareStart, Request, Goto
<1>5. ASSUME NEW a \in Sharers, Begin(a) PROVE DaysOK'
  BY <1>5 DEF Begin, Take, Goto
<1>6. ASSUME NEW a \in Sharers, SelectBalance(a) PROVE DaysOK'
  BY <1>6 DEF SelectBalance, Goto
<1>7. ASSUME NEW a \in Sharers, UpdateCredits(a) PROVE DaysOK'
  BY <1>7 DEF UpdateCredits, Goto
<1>8. ASSUME NEW a \in Sharers, Commit(a) PROVE DaysOK'
  BY <1>8 DEF Commit, Unlock, GiveAll, Goto, Return
<1>9. ASSUME NEW a \in Sharers, ShareFails(a) PROVE DaysOK'
  BY <1>9 DEF ShareFails, Unlock, GiveAll, Goto, Return
<1>10. ASSUME NEW a \in Settlers, SettleStart(a) PROVE DaysOK'
  BY <1>10 DEF SettleStart, Request, Goto
<1>11. ASSUME NEW a \in Settlers, GetMatchResult(a) PROVE DaysOK'
  BY <1>11 DEF GetMatchResult, Goto
<1>12. ASSUME NEW a \in Settlers, QueryPending(a) PROVE DaysOK'
  BY <1>12 DEF QueryPending, Take, Goto
<1>13. ASSUME NEW a \in Settlers, NEW u \in Users, NextRow(a, u) PROVE DaysOK'
  BY <1>13 DEF NextRow, Goto
<1>14. ASSUME NEW a \in Settlers, MarkRow(a) PROVE DaysOK'
  BY <1>14 DEF MarkRow, Goto
<1>15. ASSUME NEW a \in Settlers, CreditStart(a) PROVE DaysOK'
  BY <1>15 DEF CreditStart, Take, Goto
<1>16. ASSUME NEW a \in Settlers, IncrementWins(a) PROVE DaysOK'
  BY <1>16 DEF IncrementWins, GiveExtra, Goto
<1>17. ASSUME NEW a \in Settlers, RowsEnd(a) PROVE DaysOK'
  BY <1>17 DEF RowsEnd, GiveAll, Goto
<1>18. ASSUME NEW a \in Settlers, GradePicks(a) PROVE DaysOK'
  BY <1>18 DEF GradePicks, Goto, Return
<1>19. ASSUME NEW a \in Settlers, SettleFails(a) PROVE DaysOK'
  BY <1>19 DEF SettleFails, GiveAll, Goto, Return
<1>20. ASSUME PlanReset PROVE DaysOK'
  BY <1>20 DEF PlanReset, Goto
<1>21. ASSUME WakeUp PROVE DaysOK'
  BY <1>21 DEF WakeUp, Goto
<1>22. ASSUME ResetStart PROVE DaysOK'
  BY <1>22 DEF ResetStart, Take, Goto
<1>23. ASSUME NEW u \in Users, ResetRow(u) PROVE DaysOK'
  BY <1>23 DEF ResetRow
<1>24. ASSUME ResetDone PROVE DaysOK'
  BY <1>24 DEF ResetDone, Unlock, GiveAll, Goto
<1>25. ASSUME ResetFails PROVE DaysOK'
  BY <1>25 DEF ResetFails, Fault, Unlock, GiveAll, Goto
<1>26. ASSUME Midnight PROVE DaysOK'
  BY <1>26 DEF Midnight
<1>27. ASSUME ServerDies PROVE DaysOK'
  BY <1>27 DEF ServerDies, Fault
<1>28. CASE UNCHANGED acctVars
  BY <1>28 DEF acctVars
<1>29. QED
  BY <1>1, <1>2, <1>3, <1>4, <1>5, <1>6, <1>7, <1>8, <1>9, <1>10, <1>11, <1>12, <1>13, <1>14,
        <1>15, <1>16, <1>17, <1>18, <1>19, <1>20, <1>21, <1>22, <1>23, <1>24, <1>25, <1>26,
        <1>27, <1>28
  DEF AccountsNext, LoginStep, ShareStep, SettleStep, ResetStep

\* The invariant holds at the start, and each step keeps it.
LEMMA AccountsInvStart == AccountsInit => AccountsInv
<1> SUFFICES ASSUME AccountsInit PROVE AccountsInv
  OBVIOUS
<1> USE AccountsAssumption DEF AccountsInit
<1>1. RowInv
  BY DEF RowInv, AccountsTypeOK, RolesOK, Actors
<1>2. LocksOK
  BY DEF LocksOK, Actors
<1>3. BalancesOK
  BY DEF BalancesOK, LedgerExact, Actors
<1>4. ConnsOK
  BY DEF ConnsOK, OneEach, UseOK, Holders
<1>5. DaysOK
  BY DEF DaysOK, Actors
<1>6. QED
  BY <1>1, <1>2, <1>3, <1>4, <1>5 DEF AccountsInv

LEMMA AccountsInvStep == AccountsInv /\ [AccountsNext]_acctVars => AccountsInv'
BY RowStepOK, LocksStep, BalancesStep, ConnsStep, DaysStep DEF AccountsInv

LEMMA AccountsInvariant == AccountsSpec => []AccountsInv
BY AccountsInvStart, AccountsInvStep, PTL DEF AccountsSpec

\* Type correctness, whatever requests come and whatever fails.
THEOREM AccountsTypeCorrect == AccountsSpec => []AccountsTypeOK
<1>1. AccountsInv => AccountsTypeOK
  BY DEF AccountsInv, RowInv
<1>2. QED
  BY <1>1, AccountsInvariant, PTL

\* Balances are exact for any number of shares at once: Add reads under the row lock,
\* and the reset and the logins leave a locked row alone (LocksOK, BalancesOK).
THEOREM LedgerIsExact == AccountsSpec => []LedgerExact
<1>1. AccountsInv => LedgerExact
  BY DEF AccountsInv, BalancesOK
<1>2. QED
  BY <1>1, AccountsInvariant, PTL

-----------------------------------------------------------------------------
(* Requests cannot wait in a ring.  Whoever has a row locked can go on, so *)
(* a stall is one of waiting for connections; then each connection is held *)
(* by a settle request that waits for a second one, and there are at least *)
(* as many settle requests as connections.                                 *)

LEMMA StalledSettlers ==
    ASSUME AccountsInv, Busy # {}, \A a \in Busy : ~CanGo(a)
    PROVE  \A c \in Conns : \E a \in Settlers : conn[c] = <<a, "main">>
<1> USE AccountsAssumption
<1>1. Busy \subseteq Actors /\ \A a \in Actors \ Busy : pc[a] \in {"idle", "sleep"}
  BY DEF Busy
<1>2. \A a \in Sharers : pc[a] \notin {"update", "commit"}
  BY DEF Busy, CanGo, Actors
<1>3. \A a \in Settlers : pc[a] # "rows"
  BY DEF Busy, CanGo, Actors
<1>4. \A u \in Users : rowLock[u] # Free => rowLock[u] = Reset /\ u \notin todo /\ pc[Reset] = "reset"
  BY <1>2 DEF AccountsInv, LocksOK
<1>5. pc[Reset] # "reset"
  <2>1. SUFFICES ASSUME pc[Reset] = "reset" PROVE FALSE
    OBVIOUS
  <2>2. Reset \in Busy
    BY <2>1 DEF Busy, Actors
  <2>3. todo # {} /\ \A u \in todo : rowLock[u] # Free
    BY <2>1, <2>2 DEF CanGo
  <2>4. todo \subseteq Users
    BY DEF AccountsInv, RowInv, AccountsTypeOK
  <2>5. QED
    BY <1>4, <2>3, <2>4
<1>6. \A u \in Users : rowLock[u] = Free
  BY <1>4, <1>5
<1>7. \A a \in Sharers : pc[a] # "select"
  <2>1. SUFFICES ASSUME NEW a \in Sharers, pc[a] = "select" PROVE FALSE
    OBVIOUS
  <2>2. a \in Busy /\ of[a] \in Users
    BY <2>1 DEF Busy, Actors, AccountsInv, RowInv, AccountsTypeOK, RolesOK
  <2>3. QED
    BY <1>6, <2>1, <2>2 DEF CanGo
<1>8. \A a \in Settlers : pc[a] # "wins"
  <2>1. SUFFICES ASSUME NEW a \in Settlers, pc[a] = "wins" PROVE FALSE
    OBVIOUS
  <2>2. a \in Busy /\ of[a] \in Users
    BY <2>1 DEF Busy, Actors, AccountsInv, RowInv, RolesOK
  <2>3. QED
    BY <1>6, <2>1, <2>2 DEF CanGo
<1>9. ~HasIdle
  <2>1. PICK a \in Actors : a \in Busy
    BY <1>1
  <2>2. pc[a] \notin {"select", "wins", "update", "commit", "rows", "reset"}
    <3>1. CASE a \in Logins \/ a = Reset
      BY <1>5, <3>1 DEF AccountsInv, RowInv, RolesOK
    <3>2. CASE a \in Sharers
      BY <1>2, <1>7, <3>2 DEF AccountsInv, RowInv, RolesOK
    <3>3. CASE a \in Settlers
      BY <1>3, <1>8, <3>3 DEF AccountsInv, RowInv, RolesOK
    <3>4. QED
      BY <3>1, <3>2, <3>3 DEF Actors
  <2>3. QED
    BY <2>1, <2>2 DEF CanGo
<1>10. SUFFICES ASSUME NEW c \in Conns PROVE \E a \in Settlers : conn[c] = <<a, "main">>
  OBVIOUS
<1>11. conn[c] \in Holders
  BY <1>9 DEF HasIdle, AccountsInv, RowInv, AccountsTypeOK
<1>12. PICK a \in Actors : conn[c] = <<a, "main">> \/ conn[c] = <<a, "extra">>
  BY <1>11 DEF Holders
<1>13. UseOK(c, a)
  BY DEF AccountsInv, ConnsOK
<1>14. QED
  BY <1>2, <1>5, <1>7, <1>8, <1>12, <1>13 DEF UseOK

\* Fewer settle requests than connections: there is always one that can go on.
THEOREM NeverStalls == AccountsSpec => []NoStall
<1>1. AccountsInv => NoStall
  <2>1. SUFFICES ASSUME AccountsInv, Cardinality(Settlers) < Cardinality(Conns), Busy # {},
                        \A a \in Busy : ~CanGo(a)
                 PROVE  FALSE
    BY DEF NoStall
  <2>2. \A c \in Conns : \E a \in Settlers : conn[c] = <<a, "main">>
    BY <2>1, StalledSettlers
  <2>3. DEFINE f == [c \in Conns |-> conn[c][1]]
  <2>4. f \in Injection(Conns, Settlers)
    <3>1. \A c \in Conns : f[c] \in Settlers /\ conn[c] = <<f[c], "main">>
      BY <2>2
    <3>2. \A c, d \in Conns : conn[c] = conn[d] => c = d
      <4>1. \A c \in Conns : conn[c] \in Holders
        BY <3>1 DEF Holders, Actors
      <4>2. \A c \in Conns : conn[c] # Idle
        BY <4>1, AccountsAssumption
      <4>3. QED
        BY <2>1, <4>2 DEF AccountsInv, ConnsOK, OneEach
    <3>3. \A c, d \in Conns : f[c] = f[d] => c = d
      BY <3>1, <3>2
    <3>4. QED
      BY <3>1, <3>3 DEF Injection, IsInjective
  <2>5. Cardinality(Conns) <= Cardinality(Settlers)
    <3>1. IsFiniteSet(Conns) /\ IsFiniteSet(Settlers)
      BY AccountsAssumption
    <3>2. QED
      BY <2>4, <3>1, FS_Injection
  <2>6. Cardinality(Conns) \in Nat /\ Cardinality(Settlers) \in Nat
    BY AccountsAssumption, FS_CardinalityType
  <2>7. QED
    BY <2>1, <2>5, <2>6
<1>2. QED
  BY <1>1, AccountsInvariant, PTL

-----------------------------------------------------------------------------
(* The credits implement Purse.                                            *)

\* The reset that runs has locked, or has still to lock, each row created before the
\* day it is for: it took the rows there were when it started, after that day began.
ResetSetOK ==
    pc[Reset] = "reset" => \A u \in users : since[u] < next => u \in todo \/ rowLock[u] = Reset

LEMMA ResetSetStep ==
    ASSUME AccountsInv, ResetSetOK, [AccountsNext]_acctVars
    PROVE  ResetSetOK'
<1> USE AccountsAssumption
<1> USE DEF AccountsInv, RowInv, AccountsTypeOK, RolesOK, DaysOK, Actors, rowVars, dayVars, boundVars
<1>1. ASSUME NEW a \in Logins, CreateUser(a) PROVE ResetSetOK'
  <2>1. pc'[Reset] = pc[Reset] /\ UNCHANGED <<next, todo, rowLock>> /\ users \subseteq users'
    BY <1>1 DEF CreateUser, Created, Return
  <2>2. CASE pc[Reset] = "reset"
    <3>1. ASSUME NEW u \in users', since'[u] < next PROVE u \in todo \/ rowLock[u] = Reset
      <4>1. CASE of[a] \in users
        BY <1>1, <2>2, <3>1, <4>1 DEF CreateUser, ResetSetOK
      <4>2. CASE of[a] \notin users
        <5>1. users' = users \cup {of[a]} /\ since' = [since EXCEPT ![of[a]] = today]
          BY <1>1, <4>2 DEF CreateUser, Created
        <5>2. of[a] \in Users /\ next <= today
          BY <1>1, <2>2 DEF CreateUser
        <5>3. u # of[a]
          BY <3>1, <5>1, <5>2
        <5>4. QED
          BY <2>2, <3>1, <5>1, <5>3 DEF ResetSetOK
      <4>3. QED
        BY <4>1, <4>2
    <3>2. QED
      BY <2>1, <3>1 DEF ResetSetOK
  <2>3. CASE pc[Reset] # "reset"
    BY <2>1, <2>3 DEF ResetSetOK
  <2>4. QED
    BY <2>2, <2>3
<1>2. ASSUME NEW a \in Sharers, SelectBalance(a) PROVE ResetSetOK'
  BY <1>2 DEF SelectBalance, Goto, ResetSetOK
<1>3. ASSUME NEW a \in Sharers, Commit(a) \/ ShareFails(a) PROVE ResetSetOK'
  <2>1. /\ pc'[Reset] = pc[Reset] /\ UNCHANGED <<next, todo, users, since>>
        /\ \A u \in Users : rowLock[u] = Reset => rowLock'[u] = Reset
    BY <1>3 DEF Commit, ShareFails, Unlock, Return
  <2>2. QED
    BY <2>1 DEF ResetSetOK
<1>4. CASE ResetStart
  BY <1>4 DEF ResetStart, Goto, ResetSetOK
<1>5. ASSUME NEW v \in Users, ResetRow(v) PROVE ResetSetOK'
  BY <1>5 DEF ResetRow, ResetSetOK
<1>6. CASE PlanReset \/ WakeUp \/ ResetDone \/ ResetFails \/ ServerDies
  <2>1. pc'[Reset] # "reset"
    BY <1>6 DEF PlanReset, WakeUp, ResetDone, ResetFails, ServerDies, Goto
  <2>2. QED
    BY <2>1 DEF ResetSetOK
<1>7. CASE pc'[Reset] = pc[Reset] /\ UNCHANGED <<users, since, next, todo, rowLock>>
  BY <1>7 DEF ResetSetOK
<1>8. CASE UNCHANGED acctVars
  BY <1>8 DEF acctVars, ResetSetOK
<1>9. ASSUME NEW a \in Logins \cup Sharers \cup Settlers,
             \/ \E u \in Users : LoginStart(a, u) \/ ShareStart(a, u) \/ NextRow(a, u)
             \/ GetUserByOpenID(a) \/ Begin(a) \/ UpdateCredits(a) \/ SettleStart(a)
             \/ GetMatchResult(a) \/ QueryPending(a) \/ MarkRow(a) \/ CreditStart(a)
             \/ IncrementWins(a) \/ RowsEnd(a) \/ GradePicks(a) \/ SettleFails(a)
      PROVE  pc'[Reset] = pc[Reset] /\ UNCHANGED <<users, since, next, todo, rowLock>>
  BY <1>9 DEF LoginStart, ShareStart, NextRow, GetUserByOpenID, Begin, UpdateCredits, SettleStart,
              GetMatchResult, QueryPending, MarkRow, CreditStart, IncrementWins, RowsEnd,
              GradePicks, SettleFails, Goto, Return
<1>10. ASSUME Midnight
       PROVE  pc'[Reset] = pc[Reset] /\ UNCHANGED <<users, since, next, todo, rowLock>>
  BY <1>10 DEF Midnight
<1>11. QED
  BY <1>1, <1>2, <1>3, <1>4, <1>5, <1>6, <1>7, <1>8, <1>9, <1>10
  DEF AccountsNext, LoginStep, ShareStep, SettleStep, ResetStep

\* A share adds to the balance of the row, for it has the row locked (BalancesOK); the
\* reset is for the day it slept for, later than its last one (DaysOK), and complete
\* for that day (ResetSetOK); all other steps leave the credits and the day alone.
LEMMA PurseStep ==
    ASSUME AccountsInv, ResetSetOK, [AccountsNext]_acctVars
    PROVE  [Credits!PurseNext]_(Credits!purseVars)
<1> USE AccountsAssumption
<1> DEFINE bar == [u \in Users |-> IF u \in users THEN credits[u] ELSE None]
<1>1. /\ credits \in [Users -> Nat] /\ since \in [Users -> Nat] /\ users \subseteq Users
      /\ today \in Nat /\ next \in Nat /\ lastReset \in Nat
  BY DEF AccountsInv, RowInv, AccountsTypeOK
<1>2. \A u \in Users : bar[u] # None <=> u \in users
  BY <1>1
<1>3. Credits!Owners = users
  BY <1>1, <1>2 DEF Credits!Owners
<1>4. ASSUME NEW a \in Logins, CreateUser(a) PROVE [Credits!PurseNext]_(Credits!purseVars)
  <2>1. CASE of[a] \in users
    BY <1>4, <2>1 DEF CreateUser, dayVars, Credits!purseVars
  <2>2. CASE of[a] \notin users
    <3>1. of[a] \in Users /\ StartCredits[of[a]] \in Nat
      BY <1>4 DEF CreateUser, AccountsInv, RowInv, RolesOK
    <3>2. /\ users' = users \cup {of[a]}
          /\ credits' = [credits EXCEPT ![of[a]] = StartCredits[of[a]]]
          /\ since' = [since EXCEPT ![of[a]] = today]
          /\ UNCHANGED <<today, lastReset>>
      BY <1>4, <2>2 DEF CreateUser, Created, dayVars
    <3>3. bar' = [bar EXCEPT ![of[a]] = StartCredits[of[a]]]
      BY <1>1, <3>1, <3>2
    <3>4. PICK u \in Users : u = of[a]
      BY <3>1
    <3>5. Credits!Open(u)
      BY <1>3, <2>2, <3>2, <3>3, <3>4 DEF Credits!Open
    <3>6. QED
      BY <3>5 DEF Credits!PurseNext
  <2>3. QED
    BY <2>1, <2>2
<1>5. ASSUME NEW a \in Sharers, Commit(a) PROVE [Credits!PurseNext]_(Credits!purseVars)
  <2>1. of[a] \in users /\ bal[a] = credits[of[a]]
    BY <1>5 DEF Commit, AccountsInv, BalancesOK, RowInv, RolesOK
  <2>2. /\ credits' = [credits EXCEPT ![of[a]] = credits[of[a]] + ShareBonus]
        /\ UNCHANGED <<users, since, today, lastReset>>
    BY <1>5, <2>1 DEF Commit, dayVars
  <2>3. bar' = [bar EXCEPT ![of[a]] = @ + ShareBonus]
    BY <1>1, <2>1, <2>2
  <2>4. PICK u \in Users : u = of[a]
    BY <1>1, <2>1
  <2>5. Credits!Share(u)
    BY <1>3, <2>1, <2>2, <2>3, <2>4 DEF Credits!Share
  <2>6. QED
    BY <2>5 DEF Credits!PurseNext
<1>6. ASSUME ResetDone PROVE [Credits!PurseNext]_(Credits!purseVars)
  <2>1. DEFINE R == {u \in Users : rowLock[u] = Reset}
  <2>2. pc[Reset] = "reset" /\ todo = {}
    BY <1>6 DEF ResetDone
  <2>3. R \subseteq users
    BY <2>2 DEF AccountsInv, LocksOK, RowInv, AccountsTypeOK, Actors
  <2>4. {u \in users : since[u] < next} \subseteq R
    BY <1>1, <2>2 DEF ResetSetOK
  <2>5. next > lastReset /\ next <= today
    BY <1>1, <2>2 DEF AccountsInv, DaysOK
  <2>6. /\ credits' = [u \in Users |-> IF u \in R THEN InitialCredits ELSE credits[u]]
        /\ lastReset' = next
        /\ UNCHANGED <<users, since, today>>
    BY <1>6 DEF ResetDone
  <2>7. bar' = [u \in Users |-> IF u \in R THEN InitialCredits ELSE bar[u]]
    BY <1>1, <2>3, <2>6
  <2>8. PICK d \in 1 .. today, S \in SUBSET Users : d = next /\ S = R
    <3>1. next \in 1 .. today
      BY <1>1, <2>5
    <3>2. R \in SUBSET Users
      OBVIOUS
    <3>3. QED
      BY <3>1, <3>2, Zenon
  <2>9. Credits!ResetFor(d, S)
    BY <1>3, <2>3, <2>4, <2>5, <2>6, <2>7, <2>8 DEF Credits!ResetFor
  <2>10. QED
    BY <2>8, <2>9 DEF Credits!PurseNext
<1>7. ASSUME Midnight PROVE [Credits!PurseNext]_(Credits!purseVars)
  <2>1. Credits!Midnight
    BY <1>7 DEF Midnight, rowVars, Credits!Midnight
  <2>2. QED
    BY <2>1 DEF Credits!PurseNext
<1>8. CASE UNCHANGED <<users, credits, since, today, lastReset>>
  BY <1>8 DEF Credits!purseVars
<1>9. QED
  BY <1>4, <1>5, <1>6, <1>7, <1>8
  DEF AccountsNext, LoginStep, ShareStep, SettleStep, ResetStep, acctVars, rowVars, dayVars,
      LoginStart, GetUserByOpenID, ShareStart, Begin, SelectBalance, UpdateCredits, ShareFails,
      SettleStart, GetMatchResult, QueryPending, NextRow, MarkRow, CreditStart, IncrementWins,
      RowsEnd, GradePicks, SettleFails, PlanReset, WakeUp, ResetStart, ResetRow, ResetFails,
      ServerDies

\* The credits of all rows implement Purse: no share is lost, and a day has one reset at
\* most, complete for that day.
THEOREM AccountsImplementPurse == AccountsSpec => ImplementsPurse
<1>1. AccountsInit => Credits!PurseInit /\ ResetSetOK
  BY AccountsAssumption DEF AccountsInit, Credits!PurseInit, ResetSetOK, Actors
<1>2. AccountsInv /\ ResetSetOK /\ [AccountsNext]_acctVars =>
          ResetSetOK' /\ [Credits!PurseNext]_(Credits!purseVars)
  BY ResetSetStep, PurseStep
<1>3. QED
  BY <1>1, <1>2, AccountsInvariant, PTL DEF AccountsSpec, ImplementsPurse, Credits!PurseSpec

-----------------------------------------------------------------------------
(* The end of a request.  NeverStalls says that one of those that wait can *)
(* go on; here, that whoever goes on comes nearer to its end.              *)

Labels == {"idle", "get", "create", "begin", "select", "update", "commit", "query", "pending",
           "rows", "mark", "credit", "wins", "grade", "sleep", "awake", "reset"}

\* The statements a request has left when it is at l, at most, with n rows to settle.
StatementsLeft(l, n) ==
    CASE l = "get"     -> 2
      [] l = "create"  -> 1
      [] l = "begin"   -> 4
      [] l = "select"  -> 3
      [] l = "update"  -> 2
      [] l = "commit"  -> 1
      [] l = "query"   -> 4 * MaxRows + 4
      [] l = "pending" -> 4 * MaxRows + 3
      [] l = "rows"    -> 4 * n + 2
      [] l = "mark"    -> 4 * n + 5
      [] l = "credit"  -> 4 * n + 4
      [] l = "wins"    -> 4 * n + 3
      [] l = "grade"   -> 1
      [] OTHER         -> 0

Nearer(a) == StatementsLeft(pc'[a], left'[a]) < StatementsLeft(pc[a], left[a])

LEMMA ReturnNearer ==
    ASSUME AccountsInv, NEW a \in Logins \cup Sharers \cup Settlers, pc[a] # "idle", pc'[a] = "idle"
    PROVE  Nearer(a)
<1>1. left[a] \in Nat /\ MaxRows \in Nat
  BY AccountsAssumption DEF AccountsInv, RowInv, AccountsTypeOK, Actors
<1>2. /\ pc[a] \in {"get", "create", "begin", "select", "update", "commit", "query", "pending",
                    "rows", "mark", "credit", "wins", "grade"}
  BY DEF AccountsInv, RowInv, RolesOK
<1> QED
  BY <1>1, <1>2 DEF Nearer, StatementsLeft

\* Each statement of a request, done or failed, is one less.
LEMMA LoginNearer ==
    ASSUME AccountsInv, NEW a \in Logins, LoginStep(a)
    PROVE  Nearer(a) /\ \A b \in Actors \ {a} : pc'[b] = pc[b] /\ left'[b] = left[b]
<1>1. a \in Actors /\ pc \in [Actors -> Labels] /\ left \in [Actors -> Nat]
  BY DEF AccountsInv, RowInv, AccountsTypeOK, Actors, Labels
<1>2. CASE Return(a) /\ pc[a] # "idle"
  BY <1>1, <1>2, ReturnNearer DEF Return
<1>3. CASE pc[a] = "get" /\ Goto(a, "create") /\ left' = left
  BY <1>1, <1>3 DEF Goto, Nearer, StatementsLeft
<1> QED
  BY <1>2, <1>3 DEF LoginStep, GetUserByOpenID, CreateUser

LEMMA ShareNearer ==
    ASSUME AccountsInv, NEW a \in Sharers, ShareStep(a) \/ ShareFails(a)
    PROVE  Nearer(a) /\ \A b \in Actors \ {a} : pc'[b] = pc[b] /\ left'[b] = left[b]
<1>1. a \in Actors /\ pc \in [Actors -> Labels] /\ left \in [Actors -> Nat]
  BY DEF AccountsInv, RowInv, AccountsTypeOK, Actors, Labels
<1>2. CASE Return(a) /\ pc[a] # "idle"
  BY <1>1, <1>2, ReturnNearer DEF Return
<1>3. CASE Begin(a) \/ SelectBalance(a) \/ UpdateCredits(a)
  BY <1>1, <1>3 DEF Begin, SelectBalance, UpdateCredits, Goto, Nearer, StatementsLeft
<1> QED
  BY <1>2, <1>3 DEF ShareStep, ShareFails, Commit

LEMMA SettleNearer ==
    ASSUME AccountsInv, NEW a \in Settlers, SettleStep(a) \/ SettleFails(a)
    PROVE  Nearer(a) /\ \A b \in Actors \ {a} : pc'[b] = pc[b] /\ left'[b] = left[b]
<1>1. /\ a \in Actors /\ pc \in [Actors -> Labels] /\ left \in [Actors -> Nat]
      /\ left[a] \in Nat /\ MaxRows \in Nat
  BY AccountsAssumption DEF AccountsInv, RowInv, AccountsTypeOK, Actors, Labels
<1>2. CASE Return(a) /\ pc[a] # "idle"
  BY <1>1, <1>2, ReturnNearer DEF Return
<1>3. CASE GetMatchResult(a)
  BY <1>1, <1>3 DEF GetMatchResult, Goto, Nearer, StatementsLeft
<1>4. CASE QueryPending(a)
  <2>1. PICK n \in 0 .. MaxRows : left' = [left EXCEPT ![a] = n]
    BY <1>4 DEF QueryPending
  <2>2. pc[a] = "pending" /\ pc'[a] = "rows" /\ left'[a] = n /\ n \in Nat /\ n <= MaxRows
    BY <1>1, <1>4, <2>1 DEF QueryPending, Goto
  <2>3. StatementsLeft("rows", n) = 4 * n + 2 /\ StatementsLeft("pending", left[a]) = 4 * MaxRows + 3
    BY DEF StatementsLeft
  <2>4. Nearer(a)
    BY <1>1, <2>2, <2>3 DEF Nearer
  <2> QED
    BY <1>1, <1>4, <2>1, <2>4 DEF QueryPending, Goto
<1>5. CASE \E u \in Users : NextRow(a, u)
  BY <1>1, <1>5 DEF NextRow, Goto, Nearer, StatementsLeft
<1>6. CASE MarkRow(a) \/ CreditStart(a) \/ IncrementWins(a) \/ RowsEnd(a)
  BY <1>1, <1>6 DEF MarkRow, CreditStart, IncrementWins, RowsEnd, Goto, Nearer, StatementsLeft
<1> QED
  BY <1>2, <1>3, <1>4, <1>5, <1>6 DEF SettleStep, SettleFails, GradePicks

\* Every request winds down, a settle request over as many rows as there are: each
\* statement, done or failed, brings it nearer to its end, and neither other requests
\* nor the reset nor an end of the server sets it back.
THEOREM RequestsWindDown ==
    AccountsSpec =>
        [][\A a \in Logins \cup Sharers \cup Settlers :
             pc[a] # "idle" => \/ pc'[a] = pc[a] /\ left'[a] = left[a]
                               \/ Nearer(a)]_acctVars
<1>1. AccountsInv /\ [AccountsNext]_acctVars
        => [\A a \in Logins \cup Sharers \cup Settlers :
              pc[a] # "idle" => \/ pc'[a] = pc[a] /\ left'[a] = left[a]
                                \/ Nearer(a)]_acctVars
  <2> SUFFICES ASSUME AccountsInv, [AccountsNext]_acctVars,
                      NEW a \in Logins \cup Sharers \cup Settlers, pc[a] # "idle"
               PROVE  (pc'[a] = pc[a] /\ left'[a] = left[a]) \/ Nearer(a)
    OBVIOUS
  <2>1. a \in Actors /\ a # Reset /\ pc \in [Actors -> Labels]
    BY AccountsAssumption DEF AccountsInv, RowInv, AccountsTypeOK, Actors, Labels
  <2>2. CASE \/ \E b \in Logins : LoginStep(b)
             \/ \E b \in Sharers : ShareStep(b) \/ ShareFails(b)
             \/ \E b \in Settlers : SettleStep(b) \/ SettleFails(b)
    BY <2>1, <2>2, LoginNearer, ShareNearer, SettleNearer
  <2>3. CASE \/ \E b \in Logins, u \in Users : LoginStart(b, u)
             \/ \E b \in Sharers, u \in Users : ShareStart(b, u)
             \/ \E b \in Settlers : SettleStart(b)
    BY <2>1, <2>3 DEF LoginStart, ShareStart, SettleStart, Goto
  <2>4. CASE ResetStep \/ ResetFails
    BY <2>1, <2>4 DEF ResetStep, ResetFails, PlanReset, WakeUp, ResetStart, ResetRow, ResetDone, Goto
  <2>5. CASE ServerDies
    <3>1. pc'[a] = "idle"
      BY <2>1, <2>5 DEF ServerDies
    <3> QED
      BY <3>1, ReturnNearer
  <2>6. CASE Midnight \/ UNCHANGED acctVars
    BY <2>6 DEF Midnight, acctVars
  <2> QED
    BY <2>2, <2>3, <2>4, <2>5, <2>6 DEF AccountsNext
<1> QED
  BY <1>1, AccountsInvariant, PTL DEF AccountsSpec
=============================================================================
