---------------------------- MODULE BoardsProofs ----------------------------
(***************************************************************************)
(* Proofs about what players are shown of a betting day, for any numbers   *)
(* of users, matches, bets, calls, late bets and stored results.           *)
(*                                                                         *)
(* The invariant says of every comparison under way what its queries have  *)
(* kept of the table.  TableGrows is all it needs to know of a step of the *)
(* rest of the system.                                                     *)
(***************************************************************************)
EXTENDS Boards, FiniteSetTheorems, WellFoundedInduction, TLAPS

\* The day d has ended.
Over(d) == (d + 1) * 24 + 11 <= clock

\* The roles whose rows a comparison has read.
Have(pc) == CASE pc \in {"norows", "expert"} -> {"user"}
              [] pc = "ai" -> {"user", "expert"}
              [] OTHER -> Roles

\* What a query returned is still in the table, and closed rows are what they were.
TallyKept(u, d, t) ==
    /\ t.rows \subseteq RowsIn(u, d)
    /\ t.open \subseteq t.rows /\ t.won \subseteq t.rows
    /\ (t.rows \ t.open) \cap Pending = {}
    /\ t.won \subseteq WonRows(u)
    /\ (t.rows \ t.open) \cap WonRows(u) \subseteq t.won

PkKept(c) ==
    /\ Over(c.day)
    /\ c.told => c.day \in announced
    /\ \A role \in Roles :
           /\ TallyKept(Shown(c.user, role), c.day, c.tally[role])
           /\ role \in Have(c.pc) =>
                  RowsIn(Shown(c.user, role), c.day) \ c.tally[role].rows \subseteq late
           /\ c.told /\ c.day \notin guessed => c.tally[role].open \subseteq late

PkAnswered(c) ==
    c.pc = "decided" => ~HasPending(c.tally) /\ c.winner = DecidePKWinner(Wins(c.tally))

\* A day found complete is over, and, unless guessed, only late bets of it are pending.
DaysKept == \A d \in announced : /\ Over(d)
                                 /\ d \notin guessed => RowsOn(d) \cap Pending \subseteq late

\* The winner of a bet, against the roles that guessed it.
Sole(right, winner) ==
    LET R == {role \in Roles : right[role]} IN
    /\ winner \in Roles => winner \in R
    /\ Cardinality(R) = 1 => winner \in R

SoleNamed(c) == c.op = "list" /\ c.pc = "compared" => Sole(c.right, c.winner)

\* An entry of the leaderboard counts no more verdicts than the table holds.
EntryKept(e, u) ==
    /\ e.verdicts \in Seq(BOOLEAN) /\ e.wins \in Nat
    /\ e.wins <= Cardinality(WonRows(u))
    /\ Len(e.verdicts) - e.wins <= Cardinality(Closed(u) \ WonRows(u))
    /\ e.streak = LongestRun(e.verdicts)

EntriesKept(c) ==
    c.op = "board" => \A role \in Roles :
        c.entry[role] # NoEntry => EntryKept(c.entry[role], Shown(c.user, role))

BoardsInv ==
    /\ BoardsTypeOK
    /\ DaysKept
    /\ \A r \in Calls : Pk(r) => PkKept(call[r]) /\ PkAnswered(call[r])
    /\ \A r \in Calls : SoleNamed(call[r]) /\ EntriesKept(call[r])

-----------------------------------------------------------------------------
(* The last betting day.                                                   *)

\* LastDay is the last betting day that has ended: it is over, the next one is not.
THEOREM LastDayIsLast ==
    ASSUME NEW now \in Nat
    PROVE  /\ LastDay(now) \in Int
           /\ (LastDay(now) + 1) * 24 + 11 <= now
           /\ now < (LastDay(now) + 2) * 24 + 11
<1>1. now \div 24 \in Int /\ now % 24 \in 0 .. 23 /\ now = 24 * (now \div 24) + (now % 24)
  OBVIOUS
<1> QED
  BY <1>1 DEF LastDay

-----------------------------------------------------------------------------
(* The rest of the system: rows are added and closed.                      *)

TableGrows ==
    /\ clock <= clock' /\ late \subseteq late' /\ announced \subseteq announced'
    /\ guessed \subseteq guessed'
    /\ \A b \in Placed :
           /\ b \in Placed'
           /\ predictions'[b].user = predictions[b].user
           /\ predictions'[b].match = predictions[b].match
           /\ b \notin Pending => predictions'[b] = predictions[b]
    /\ \A b \in Placed' \ Placed :
           /\ predictions'[b].status = "pending"
           /\ predictions'[b].match \in Matches
           /\ b \in late' \/ clock' <= Kickoff[predictions'[b].match]

LEMMA QuietTable ==
    ASSUME BoardsTypeOK, predictions' = predictions, late \subseteq late', clock' = clock,
           announced \subseteq announced', guessed \subseteq guessed'
    PROVE  TableGrows
<1>1. clock <= clock'
  BY BoardsAssumption DEF BoardsTypeOK
<1> QED
  BY <1>1 DEF TableGrows, Placed

LEMMA GrowsBet ==
    ASSUME BoardsTypeOK, NEW b \in BetIds, NEW u \in Users, NEW m \in Matches, NEW st \in SubTypes,
           NEW c \in Codes, Bet(b, u, m, st, c)
    PROVE  TableGrows /\ BoardsTypeOK' /\ call' = call /\ UNCHANGED <<announced, guessed>>
<1> DEFINE row == [user |-> u, match |-> m, subType |-> st, code |-> c, status |-> "pending"]
<1>1. /\ predictions \in [BetIds -> Row \cup {NoRow}] /\ predictions[b] = NoRow
      /\ predictions' = [predictions EXCEPT ![b] = row]
      /\ UNCHANGED <<results, published, clock, announced, guessed, call, stores, readFaults>>
      /\ \/ clock <= Kickoff[m] /\ late' = late
         \/ late' = late \cup {b}
  BY DEF BoardsTypeOK, StoreTypeOK, Bet, AddRow, InsertRow
<1>2. row \in Row
  BY DEF Row
<1>3. predictions'[b] = row /\ \A k \in BetIds \ {b} : predictions'[k] = predictions[k]
  BY <1>1
<1>4. b \notin Placed /\ Placed' = Placed \cup {b}
  BY <1>1, <1>2, <1>3, NoRowAssumption DEF Placed
<1>5. clock <= clock'
  BY <1>1, BoardsAssumption DEF BoardsTypeOK
<1>6. TableGrows
  BY <1>1, <1>3, <1>4, <1>5 DEF TableGrows, Placed
<1>7. BoardsTypeOK'
  BY <1>1, <1>2 DEF BoardsTypeOK, StoreTypeOK
<1> QED
  BY <1>1, <1>6, <1>7

LEMMA GrowsNews ==
    ASSUME BoardsTypeOK, NEW m \in Matches, NEW r \in Result, News(m, r)
    PROVE  TableGrows /\ BoardsTypeOK' /\ call' = call /\ UNCHANGED <<announced, guessed>>
<1>1. /\ results' = [results EXCEPT ![m] = r]
      /\ published' = [published EXCEPT ![m] = IF r.valid THEN @ \cup {r.draw} ELSE @]
      /\ stores' = stores + 1
      /\ UNCHANGED <<predictions, clock, late, announced, guessed, call, readFaults>>
  BY DEF News, StoreResult
<1>2. published' \in [Matches -> SUBSET Draws]
  BY <1>1 DEF BoardsTypeOK, Result
<1>3. BoardsTypeOK'
  BY <1>1, <1>2 DEF BoardsTypeOK, StoreTypeOK
<1> QED
  BY <1>1, <1>3, QuietTable

LEMMA GrowsClose ==
    ASSUME BoardsTypeOK, NEW b \in BetIds, Close(b)
    PROVE  TableGrows /\ BoardsTypeOK' /\ call' = call /\ UNCHANGED <<announced, guessed>>
<1>1. /\ predictions \in [BetIds -> Row \cup {NoRow}] /\ predictions[b] \in Row /\ b \in Pending
      /\ UNCHANGED <<results, published, clock, late, announced, guessed, call, stores, readFaults>>
  BY DEF BoardsTypeOK, StoreTypeOK, Close, CloseRow, Pending, Placed
<1>2. PICK s \in {"won", "lost"} : predictions' = [predictions EXCEPT ![b] = [@ EXCEPT !.status = s]]
  BY DEF Close, CloseRow, SetStatus, Verdict
<1>3. /\ predictions'[b] \in Row /\ predictions'[b].user = predictions[b].user
      /\ predictions'[b].match = predictions[b].match
      /\ \A k \in BetIds \ {b} : predictions'[k] = predictions[k]
  BY <1>1, <1>2 DEF Row
<1>4. Placed' = Placed
  BY <1>1, <1>3, NoRowAssumption DEF Placed
<1>5. clock <= clock'
  BY <1>1, BoardsAssumption DEF BoardsTypeOK
<1>6. TableGrows
  BY <1>1, <1>3, <1>4, <1>5 DEF TableGrows, Placed
<1>7. BoardsTypeOK'
  BY <1>1, <1>2, <1>3 DEF BoardsTypeOK, StoreTypeOK
<1> QED
  BY <1>1, <1>6, <1>7

LEMMA GrowsTick ==
    ASSUME BoardsTypeOK, Tick
    PROVE  TableGrows /\ BoardsTypeOK' /\ call' = call /\ UNCHANGED <<announced, guessed>>
<1>1. PICK h \in Hours : h > clock /\ clock' = h
  BY DEF Tick
<1>2. UNCHANGED <<predictions, results, published, late, announced, guessed, call, stores, readFaults>>
  BY DEF Tick, rowsVars
<1>3. clock <= clock' /\ clock' \in Hours
  BY <1>1, BoardsAssumption DEF BoardsTypeOK
<1>4. TableGrows
  BY <1>2, <1>3 DEF TableGrows, Placed
<1>5. BoardsTypeOK'
  BY <1>2, <1>3 DEF BoardsTypeOK, StoreTypeOK
<1> QED
  BY <1>2, <1>4, <1>5

-----------------------------------------------------------------------------
(* The longest streak.                                                     *)

\* A set of natural numbers has a least element: the form of induction used below.
LEMMA LeastElement ==
    ASSUME NEW T, T \subseteq Nat, T # {}
    PROVE  \E n \in T : \A k \in T : n <= k
<1> DEFINE R == {p \in Nat \X Nat : p[1] < p[2]}
<1>1. IsWellFoundedOn(R, Nat)
  BY NatLessThanWellFounded DEF OpToRel
<1>2. PICK n \in T : \A k \in T : <<k, n>> \notin R
  <2> HIDE DEF R
  <2> QED
    BY <1>1, WFMin
<1>3. ASSUME NEW k \in T PROVE n <= k
  <2>1. <<k, n>> \in Nat \X Nat /\ <<k, n>> \notin R
    BY <1>2
  <2>2. ~(k < n)
    BY <2>1
  <2> QED
    BY <2>2
<1> QED
  BY <1>3

\* The loop of calcStreak up to the element n.
Loop(v, n, g) ==
    \A i \in 0 .. n : g[i] = IF i = 0 THEN 0 ELSE IF v[i] THEN g[i-1] + 1 ELSE 0

\* The loop can be run over any list.
LEMMA LoopRuns ==
    ASSUME NEW v, NEW N \in Nat
    PROVE  \E g \in [0 .. N -> Nat] : Loop(v, N, g)
<1> DEFINE T == {n \in Nat : ~ \E g \in [0 .. n -> Nat] : Loop(v, n, g)}
<1>1. SUFFICES ASSUME T # {} PROVE FALSE
  BY <1>1
<1>2. PICK n \in T : \A k \in T : n <= k
  <2>1. T \subseteq Nat
    OBVIOUS
  <2> HIDE DEF T
  <2> QED
    BY <1>1, <2>1, LeastElement
<1>3. n # 0
  <2>1. [i \in 0 .. 0 |-> 0] \in [0 .. 0 -> Nat] /\ Loop(v, 0, [i \in 0 .. 0 |-> 0])
    BY DEF Loop
  <2> QED
    BY <2>1
<1>4. n - 1 \in Nat /\ n - 1 \notin T
  <2>1. n \in Nat
    BY <1>2
  <2> HIDE DEF T
  <2> QED
    BY <1>2, <1>3, <2>1
<1>5. PICK g \in [0 .. n-1 -> Nat] : Loop(v, n - 1, g)
  BY <1>4
<1> DEFINE h == [i \in 0 .. n |-> IF i < n THEN g[i] ELSE IF v[n] THEN g[n-1] + 1 ELSE 0]
<1>6. h \in [0 .. n -> Nat]
  BY <1>4
<1>7. Loop(v, n, h)
  <2> SUFFICES ASSUME NEW i \in 0 .. n
               PROVE  h[i] = IF i = 0 THEN 0 ELSE IF v[i] THEN h[i-1] + 1 ELSE 0
    BY DEF Loop
  <2>1. CASE i < n
    <3>1. h[i] = g[i] /\ (i # 0 => h[i-1] = g[i-1])
      BY <2>1
    <3> QED
      BY <1>4, <1>5, <2>1, <3>1 DEF Loop
  <2>2. CASE i = n
    BY <1>3, <1>4, <2>2
  <2> QED
    BY <2>1, <2>2
<1> QED
  BY <1>2, <1>6, <1>7

LEMMA CurLoop ==
    ASSUME NEW v \in Seq(BOOLEAN)
    PROVE  /\ Cur(v)[0] = 0
           /\ \A i \in 1 .. Len(v) : Cur(v)[i] = IF v[i] THEN Cur(v)[i-1] + 1 ELSE 0
<1>0. Len(v) \in Nat
  OBVIOUS
<1>1. PICK g \in [0 .. Len(v) -> Nat] : Loop(v, Len(v), g)
  BY <1>0, LoopRuns
<1>2. g = [i \in 0 .. Len(v) |-> IF i = 0 THEN 0 ELSE IF v[i] THEN g[i-1] + 1 ELSE 0]
  BY <1>1 DEF Loop
<1>3. Cur(v) = [i \in 0 .. Len(v) |-> IF i = 0 THEN 0 ELSE IF v[i] THEN Cur(v)[i-1] + 1 ELSE 0]
  BY <1>2 DEF Cur
<1> DEFINE c == Cur(v)
           N == Len(v)
<1> HIDE DEF c, N
<1>4. c = [i \in 0 .. N |-> IF i = 0 THEN 0 ELSE IF v[i] THEN c[i-1] + 1 ELSE 0] /\ N \in Nat
  BY <1>0, <1>3 DEF c, N
<1>5. c[0] = 0 /\ \A i \in 1 .. N : c[i] = IF v[i] THEN c[i-1] + 1 ELSE 0
  BY <1>4
<1> QED
  BY <1>5 DEF c, N

\* cur counts the wins since the last loss.
Counts(v, i, n) ==
    /\ n \in 0 .. i
    /\ \A j \in i - n + 1 .. i : v[j]
    /\ n < i => ~v[i-n]

LEMMA CurCounts ==
    ASSUME NEW v \in Seq(BOOLEAN)
    PROVE  \A i \in 0 .. Len(v) : Counts(v, i, Cur(v)[i])
<1> DEFINE N == Len(v)
           c == Cur(v)
           T == {i \in 0 .. N : ~Counts(v, i, c[i])}
<1>0. N \in Nat /\ \A i \in 1 .. N : v[i] \in BOOLEAN
  OBVIOUS
<1>1. SUFFICES ASSUME T # {} PROVE FALSE
  BY <1>1
<1>2. PICK i \in T : \A k \in T : i <= k
  <2>1. T \subseteq Nat
    OBVIOUS
  <2> HIDE DEF T
  <2> QED
    BY <1>1, <2>1, LeastElement
<1>3. /\ c[0] = 0
      /\ \A k \in 1 .. N : c[k] = IF v[k] THEN c[k-1] + 1 ELSE 0
  BY CurLoop
<1> HIDE DEF c, N
<1>4. i # 0
  <2>1. Counts(v, 0, c[0])
    BY <1>3 DEF Counts
  <2> QED
    BY <2>1
<1>5. i \in 1 .. N /\ i - 1 \in 0 .. N /\ i - 1 \notin T
  BY <1>0, <1>2, <1>4
<1>6. Counts(v, i - 1, c[i-1])
  BY <1>5
<1>7. CASE v[i]
  <2>1. c[i] = c[i-1] + 1 /\ c[i-1] \in 0 .. i-1
    BY <1>3, <1>5, <1>6, <1>7 DEF Counts
  <2>2. i - c[i] = i - 1 - c[i-1]
    BY <1>5, <2>1
  <2>3. \A j \in i - c[i] + 1 .. i : v[j]
    BY <1>5, <1>6, <1>7, <2>1, <2>2 DEF Counts
  <2>4. c[i] < i => ~v[i - c[i]]
    BY <1>5, <1>6, <2>1, <2>2 DEF Counts
  <2>5. Counts(v, i, c[i])
    BY <1>5, <2>1, <2>3, <2>4 DEF Counts
  <2> QED
    BY <2>5
<1>8. CASE ~v[i]
  <2>1. c[i] = 0
    BY <1>3, <1>5, <1>8
  <2>2. Counts(v, i, c[i])
    BY <1>5, <1>8, <2>1 DEF Counts
  <2> QED
    BY <2>2
<1> QED
  BY <1>7, <1>8


\* A non-empty set of bounded numbers has a greatest element.
LEMMA GreatestElement ==
    ASSUME NEW N \in Nat, NEW S \in SUBSET (0 .. N), S # {}
    PROVE  \E m \in S : \A k \in S : k <= m
<1> DEFINE T == {n \in Nat : N - n \in S}
<1>1. T # {}
  <2>1. PICK k \in S : k \in 0 .. N
    OBVIOUS
  <2>2. N - k \in Nat /\ N - (N - k) = k
    BY <2>1
  <2> QED
    BY <2>1, <2>2
<1>2. PICK n \in T : \A k \in T : n <= k
  <2>1. T \subseteq Nat
    OBVIOUS
  <2> HIDE DEF T
  <2> QED
    BY <1>1, <2>1, LeastElement
<1>3. ASSUME NEW k \in S PROVE k <= N - n
  <2>1. k \in 0 .. N /\ N - k \in Nat /\ N - (N - k) = k
    OBVIOUS
  <2>2. N - k \in T
    BY <2>1
  <2>3. n <= N - k /\ n \in Nat
    BY <1>2, <2>2
  <2> QED
    BY <2>1, <2>3
<1> QED
  BY <1>2, <1>3

\* The wins from p[1] to p[2], whatever comes before and after them.
WinRuns(v) == {p \in (1 .. Len(v)) \X (1 .. Len(v)) : \A i \in p[1] .. p[2] : v[i]}

Longest(v, n) ==
    /\ n = 0 \/ \E p \in WinRuns(v) : p[2] - p[1] + 1 = n
    /\ \A p \in WinRuns(v) : p[2] - p[1] + 1 <= n

\* calcStreak, for a list of any length: what the loop returns is the length of the
\* longest run of wins.
THEOREM StreakIsLongest ==
    ASSUME NEW v \in Seq(BOOLEAN)
    PROVE  CalcStreak(v) = LongestRun(v)
<1> DEFINE N == Len(v)
           c == Cur(v)
           S == Streaks(v)
<1>1. N \in Nat
  OBVIOUS
<1>2. \A i \in 0 .. N : Counts(v, i, c[i])
  BY CurCounts
<1>3. S = {c[i] : i \in 0 .. N}
  BY DEF Streaks
<1>4. LongestRun(v) = CHOOSE n \in 0 .. N : Longest(v, n)
  BY DEF LongestRun, Longest, WinRuns
<1>5. CalcStreak(v) = CHOOSE n \in S : \A k \in S : k <= n
  BY DEF CalcStreak
<1>6. WinRuns(v) = {p \in (1 .. N) \X (1 .. N) : \A i \in p[1] .. p[2] : v[i]}
  BY DEF WinRuns
<1> HIDE DEF N, c, S
<1>7. S \in SUBSET (0 .. N) /\ S # {}
  <2>1. \A i \in 0 .. N : c[i] \in 0 .. N
    BY <1>1, <1>2 DEF Counts
  <2>2. 0 \in 0 .. N
    BY <1>1
  <2> QED
    BY <1>3, <2>1, <2>2
<1>8. PICK M \in S : \A k \in S : k <= M
  BY <1>1, <1>7, GreatestElement
<1>9. M \in 0 .. N
  BY <1>7
<1>10. CalcStreak(v) = M
  <2>1. \A n \in S : (\A k \in S : k <= n) => n = M
    BY <1>1, <1>7, <1>8
  <2> QED
    BY <1>5, <1>8, <2>1
<1>11. M = 0 \/ \E p \in WinRuns(v) : p[2] - p[1] + 1 = M
  <2> SUFFICES ASSUME M # 0 PROVE \E p \in WinRuns(v) : p[2] - p[1] + 1 = M
    OBVIOUS
  <2>1. PICK i \in 0 .. N : M = c[i]
    BY <1>3
  <2>2. M \in 0 .. i /\ \A j \in i - M + 1 .. i : v[j]
    BY <1>2, <2>1 DEF Counts
  <2> DEFINE p == <<i - M + 1, i>>
  <2>3. i - M + 1 \in 1 .. N /\ i \in 1 .. N
    BY <1>1, <1>9, <2>1, <2>2
  <2>4. p \in WinRuns(v)
    BY <1>6, <2>2, <2>3
  <2>5. p[2] - p[1] + 1 = M
    BY <1>1, <1>9, <2>2, <2>3
  <2> QED
    BY <2>4, <2>5
<1>12. ASSUME NEW p \in WinRuns(v) PROVE p[2] - p[1] + 1 <= M
  <2>1. p[1] \in 1 .. N /\ p[2] \in 1 .. N /\ \A i \in p[1] .. p[2] : v[i]
    BY <1>6
  <2>2. c[p[2]] \in S /\ p[2] \in 0 .. N
    BY <1>1, <1>3, <2>1
  <2>3. Counts(v, p[2], c[p[2]])
    BY <1>2, <2>2
  <2>4. c[p[2]] \in 0 .. N /\ c[p[2]] <= M
    BY <1>7, <1>8, <2>2
  <2>5. CASE c[p[2]] < p[2] - p[1] + 1
    <3>1. p[2] - c[p[2]] \in p[1] .. p[2] /\ c[p[2]] < p[2]
      BY <1>1, <2>1, <2>4, <2>5
    <3> QED
      BY <2>1, <2>3, <3>1 DEF Counts
  <2>6. CASE ~(c[p[2]] < p[2] - p[1] + 1)
    BY <1>1, <1>9, <2>1, <2>4, <2>6
  <2> QED
    BY <2>5, <2>6
<1>13. Longest(v, M)
  BY <1>11, <1>12 DEF Longest
<1>14. ASSUME NEW n \in 0 .. N, Longest(v, n) PROVE n = M
  <2>1. n <= M
    <3>1. n = 0 \/ \E p \in WinRuns(v) : p[2] - p[1] + 1 = n
      BY <1>14 DEF Longest
    <3> QED
      BY <1>1, <1>9, <1>12, <3>1
  <2>2. M <= n
    BY <1>1, <1>11, <1>14 DEF Longest
  <2> QED
    BY <1>1, <1>9, <2>1, <2>2
<1>15. (CHOOSE n \in 0 .. N : Longest(v, n)) = M
  BY <1>9, <1>13, <1>14
<1> QED
  BY <1>4, <1>10, <1>15

-----------------------------------------------------------------------------
(* The entries of the leaderboard.                                         *)

LEMMA ClosedFinite ==
    ASSUME NEW u
    PROVE  /\ IsFiniteSet(Closed(u)) /\ IsFiniteSet(WonRows(u)) /\ WonRows(u) \subseteq Closed(u)
           /\ IsFiniteSet(Closed(u) \ WonRows(u))
           /\ Cardinality(Closed(u)) \in Nat /\ Cardinality(WonRows(u)) \in Nat
           /\ Cardinality(Closed(u) \ WonRows(u)) \in Nat
<1>1. Closed(u) \in SUBSET BetIds /\ WonRows(u) \in SUBSET BetIds /\ WonRows(u) \subseteq Closed(u)
  BY DEF Closed, WonRows, Pending, Placed
<1>2. Closed(u) \ WonRows(u) \in SUBSET BetIds
  BY <1>1
<1> QED
  BY <1>1, <1>2, StoreAssumption, FS_Subset, FS_CardinalityType

\* The indices with a property are no more than the rows they stand for.
LEMMA IndicesCount ==
    ASSUME NEW S, NEW T, IsFiniteSet(T), NEW s, NEW A, \A i \in A : s[i] \in T,
           \A i, j \in A : s[i] = s[j] => i = j
    PROVE  IsFiniteSet(A) /\ Cardinality(A) <= Cardinality(T)
<1> DEFINE f == [i \in A |-> s[i]]
<1>1. f \in Injection(A, T)
  BY DEF Injection, IsInjective
<1> QED
  BY <1>1, FS_Injection

\* However many of the user's rows were fetched, each stands for one closed row.
LEMMA VerdictsCount ==
    ASSUME NEW u, NEW v \in Verdicts(u), NEW n \in 0 .. Cardinality(Closed(u))
    PROVE  EntryKept(UserEntry(SubSeq(v, 1, n)), u)
<1> DEFINE N == Cardinality(Closed(u))
           w == SubSeq(v, 1, n)
           A == {i \in 1 .. n : w[i]}
           B == (1 .. n) \ A
<1>1. N \in Nat /\ n \in Nat /\ n <= N
  <2>1. N \in Nat
    BY ClosedFinite
  <2> HIDE DEF N
  <2>2. n \in 0 .. N
    BY DEF N
  <2> QED
    BY <2>1, <2>2
<1>2. PICK s \in [1 .. N -> Closed(u)] :
            /\ Closed(u) = {s[i] : i \in 1 .. N}
            /\ v = [i \in 1 .. N |-> predictions[s[i]].status = "won"]
  BY DEF Verdicts
<1> HIDE DEF N
<1>3. v \in Seq(BOOLEAN) /\ Len(v) = N
  <2>1. \A i \in 1 .. N : (predictions[s[i]].status = "won") \in BOOLEAN
    BY Zenon
  <2>2. v \in [1 .. N -> BOOLEAN]
    BY <1>2, <2>1, Zenon
  <2> QED
    BY <1>1, <2>2
<1>4. w \in Seq(BOOLEAN) /\ Len(w) = n /\ \A i \in 1 .. n : w[i] = v[i]
  BY <1>1, <1>3
<1>5. \A i, j \in 1 .. N : s[i] = s[j] => i = j
  <2>1. s \in Surjection(1 .. N, Closed(u))
    BY <1>2 DEF Surjection
  <2>2. IsFiniteSet(1 .. N) /\ Cardinality(1 .. N) = N
    BY <1>1, FS_Interval
  <2>3. s \in Injection(1 .. N, Closed(u))
    BY <2>1, <2>2, FS_SurjSameCardinalityImpliesInj DEF N
  <2> QED
    BY <2>3 DEF Injection, IsInjective
<1> HIDE DEF w
<1>6. IsFiniteSet(A) /\ Cardinality(A) <= Cardinality(WonRows(u)) /\ Cardinality(A) \in Nat
  <2>1. \A i \in A : s[i] \in WonRows(u)
    <3> SUFFICES ASSUME NEW i \in A PROVE s[i] \in WonRows(u)
      OBVIOUS
    <3>1. i \in 1 .. N /\ v[i]
      BY <1>1, <1>4
    <3>2. s[i] \in Closed(u) /\ predictions[s[i]].status = "won"
      BY <1>2, <3>1
    <3> QED
      BY <3>2 DEF WonRows, Closed
  <2>2. \A i, j \in A : s[i] = s[j] => i = j
    BY <1>1, <1>5
  <2> HIDE DEF A
  <2> QED
    BY <2>1, <2>2, IndicesCount, ClosedFinite, FS_CardinalityType
<1>7. IsFiniteSet(B) /\ Cardinality(B) <= Cardinality(Closed(u) \ WonRows(u))
  <2>1. \A i \in B : s[i] \in Closed(u) \ WonRows(u)
    <3> SUFFICES ASSUME NEW i \in B PROVE s[i] \in Closed(u) \ WonRows(u)
      OBVIOUS
    <3>1. i \in 1 .. N /\ ~v[i]
      BY <1>1, <1>4
    <3>2. s[i] \in Closed(u) /\ predictions[s[i]].status # "won"
      BY <1>2, <3>1
    <3> QED
      BY <3>2 DEF WonRows
  <2>2. \A i, j \in B : s[i] = s[j] => i = j
    BY <1>1, <1>5
  <2> HIDE DEF B
  <2>3. IsFiniteSet(Closed(u) \ WonRows(u))
    BY ClosedFinite
  <2> QED
    BY <2>1, <2>2, <2>3, IndicesCount
<1>8. Cardinality(B) = n - Cardinality(A)
  <2>1. IsFiniteSet(1 .. n) /\ Cardinality(1 .. n) = n
    BY <1>1, FS_Interval
  <2>2. (1 .. n) \cap A = A
    OBVIOUS
  <2> HIDE DEF A
  <2>3. Cardinality((1 .. n) \ A) = Cardinality(1 .. n) - Cardinality((1 .. n) \cap A)
    BY <2>1, FS_Difference
  <2> QED
    BY <2>1, <2>2, <2>3
<1>9. UserEntry(w).verdicts = w /\ UserEntry(w).wins = Cardinality(A)
      /\ UserEntry(w).streak = CalcStreak(w)
  BY <1>4 DEF UserEntry
<1> HIDE DEF A, B
<1>10. EntryKept(UserEntry(w), u)
  BY <1>1, <1>4, <1>6, <1>7, <1>8, <1>9, StreakIsLongest, ClosedFinite DEF EntryKept
<1> QED
  BY <1>10 DEF w

\* Closed rows stay closed as they were: an entry stays true while the table grows.
LEMMA EntryStays ==
    ASSUME BoardsTypeOK, TableGrows, NEW e, NEW u, EntryKept(e, u)
    PROVE  EntryKept(e, u)'
<1>1. WonRows(u) \subseteq WonRows(u)' /\ Closed(u) \ WonRows(u) \subseteq Closed(u)' \ WonRows(u)'
  BY DEF TableGrows, WonRows, Closed, Pending
<1>2. IsFiniteSet(WonRows(u)') /\ IsFiniteSet(Closed(u)' \ WonRows(u)')
  <2>1. WonRows(u)' \in SUBSET BetIds /\ Closed(u)' \ WonRows(u)' \in SUBSET BetIds
    BY DEF Closed, WonRows, Placed
  <2> QED
    BY <2>1, StoreAssumption, FS_Subset
<1>3. /\ Cardinality(WonRows(u)) <= Cardinality(WonRows(u)')
      /\ Cardinality(Closed(u) \ WonRows(u)) <= Cardinality(Closed(u)' \ WonRows(u)')
  BY <1>1, <1>2, FS_Subset
<1>4. /\ Cardinality(WonRows(u)) \in Nat /\ Cardinality(WonRows(u)') \in Nat
      /\ Cardinality(Closed(u) \ WonRows(u)) \in Nat
      /\ Cardinality(Closed(u)' \ WonRows(u)') \in Nat
  BY <1>2, ClosedFinite, FS_CardinalityType
<1>5. Len(e.verdicts) \in Nat
  BY DEF EntryKept
<1> QED
  BY <1>3, <1>4, <1>5 DEF EntryKept

LEMMA EntriesStay ==
    ASSUME BoardsTypeOK, TableGrows, NEW c, EntriesKept(c)
    PROVE  EntriesKept(c)'
<1> SUFFICES ASSUME c.op = "board", NEW role \in Roles, c.entry[role] # NoEntry
             PROVE  EntryKept(c.entry[role], Shown(c.user, role))'
  BY DEF EntriesKept, Shown
<1>1. PICK e, u : e = c.entry[role] /\ u = Shown(c.user, role)
  OBVIOUS
<1>2. EntryKept(e, u)
  BY <1>1 DEF EntriesKept
<1>3. EntryKept(e, u)'
  BY <1>2, EntryStays
<1> QED
  BY <1>1, <1>3 DEF Shown

-----------------------------------------------------------------------------
(* What a comparison has read stays true while the table grows.            *)

LEMMA OverStays ==
    ASSUME BoardsTypeOK, BoardsTypeOK', TableGrows, NEW d \in Int, Over(d)
    PROVE  Over(d)'
<1>1. clock \in Nat /\ clock' \in Nat
  BY BoardsAssumption DEF BoardsTypeOK
<1> QED
  BY <1>1 DEF TableGrows, Over

\* A row new to a day that is over is a late one.
LEMMA NewRowsLate ==
    ASSUME BoardsTypeOK, BoardsTypeOK', TableGrows, NEW d \in Int, Over(d)
    PROVE  RowsOn(d) \subseteq RowsOn(d)' /\ RowsOn(d)' \ RowsOn(d) \subseteq late'
<1>1. RowsOn(d) \subseteq RowsOn(d)'
  BY DEF TableGrows, RowsOn, InDay
<1>2. ASSUME NEW b \in RowsOn(d)' \ RowsOn(d)
      PROVE  b \in late'
  <2>1. b \in Placed' \ Placed
    BY <1>2 DEF RowsOn, TableGrows, InDay
  <2>2. /\ predictions'[b].match \in Matches
        /\ Kickoff[predictions'[b].match] < (d + 1) * 24 + 11
    BY <1>2, <2>1 DEF RowsOn, TableGrows, InDay
  <2>3. Kickoff[predictions'[b].match] \in Nat /\ clock \in Nat /\ clock' \in Nat
    BY <2>2, BoardsAssumption DEF BoardsTypeOK
  <2>4. ~(clock' <= Kickoff[predictions'[b].match])
    BY <2>2, <2>3 DEF Over, TableGrows
  <2> QED
    BY <2>1, <2>4 DEF TableGrows
<1> QED
  BY <1>1, <1>2

LEMMA TallyStays ==
    ASSUME BoardsTypeOK, TableGrows, NEW u \in Users, NEW d \in Int, NEW t \in Tally,
           TallyKept(u, d, t)
    PROVE  TallyKept(u, d, t)'
<1>1. t.rows \subseteq RowsIn(u, d)'
  BY DEF TallyKept, TableGrows, RowsIn, RowsOn, InDay
<1>2. \A b \in t.rows \ t.open : b \in Placed /\ b \notin Pending /\ predictions'[b] = predictions[b]
  BY DEF TallyKept, TableGrows, RowsIn, RowsOn
<1>3. \A b \in t.won : b \in Placed /\ b \notin Pending /\ predictions'[b] = predictions[b]
  BY DEF TallyKept, TableGrows, WonRows, Pending
<1>4. (t.rows \ t.open) \cap Pending' = {}
  BY <1>2 DEF Pending, Placed
<1>5. t.won \subseteq WonRows(u)'
  BY <1>3 DEF TallyKept, TableGrows, WonRows
<1>6. (t.rows \ t.open) \cap WonRows(u)' \subseteq t.won
  BY <1>2 DEF TallyKept, WonRows
<1> QED
  BY <1>1, <1>4, <1>5, <1>6 DEF TallyKept

\* A query made now is kept so far.
LEMMA ReadKept ==
    ASSUME BoardsTypeOK, NEW u \in Users, NEW d \in Int
    PROVE  Read(u, d) \in Tally /\ TallyKept(u, d, Read(u, d))
  BY DEF Read, Tally, TallyKept, RowsIn, RowsOn, Pending, WonRows, Placed

LEMMA PkStays ==
    ASSUME BoardsTypeOK, BoardsTypeOK', TableGrows, NEW c \in PkState, PkKept(c)
    PROVE  PkKept(c)'
<1>1. c.day \in Int /\ c.user \in Players /\ c.tally \in [Roles -> Tally]
  BY DEF PkState
<1>2. Over(c.day)'
  BY <1>1, OverStays DEF PkKept
<1>3. c.told => c.day \in announced'
  BY DEF PkKept, TableGrows
<1>4. ASSUME NEW role \in Roles
      PROVE  /\ TallyKept(Shown(c.user, role), c.day, c.tally[role])'
             /\ role \in Have(c.pc) =>
                    RowsIn(Shown(c.user, role), c.day)' \ c.tally[role].rows \subseteq late'
             /\ c.told /\ c.day \notin guessed' => c.tally[role].open \subseteq late'
  <2> DEFINE u == Shown(c.user, role)
             t == c.tally[role]
  <2>1. u \in Users /\ t \in Tally
    BY <1>1, BoardsAssumption DEF Shown, Players, Roles
  <2>2. TallyKept(u, c.day, t)'
    <3> HIDE DEF u, t
    <3>1. TallyKept(u, c.day, t)
      BY DEF PkKept, u, t
    <3> QED
      BY <1>1, <2>1, <3>1, TallyStays
  <2>3. RowsIn(u, c.day)' \ RowsIn(u, c.day) \subseteq late'
    BY <1>1, NewRowsLate DEF PkKept, RowsIn, TableGrows, RowsOn
  <2>4. role \in Have(c.pc) => RowsIn(u, c.day)' \ t.rows \subseteq late'
    BY <2>3 DEF PkKept, TableGrows
  <2>5. c.told /\ c.day \notin guessed' => t.open \subseteq late'
    BY DEF PkKept, TableGrows
  <2> QED
    BY <2>2, <2>4, <2>5 DEF Shown
<1> QED
  BY <1>2, <1>3, <1>4 DEF PkKept, Shown, Have

LEMMA DaysStay ==
    ASSUME BoardsTypeOK, BoardsTypeOK', TableGrows, NEW d \in Int, Over(d),
           RowsOn(d) \cap Pending \subseteq late
    PROVE  Over(d)' /\ RowsOn(d)' \cap Pending' \subseteq late'
<1>1. Over(d)'
  BY OverStays
<1>2. ASSUME NEW b \in RowsOn(d)' \cap Pending' PROVE b \in late'
  <2>1. CASE b \in RowsOn(d)
    <3>1. b \in Pending
      BY <1>2, <2>1 DEF RowsOn, TableGrows, Pending
    <3> QED
      BY <2>1, <3>1 DEF TableGrows
  <2>2. CASE b \notin RowsOn(d)
    BY <1>2, <2>2, NewRowsLate
  <2> QED
    BY <2>1, <2>2
<1> QED
  BY <1>1, <1>2

\* A step that leaves the calls and the announced days alone.
LEMMA TableStepKeeps ==
    ASSUME BoardsInv, BoardsTypeOK', TableGrows, call' = call, UNCHANGED <<announced, guessed>>
    PROVE  BoardsInv'
<1>1. DaysKept'
  <2> SUFFICES ASSUME NEW d \in announced
               PROVE  Over(d)' /\ (d \notin guessed => (RowsOn(d) \cap Pending \subseteq late)')
    BY DEF DaysKept
  <2>1. d \in Int /\ Over(d) /\ (d \notin guessed => RowsOn(d) \cap Pending \subseteq late)
    BY DEF BoardsInv, BoardsTypeOK, DaysKept
  <2>2. Over(d)'
    BY <2>1, OverStays DEF BoardsInv
  <2>3. CASE d \notin guessed
    BY <2>1, <2>2, <2>3, DaysStay DEF BoardsInv
  <2> QED
    BY <2>2, <2>3
<1>2. ASSUME NEW r \in Calls, Pk(r)' PROVE PkKept(call[r])' /\ PkAnswered(call[r])'
  <2>1. call[r] \in PkState
    BY <1>2 DEF Pk, BoardsInv, BoardsTypeOK, CallOK, NewCall, Failed, ListState
  <2>2. PkKept(call[r]) /\ PkAnswered(call[r])
    BY <1>2 DEF Pk, BoardsInv
  <2>3. PICK c \in PkState : c = call[r]
    BY <2>1
  <2>4. PkKept(c)'
    BY <2>2, <2>3, PkStays DEF BoardsInv
  <2> QED
    BY <2>2, <2>3, <2>4 DEF PkKept, PkAnswered, Over, TallyKept
<1>3. ASSUME NEW r \in Calls PROVE EntriesKept(call[r])'
  <2>1. PICK c : c = call[r] /\ EntriesKept(c)
    BY DEF BoardsInv
  <2>2. EntriesKept(c)'
    BY <2>1, EntriesStay DEF BoardsInv
  <2> QED
    BY <2>1, <2>2 DEF EntriesKept
<1> QED
  BY <1>1, <1>2, <1>3 DEF BoardsInv, SoleNamed, Sole

-----------------------------------------------------------------------------
(* The comparison's own steps.                                             *)

\* decidePKWinner, for any numbers of wins: a role is named exactly when it has more
\* wins than both others.
THEOREM WinnerOf ==
    ASSUME NEW w \in [Roles -> Nat]
    PROVE  /\ DecidePKWinner(w) \in Roles \cup {"tie"}
           /\ \A role \in Roles :
                  (DecidePKWinner(w) = role) <=> \A other \in Roles \ {role} : w[role] > w[other]
<1> DEFINE values  == {w[role] : role \in Roles}
           top     == CHOOSE n \in values : \A role \in Roles : w[role] <= n
           leaders == {role \in Roles : w[role] = top}
           sole    == CHOOSE role \in Roles : role \in leaders
<1>1. w["user"] \in Nat /\ w["expert"] \in Nat /\ w["ai"] \in Nat
  BY DEF Roles
<1>2. \E n \in values : \A role \in Roles : w[role] <= n
  <2>1. \E x \in Roles : \A role \in Roles : w[role] <= w[x]
    BY <1>1 DEF Roles
  <2> QED
    BY <2>1
<1>3. top \in values /\ \A role \in Roles : w[role] <= top
  <2> HIDE DEF values
  <2> QED
    BY <1>2
<1>4. top \in Nat /\ leaders \subseteq Roles /\ leaders # {}
  BY <1>3
<1> HIDE DEF values, top
<1>5. IsFiniteSet(leaders) /\ Cardinality(leaders) \in Nat
  <2>1. IsFiniteSet({"user", "expert", "ai"})
    <3>1. IsFiniteSet({"user"})
      BY FS_Singleton
    <3>2. IsFiniteSet({"user"} \cup {"expert"})
      BY <3>1, FS_AddElement
    <3>3. IsFiniteSet(({"user"} \cup {"expert"}) \cup {"ai"})
      BY <3>2, FS_AddElement
    <3>4. {"user", "expert", "ai"} = ({"user"} \cup {"expert"}) \cup {"ai"}
      OBVIOUS
    <3> QED
      BY <3>3, <3>4
  <2> QED
    BY <1>4, <2>1, FS_Subset, FS_CardinalityType DEF Roles
<1>6. ASSUME Cardinality(leaders) > 1 PROVE \A x \in leaders : \E y \in leaders : y # x
  <2>1. ASSUME NEW x \in leaders, ~ \E y \in leaders : y # x PROVE FALSE
    <3>1. leaders = {x}
      BY <2>1
    <3> QED
      BY <1>6, <3>1, FS_Singleton
  <2> QED
    BY <2>1
<1>7. ASSUME Cardinality(leaders) <= 1 PROVE leaders = {sole}
  <2>1. sole \in leaders
    BY <1>4
  <2>2. ASSUME NEW y \in leaders, y # sole PROVE FALSE
    <3>1. leaders \ {sole} # {} /\ IsFiniteSet(leaders \ {sole})
      BY <1>5, <2>2, FS_Subset
    <3>2. Cardinality(leaders \ {sole}) = Cardinality(leaders) - 1
      BY <1>5, <2>1, FS_RemoveElement
    <3>3. Cardinality(leaders \ {sole}) # 0
      BY <3>1, FS_EmptySet
    <3>4. Cardinality(leaders \ {sole}) \in Nat
      BY <3>1, FS_CardinalityType
    <3> QED
      BY <1>5, <1>7, <3>2, <3>3, <3>4
  <2> QED
    BY <2>1, <2>2
<1>8. DecidePKWinner(w) = IF Cardinality(leaders) > 1 THEN "tie" ELSE sole
  BY DEF DecidePKWinner, top, values
<1>9. \A role \in Roles : w[role] \in Nat
  OBVIOUS
<1>10. CASE Cardinality(leaders) > 1
  <2>1. DecidePKWinner(w) = "tie" /\ "tie" \notin Roles
    BY <1>8, <1>10 DEF Roles
  <2>2. \A role \in Roles : ~ \A other \in Roles \ {role} : w[role] > w[other]
    <3>1. TAKE role \in Roles
    <3>2. CASE role \in leaders
      <4>1. PICK y \in leaders : y # role
        BY <1>6, <1>10, <3>2
      <4> QED
        BY <1>9, <3>2, <4>1
    <3>3. CASE role \notin leaders
      <4>1. PICK y \in leaders : TRUE
        BY <1>4
      <4> QED
        BY <1>3, <1>4, <1>9, <3>3, <4>1
    <3> QED
      BY <3>2, <3>3
  <2> QED
    BY <2>1, <2>2
<1>11. CASE Cardinality(leaders) <= 1
  <2>1. DecidePKWinner(w) = sole /\ leaders = {sole}
    BY <1>5, <1>7, <1>8, <1>11
  <2> HIDE DEF sole
  <2>2. sole \in Roles /\ w[sole] = top
    BY <2>1, <1>4
  <2>3. \A other \in Roles \ {sole} : w[sole] > w[other]
    <3>1. \A other \in Roles \ {sole} : w[other] <= top /\ w[other] # top
      BY <1>3, <2>1
    <3> QED
      BY <1>4, <1>9, <2>2, <3>1
  <2>4. \A role \in Roles \ {sole} : ~(w[role] > w[sole])
    BY <1>4, <1>9, <2>2, <2>3
  <2> QED
    BY <2>1, <2>2, <2>3, <2>4
<1> QED
  BY <1>5, <1>10, <1>11

LEMMA WinsType ==
    ASSUME NEW tally \in [Roles -> Tally]
    PROVE  Wins(tally) \in [Roles -> Nat]
<1>1. \A role \in Roles : IsFiniteSet(tally[role].won)
  BY StoreAssumption, FS_Subset DEF Tally
<1> QED
  BY <1>1, FS_CardinalityType DEF Wins

\* The new state c of a call is one the invariant allows.
Allowed(c) == \/ c \in PkState /\ PkKept(c) /\ PkAnswered(c)
              \/ CallOK(c) /\ c.op # "pk" /\ SoleNamed(c) /\ EntriesKept(c)

LEMMA MovePkUser ==
    ASSUME BoardsInv, NEW r \in Calls, NEW u \in Players, PkUser(r, u)
    PROVE  \E c : Allowed(c) /\ call' = [call EXCEPT ![r] = c]
<1> DEFINE d == LastDay(clock)
           t == Read(u, d)
           c == [op |-> "pk", pc |-> IF t.rows = {} THEN "norows" ELSE "expert",
                 user |-> u, day |-> d, told |-> d \in announced, winner |-> "none",
                 tally |-> [role \in Roles |-> IF role = "user" THEN t ELSE NoTally]]
<1>1. call' = [call EXCEPT ![r] = c]
  BY DEF PkUser
<1>2. clock \in Nat /\ u \in Users
  BY BoardsAssumption DEF BoardsInv, BoardsTypeOK, Players
<1>3. d \in Int /\ Over(d)
  BY <1>2, LastDayIsLast DEF Over
<1> HIDE DEF d
<1>4. t \in Tally /\ TallyKept(u, d, t)
  BY <1>2, <1>3, ReadKept DEF BoardsInv
<1>5. t.rows = RowsIn(u, d) /\ t.open = RowsIn(u, d) \cap Pending
  BY DEF Read
<1> HIDE DEF t
<1>6. NoTally \in Tally /\ \A v \in Users : TallyKept(v, d, NoTally)
  BY DEF NoTally, Tally, TallyKept
<1>7. c \in PkState
  BY <1>3, <1>4, <1>6 DEF PkState
<1>8. /\ c.pc \in {"norows", "expert"} /\ c.user = u /\ c.day = d
      /\ c.told = (d \in announced) /\ c.tally["user"] = t
      /\ \A role \in Roles \ {"user"} : c.tally[role] = NoTally
  BY DEF Roles
<1> HIDE DEF c
<1>9. \A role \in Roles : Shown(u, role) \in Users
  BY <1>2, BoardsAssumption DEF Shown, Roles
<1>10. ASSUME NEW role \in Roles
       PROVE  /\ TallyKept(Shown(u, role), d, c.tally[role])
              /\ role \in Have(c.pc) => RowsIn(Shown(u, role), d) \ c.tally[role].rows \subseteq late
              /\ c.told /\ d \notin guessed => c.tally[role].open \subseteq late
  <2>1. CASE role = "user"
    <3>1. Shown(u, role) = u /\ c.tally[role] = t
      BY <1>8, <2>1 DEF Shown
    <3>2. c.told /\ d \notin guessed => t.open \subseteq late
      BY <1>5, <1>8 DEF BoardsInv, DaysKept, RowsIn
    <3> QED
      BY <1>4, <1>5, <3>1, <3>2
  <2>2. CASE role # "user"
    <3>1. role \notin Have(c.pc) /\ c.tally[role] = NoTally
      BY <1>8, <2>2 DEF Have
    <3> QED
      BY <1>6, <1>9, <3>1 DEF NoTally
  <2> QED
    BY <2>1, <2>2
<1>11. PkKept(c)
  BY <1>3, <1>8, <1>10 DEF PkKept
<1>12. PkAnswered(c)
  BY <1>8 DEF PkAnswered
<1> QED
  BY <1>1, <1>7, <1>11, <1>12 DEF Allowed, c

\* The second and the third query: role is read now, the others as before.
LEMMA ReadRole ==
    ASSUME BoardsInv, NEW c \in PkState, PkKept(c), NEW role \in Roles \ {"user"},
           NEW e \in PkState, e.user = c.user, e.day = c.day, e.told = c.told,
           e.tally = [c.tally EXCEPT ![role] = Read(Shown(c.user, role), c.day)],
           Have(e.pc) \subseteq Have(c.pc) \cup {role}
    PROVE  PkKept(e)
<1> DEFINE u == Shown(c.user, role)
<1>1. u \in Users /\ c.day \in Int /\ c.tally \in [Roles -> Tally]
  BY BoardsAssumption DEF PkState, Shown, Roles
<1>2. TallyKept(u, c.day, Read(u, c.day))
  BY <1>1, ReadKept DEF BoardsInv
<1>3. /\ Read(u, c.day).rows = RowsIn(u, c.day)
      /\ Read(u, c.day).open = RowsIn(u, c.day) \cap Pending
  BY DEF Read
<1>4. c.told /\ c.day \notin guessed => Read(u, c.day).open \subseteq late
  BY <1>3 DEF BoardsInv, DaysKept, PkKept, RowsIn
<1>5. /\ e.tally[role] = Read(u, c.day)
      /\ \A other \in Roles \ {role} : e.tally[other] = c.tally[other]
  BY <1>1
<1> QED
  BY <1>2, <1>3, <1>4, <1>5 DEF PkKept, Over

LEMMA PkCall ==
    ASSUME BoardsInv, NEW r \in Calls, call[r].op = "pk"
    PROVE  call[r] \in PkState /\ PkKept(call[r]) /\ PkAnswered(call[r])
  BY DEF BoardsInv, BoardsTypeOK, CallOK, NewCall, Failed, ListState, Pk

LEMMA MovePkExpert ==
    ASSUME BoardsInv, NEW r \in Calls, PkExpert(r)
    PROVE  \E c : Allowed(c) /\ call' = [call EXCEPT ![r] = c]
<1>1. /\ call[r].op = "pk" /\ call[r].pc = "expert" /\ call = [q \in Calls |-> call[q]]
      /\ call' = [call EXCEPT ![r].pc = "ai",
                              ![r].tally["expert"] = Read(ExpertRobot, call[r].day)]
  BY DEF PkExpert, AtPk, BoardsInv, BoardsTypeOK
<1>2. PICK c \in PkState : c = call[r] /\ PkKept(c)
  BY <1>1, PkCall
<1> DEFINE tally == [c.tally EXCEPT !["expert"] = Read(ExpertRobot, c.day)]
           e == [c EXCEPT !.pc = "ai", !.tally = tally]
<1>3. call' = [call EXCEPT ![r] = e]
  BY <1>1, <1>2
<1>4. c.day \in Int /\ c.tally \in [Roles -> Tally]
  BY DEF PkState
<1>5. Read(ExpertRobot, c.day) \in Tally
  BY <1>4, ReadKept, BoardsAssumption DEF BoardsInv
<1>6. tally \in [Roles -> Tally]
  BY <1>4, <1>5
<1>7. tally = [c.tally EXCEPT !["expert"] = Read(Shown(c.user, "expert"), c.day)]
  BY DEF Shown
<1> HIDE DEF tally
<1>8. /\ e \in PkState /\ e.pc = "ai" /\ e.user = c.user /\ e.day = c.day
      /\ e.told = c.told /\ e.tally = tally
  BY <1>6 DEF PkState
<1> HIDE DEF e
<1>9. Have(e.pc) \subseteq Have(c.pc) \cup {"expert"}
  BY <1>1, <1>2, <1>8 DEF Have
<1>10. PkKept(e)
  BY <1>2, <1>7, <1>8, <1>9, ReadRole DEF Roles
<1> QED
  BY <1>3, <1>8, <1>10 DEF Allowed, PkAnswered

LEMMA MovePkAi ==
    ASSUME BoardsInv, NEW r \in Calls, PkAi(r)
    PROVE  \E c : Allowed(c) /\ call' = [call EXCEPT ![r] = c]
<1>1. call[r].op = "pk" /\ call[r].pc = "ai" /\ call = [q \in Calls |-> call[q]]
  BY DEF PkAi, AtPk, BoardsInv, BoardsTypeOK
<1>2. PICK c \in PkState : c = call[r] /\ PkKept(c)
  BY <1>1, PkCall
<1> DEFINE tally == [c.tally EXCEPT !["ai"] = Read(AiRobot, c.day)]
           e == [c EXCEPT !.pc = IF HasPending(tally) THEN "waiting" ELSE "decided",
                          !.tally = tally,
                          !.winner = IF HasPending(tally) THEN "none"
                                     ELSE DecidePKWinner(Wins(tally))]
<1>3. call' = [call EXCEPT ![r] = e]
  BY <1>1, <1>2 DEF PkAi
<1>4. c.day \in Int /\ c.tally \in [Roles -> Tally]
  BY DEF PkState
<1>5. Read(AiRobot, c.day) \in Tally
  BY <1>4, ReadKept, BoardsAssumption DEF BoardsInv
<1>6. tally \in [Roles -> Tally]
  BY <1>4, <1>5
<1>7. tally = [c.tally EXCEPT !["ai"] = Read(Shown(c.user, "ai"), c.day)]
  BY DEF Shown
<1> HIDE DEF tally
<1>8. DecidePKWinner(Wins(tally)) \in Roles \cup {"tie"}
  BY <1>6, WinsType, WinnerOf
<1>9. /\ e \in PkState /\ e.user = c.user /\ e.day = c.day /\ e.told = c.told /\ e.tally = tally
      /\ e.pc \in {"waiting", "decided"}
      /\ e.pc = "decided" => ~HasPending(tally) /\ e.winner = DecidePKWinner(Wins(tally))
  BY <1>6, <1>8 DEF PkState
<1> HIDE DEF e
<1>10. Have(e.pc) \subseteq Have(c.pc) \cup {"ai"}
  BY <1>1, <1>2, <1>9 DEF Have, Roles
<1>11. PkKept(e)
  BY <1>2, <1>7, <1>9, <1>10, ReadRole DEF Roles
<1> QED
  BY <1>3, <1>9, <1>11 DEF Allowed, PkAnswered

-----------------------------------------------------------------------------
(* The steps of the list and of the leaderboard only need their type.      *)

LEMMA MoveListRow ==
    ASSUME NEW r \in Calls, NEW b \in BetIds, ListRow(r, b)
    PROVE  \E c : Allowed(c) /\ call' = [call EXCEPT ![r] = c]
<1> DEFINE c == [op |-> "list", pc |-> IF b \in Pending THEN "listed" ELSE "result",
                 bet |-> b, right |-> [role \in Roles |-> FALSE], winner |-> "none"]
<1>1. call' = [call EXCEPT ![r] = c]
  BY DEF ListRow
<1>2. c \in ListState /\ c.op # "pk"
  BY DEF ListState
<1> QED
  BY <1>1, <1>2 DEF Allowed, CallOK, SoleNamed, EntriesKept

LEMMA ListWinnerType ==
    ASSUME NEW user, NEW ai, NEW n
    PROVE  ListWinner(user, ai, n) \in Roles \cup {"tie"}
  BY DEF ListWinner, Roles

\* Who alone is right is named, and who is named is right.
LEMMA ListWinnerSole ==
    ASSUME NEW user \in BOOLEAN, NEW ai \in BOOLEAN, NEW n \in Nat,
           NEW right, right["user"] = user, right["ai"] = ai, right["expert"] = (n > 0)
    PROVE  Sole(right, ListWinner(user, ai, n))
<1> DEFINE R == {role \in Roles : right[role]}
           w == ListWinner(user, ai, n)
<1>1. w \in Roles => w \in R
  BY DEF ListWinner, Roles
<1>2. ASSUME NEW x, R = {x} PROVE w \in R
  <2>1. x \in Roles /\ right[x] /\ \A y \in Roles \ {x} : ~right[y]
    BY <1>2
  <2>2. CASE x = "user"
    BY <1>2, <2>1, <2>2 DEF ListWinner, Roles
  <2>3. CASE x = "ai"
    BY <1>2, <2>1, <2>3 DEF ListWinner, Roles
  <2>4. CASE x = "expert"
    BY <1>2, <2>1, <2>4 DEF ListWinner, Roles
  <2> QED
    BY <2>1, <2>2, <2>3, <2>4 DEF Roles
<1>3. Cardinality(R) = 1 => \E x : R = {x}
  <2>1. IsFiniteSet(Roles)
    <3>1. IsFiniteSet({"user"}) /\ IsFiniteSet({"user"} \cup {"expert"})
      BY FS_Singleton, FS_AddElement
    <3>2. IsFiniteSet(({"user"} \cup {"expert"}) \cup {"ai"})
      BY <3>1, FS_AddElement
    <3> QED
      BY <3>2, Roles = ({"user"} \cup {"expert"}) \cup {"ai"} DEF Roles
  <2>2. IsFiniteSet(R)
    BY <2>1, FS_Subset
  <2> QED
    BY <2>2, FS_Singleton
<1> QED
  BY <1>1, <1>2, <1>3 DEF Sole

LEMMA MoveListed ==
    ASSUME BoardsInv, NEW r \in Calls, call[r].op = "list", NEW d, NEW ais \in BOOLEAN,
           NEW xs \in SUBSET Experts, Listed(r, d, ais, xs)
    PROVE  \E c : Allowed(c) /\ call' = [call EXCEPT ![r] = c]
<1>1. call[r] \in ListState
  BY DEF BoardsInv, BoardsTypeOK, CallOK, NewCall, Failed, PkState
<1> DEFINE Answer(right, winner) ==
             call' = [call EXCEPT ![r] = [@ EXCEPT !.pc = "compared", !.right = right,
                                                   !.winner = winner]]
<1>2. \/ \E right \in [Roles -> BOOLEAN], winner \in Roles \cup {"tie"} :
               Answer(right, winner) /\ Sole(right, winner)
      \/ call' = [call EXCEPT ![r] = [@ EXCEPT !.pc = "listed", !.winner = "tie"]]
  <2> DEFINE row  == predictions[call[r].bet]
             w    == <<row.match, row.subType>>
             user == row.status = "won"
             code == d.draw[row.subType]
             ai   == ais /\ AiTip[w] = code
             n    == Cardinality(RightExperts(w, code) \cap xs)
             some == n > 0
             right == [role \in Roles |-> CASE role = "user" -> user
                                            [] role = "ai" -> ai
                                            [] OTHER -> some]
  <2>1. \/ Answer(right, ListWinner(user, ai, n))
        \/ call' = [call EXCEPT ![r] = [@ EXCEPT !.pc = "listed", !.winner = "tie"]]
    BY DEF Listed
  <2>2. n \in Nat /\ some \in BOOLEAN
    <3>1. RightExperts(w, code) \cap xs \subseteq Experts
      OBVIOUS
    <3>2. Cardinality(RightExperts(w, code) \cap xs) \in Nat
      BY <3>1, BoardsAssumption, FS_Subset, FS_CardinalityType
    <3> QED
      BY <3>2
  <2>3. user \in BOOLEAN /\ ai \in BOOLEAN
    BY Zenon
  <2>4. ListWinner(user, ai, n) \in Roles \cup {"tie"}
    BY ListWinnerType
  <2> HIDE DEF user, ai, n
  <2>8. some = (n > 0)
    OBVIOUS
  <2> HIDE DEF some
  <2>5. \A role \in Roles : (CASE role = "user" -> user [] role = "ai" -> ai [] OTHER -> some)
                             \in BOOLEAN
    BY <2>2, <2>3, Zenon
  <2>6. right \in [Roles -> BOOLEAN]
    BY <2>5, Zenon
  <2>7. right["user"] = user /\ right["ai"] = ai /\ right["expert"] = some
    BY Zenon DEF Roles
  <2>9. Sole(right, ListWinner(user, ai, n))
    <3> HIDE DEF right
    <3> QED
      BY <2>2, <2>3, <2>7, <2>8, ListWinnerSole
  <2> HIDE DEF right, Answer
  <2> QED
    BY <2>1, <2>4, <2>6, <2>9
<1>3. ASSUME NEW right \in [Roles -> BOOLEAN], NEW winner \in Roles \cup {"tie"},
             Answer(right, winner), Sole(right, winner)
      PROVE  \E c : Allowed(c) /\ call' = [call EXCEPT ![r] = c]
  <2> DEFINE c == [call[r] EXCEPT !.pc = "compared", !.right = right, !.winner = winner]
  <2>1. call' = [call EXCEPT ![r] = c]
    BY <1>3
  <2>2. c \in ListState /\ c.op # "pk" /\ c.right = right /\ c.winner = winner
    BY <1>1, <1>3 DEF ListState
  <2>3. SoleNamed(c) /\ EntriesKept(c)
    BY <1>1, <1>3, <2>2 DEF SoleNamed, EntriesKept, ListState
  <2> QED
    BY <2>1, <2>2, <2>3 DEF Allowed, CallOK
<1>4. CASE call' = [call EXCEPT ![r] = [@ EXCEPT !.pc = "listed", !.winner = "tie"]]
  <2> DEFINE c == [call[r] EXCEPT !.pc = "listed", !.winner = "tie"]
  <2>1. call' = [call EXCEPT ![r] = c]
    BY <1>4
  <2>2. c \in ListState /\ c.op # "pk" /\ c.pc = "listed"
    BY <1>1 DEF ListState
  <2>3. SoleNamed(c) /\ EntriesKept(c)
    BY <1>1, <2>2 DEF SoleNamed, EntriesKept, ListState
  <2> QED
    BY <2>1, <2>2, <2>3 DEF Allowed, CallOK
<1> QED
  BY <1>2, <1>3, <1>4

LEMMA MoveBoard ==
    ASSUME NEW r \in Calls, NEW u \in Players, Board(r, u)
    PROVE  \E c : Allowed(c) /\ call' = [call EXCEPT ![r] = c]
<1> DEFINE c == [op |-> "board", user |-> u, todo |-> Roles, entry |-> [role \in Roles |-> NoEntry]]
<1>1. call' = [call EXCEPT ![r] = c]
  BY DEF Board
<1>2. CallOK(c) /\ c.op # "pk"
  BY DEF CallOK
<1>3. EntriesKept(c)
  BY DEF EntriesKept
<1> QED
  BY <1>1, <1>2, <1>3 DEF Allowed, SoleNamed

LEMMA MoveBoardEntry ==
    ASSUME BoardsInv, NEW r \in Calls, NEW role \in Roles, BoardEntry(r, role)
    PROVE  \E c : Allowed(c) /\ call' = [call EXCEPT ![r] = c]
<1> DEFINE u == Shown(call[r].user, role)
<1>1. PICK e : /\ call' = [call EXCEPT ![r] = [op |-> "board", user |-> @.user, todo |-> @.todo \ {role},
                                               entry |-> [@.entry EXCEPT ![role] = e]]]
               /\ e = NoEntry \/ \E v \in Verdicts(u), n \in 0 .. Cardinality(Closed(u)) :
                                     e = UserEntry(SubSeq(v, 1, n))
  BY DEF BoardEntry
<1>2. call[r].op = "board" /\ CallOK(call[r]) /\ EntriesKept(call[r])
  BY DEF BoardEntry, BoardsInv, BoardsTypeOK
<1>3. call[r].user \in Players /\ call[r].todo \subseteq Roles /\ DOMAIN call[r].entry = Roles
  BY <1>2 DEF CallOK, NewCall, Failed, PkState, ListState
<1>4. e # NoEntry => EntryKept(e, u)
  BY <1>1, VerdictsCount
<1> DEFINE entry == [call[r].entry EXCEPT ![role] = e]
           c == [op |-> "board", user |-> call[r].user, todo |-> call[r].todo \ {role},
                 entry |-> entry]
<1>5. call' = [call EXCEPT ![r] = c]
  BY <1>1
<1>6. CallOK(c) /\ c.op # "pk"
  BY <1>3 DEF CallOK
<1>7. entry[role] = e /\ \A other \in Roles \ {role} : entry[other] = call[r].entry[other]
  BY <1>3
<1> HIDE DEF entry, u
<1>8. EntriesKept(c)
  <2> SUFFICES ASSUME NEW x \in Roles, entry[x] # NoEntry
               PROVE  EntryKept(entry[x], Shown(call[r].user, x))
    BY DEF EntriesKept
  <2>1. CASE x = role
    BY <1>4, <1>7, <2>1 DEF u
  <2>2. CASE x # role
    BY <1>2, <1>7, <2>2 DEF EntriesKept
  <2> QED
    BY <2>1, <2>2
<1> QED
  BY <1>5, <1>6, <1>8 DEF Allowed, SoleNamed

LEMMA MoveFails ==
    ASSUME NEW r \in Calls, PkFails(r) \/ BoardFails(r)
    PROVE  \E c : Allowed(c) /\ call' = [call EXCEPT ![r] = c]
<1>1. call' = [call EXCEPT ![r] = Failed]
  BY DEF PkFails, BoardFails
<1>2. CallOK(Failed) /\ Failed.op # "pk"
  BY DEF CallOK, Failed
<1> QED
  BY <1>1, <1>2 DEF Allowed, SoleNamed, EntriesKept, Failed

\* A step of a call: the table and the days stay, one call moves as it may.
LEMMA CallStepMoves ==
    ASSUME BoardsInv, NEW r \in Calls, PkStep(r) \/ ListStep(r) \/ BoardStep(r)
    PROVE  /\ UNCHANGED <<predictions, results, published, clock, late, announced, guessed, stores>>
           /\ readFaults' \in Nat
           /\ \E c : Allowed(c) /\ call' = [call EXCEPT ![r] = c]
<1>1. readFaults \in Nat
  BY DEF BoardsInv, BoardsTypeOK
<1>2. CASE PkStep(r)
  <2>1. UNCHANGED <<predictions, results, published, clock, late, announced, guessed, stores, readFaults>>
    BY <1>2 DEF PkStep, PkUser, PkExpert, PkAi, PkFails, Start, AtPk, rowsVars
  <2>2. \E c : Allowed(c) /\ call' = [call EXCEPT ![r] = c]
    BY <1>2, MovePkUser, MovePkExpert, MovePkAi, MoveFails DEF PkStep
  <2> QED
    BY <1>1, <2>1, <2>2
<1>3. CASE ListStep(r)
  <2>1. CASE \E b \in BetIds : ListRow(r, b)
    <3>1. UNCHANGED <<predictions, results, published, clock, late, announced, guessed, stores, readFaults>>
      BY <2>1 DEF ListRow, Start, rowsVars
    <3> QED
      BY <1>1, <2>1, <3>1, MoveListRow
  <2>2. CASE ListResult(r)
    <3>1. UNCHANGED <<predictions, results, published, clock, late, announced, guessed, stores, readFaults>>
      BY <2>2 DEF ListResult, AtList, rowsVars
    <3>2. call[r].op = "list" /\ Listed(r, results[predictions[call[r].bet].match], TRUE, Experts)
      BY <2>2 DEF ListResult, AtList
    <3>3. \E c : Allowed(c) /\ call' = [call EXCEPT ![r] = c]
      BY <3>2, MoveListed
    <3> QED
      BY <1>1, <3>1, <3>3
  <2>3. CASE ListFails(r)
    <3>1. /\ UNCHANGED <<predictions, results, published, clock, late, announced, guessed, stores>>
          /\ readFaults' = readFaults + 1 /\ call[r].op = "list"
      BY <2>3 DEF ListFails, AtList, rowsVars
    <3>2. PICK d \in {results[predictions[call[r].bet].match], NoResult}, ais \in BOOLEAN,
               xs \in SUBSET Experts : Listed(r, d, ais, xs)
      BY <2>3 DEF ListFails
    <3>3. \E c : Allowed(c) /\ call' = [call EXCEPT ![r] = c]
      BY <3>1, <3>2, MoveListed
    <3>4. readFaults' \in Nat
      BY <1>1, <3>1
    <3> QED
      BY <3>1, <3>3, <3>4
  <2> QED
    BY <1>3, <2>1, <2>2, <2>3 DEF ListStep
<1>4. CASE BoardStep(r)
  <2>1. UNCHANGED <<predictions, results, published, clock, late, announced, guessed, stores>>
    BY <1>4 DEF BoardStep, Board, BoardEntry, BoardFails, Start, rowsVars
  <2>2. readFaults' \in Nat
    BY <1>1, <1>4 DEF BoardStep, Board, BoardEntry, BoardFails, Start, Fetched
  <2>3. \E c : Allowed(c) /\ call' = [call EXCEPT ![r] = c]
    BY <1>4, MoveBoard, MoveBoardEntry, MoveFails DEF BoardStep
  <2> QED
    BY <2>1, <2>2, <2>3
<1> QED
  BY <1>2, <1>3, <1>4

LEMMA CallStepKeeps ==
    ASSUME BoardsInv, NEW r \in Calls, PkStep(r) \/ ListStep(r) \/ BoardStep(r)
    PROVE  BoardsInv'
<1>1. /\ UNCHANGED <<predictions, results, published, clock, late, announced, guessed, stores>>
      /\ readFaults' \in Nat
  BY CallStepMoves
<1>2. PICK c : Allowed(c) /\ call' = [call EXCEPT ![r] = c]
  BY CallStepMoves
<1>3. call = [q \in Calls |-> call[q]]
  BY DEF BoardsInv, BoardsTypeOK
<1>4. call'[r] = c /\ \A q \in Calls \ {r} : call'[q] = call[q]
  BY <1>2, <1>3
<1>5. CallOK(c)
  BY <1>2 DEF Allowed, CallOK
<1>6. BoardsTypeOK'
  <2>1. call' = [q \in Calls |-> call'[q]]
    BY <1>2, <1>3
  <2>2. \A q \in Calls : CallOK(call'[q])
    BY <1>4, <1>5 DEF BoardsInv, BoardsTypeOK
  <2>3. (\A q \in Calls : CallOK(call[q]))'
    BY <2>2 DEF CallOK
  <2> QED
    BY <1>1, <2>1, <2>3 DEF BoardsInv, BoardsTypeOK, StoreTypeOK
<1>7. TableGrows
  BY <1>1, QuietTable DEF BoardsInv
<1>8. DaysKept'
  BY <1>1 DEF BoardsInv, DaysKept, Over, RowsOn, Pending, Placed
<1>9. ASSUME NEW q \in Calls, Pk(q)' PROVE PkKept(call[q])' /\ PkAnswered(call[q])'
  <2>1. PICK e \in PkState : e = call'[q] /\ PkKept(e) /\ PkAnswered(e)
    <3>1. CASE q = r
      BY <1>2, <1>4, <1>9, <3>1 DEF Allowed, Pk
    <3>2. CASE q # r
      BY <1>4, <1>9, <3>2, PkCall DEF Pk
    <3> QED
      BY <3>1, <3>2
  <2>2. PkKept(e)'
    BY <1>6, <1>7, <2>1, PkStays DEF BoardsInv
  <2> QED
    BY <2>1, <2>2 DEF PkKept, PkAnswered, Over, TallyKept
<1>10. ASSUME NEW q \in Calls PROVE SoleNamed(call[q])'
  <2>1. SoleNamed(c)
    BY <1>2 DEF Allowed, PkState, SoleNamed
  <2>2. SoleNamed(call'[q])
    BY <1>4, <2>1 DEF BoardsInv
  <2> QED
    BY <2>2 DEF SoleNamed, Sole
<1>11. ASSUME NEW q \in Calls PROVE EntriesKept(call[q])'
  <2>1. PICK e : e = call'[q] /\ EntriesKept(e)
    BY <1>2, <1>4 DEF Allowed, PkState, EntriesKept, BoardsInv
  <2>2. EntriesKept(e)'
    BY <1>7, <2>1, EntriesStay DEF BoardsInv
  <2> QED
    BY <2>1, <2>2 DEF EntriesKept
<1> QED
  BY <1>6, <1>8, <1>9, <1>10, <1>11 DEF BoardsInv

LEMMA ReadyKeeps ==
    ASSUME BoardsInv, ReadyCheck
    PROVE  BoardsInv'
<1> DEFINE d == LastDay(clock)
<1>1. clock \in Nat
  BY BoardsAssumption DEF BoardsInv, BoardsTypeOK
<1>2. d \in Int /\ Over(d)
  BY <1>1, LastDayIsLast DEF Over
<1>3. /\ announced' = announced \cup {d} /\ guessed \subseteq guessed' /\ guessed' \subseteq announced'
      /\ d \notin guessed' => RowsOn(d) \cap Pending = {}
      /\ UNCHANGED <<predictions, results, published, clock, late, call, stores>>
      /\ readFaults' \in Nat
  BY DEF ReadyCheck, Fetched, rowsVars, BoardsInv, BoardsTypeOK
<1> HIDE DEF d
<1>4. BoardsTypeOK'
  BY <1>2, <1>3 DEF BoardsInv, BoardsTypeOK, StoreTypeOK
<1>5. DaysKept'
  BY <1>2, <1>3 DEF BoardsInv, DaysKept, Over, RowsOn, Pending, Placed
<1>6. ASSUME NEW r \in Calls, Pk(r)' PROVE PkKept(call[r])' /\ PkAnswered(call[r])'
  <2>1. PICK c \in PkState : c = call[r] /\ PkKept(c) /\ PkAnswered(c)
    BY <1>2, <1>3, <1>6, PkCall DEF Pk
  <2>2. PkKept(c)'
    BY <1>2, <1>3, <1>4, <2>1, QuietTable, PkStays DEF BoardsInv
  <2> QED
    BY <1>2, <1>3, <2>1, <2>2 DEF PkKept, PkAnswered, Over, TallyKept
<1>7. ASSUME NEW r \in Calls PROVE EntriesKept(call[r])'
  <2>1. PICK c : c = call[r] /\ EntriesKept(c)
    BY DEF BoardsInv
  <2>2. EntriesKept(c)'
    BY <1>2, <1>3, <2>1, QuietTable, EntriesStay DEF BoardsInv
  <2> QED
    BY <1>3, <2>1, <2>2 DEF EntriesKept
<1> QED
  BY <1>3, <1>4, <1>5, <1>6, <1>7 DEF BoardsInv, SoleNamed, Sole

LEMMA BoardsInitInv == BoardsInit => BoardsInv
<1> SUFFICES ASSUME BoardsInit PROVE BoardsInv
  OBVIOUS
<1>1. \A r \in Calls : call[r] = NewCall /\ CallOK(call[r])
  BY DEF BoardsInit, CallOK
<1>2. BoardsTypeOK
  BY <1>1, NoRowAssumption DEF BoardsInit, RowsInit, StoreInit, BoardsTypeOK, StoreTypeOK
<1>3. \A r \in Calls : ~Pk(r)
  BY <1>1 DEF Pk, NewCall
<1>4. \A r \in Calls : SoleNamed(call[r]) /\ EntriesKept(call[r])
  BY <1>1 DEF SoleNamed, EntriesKept, NewCall
<1> QED
  BY <1>2, <1>3, <1>4 DEF BoardsInv, DaysKept, BoardsInit

LEMMA BoardsStep == BoardsInv /\ [BoardsNext]_boardVars => BoardsInv'
<1> SUFFICES ASSUME BoardsInv, [BoardsNext]_boardVars PROVE BoardsInv'
  OBVIOUS
<1>1. BoardsTypeOK
  BY DEF BoardsInv
<1>2. CASE Tick
  BY <1>1, <1>2, GrowsTick, TableStepKeeps
<1>3. CASE Play
  BY <1>1, <1>3, GrowsBet, GrowsNews, GrowsClose, TableStepKeeps DEF Play
<1>4. CASE ReadyCheck
  BY <1>4, ReadyKeeps
<1>5. CASE \E r \in Calls : PkStep(r) \/ ListStep(r) \/ BoardStep(r)
  BY <1>5, CallStepKeeps
<1>6. CASE UNCHANGED boardVars
  <2>1. UNCHANGED <<predictions, results, published, clock, late, announced, guessed, call, stores, readFaults>>
    BY <1>6 DEF boardVars, rowsVars
  <2>2. BoardsTypeOK'
    BY <1>1, <2>1 DEF BoardsTypeOK, StoreTypeOK
  <2> QED
    BY <1>1, <2>1, <2>2, QuietTable, TableStepKeeps
<1> QED
  BY <1>2, <1>3, <1>4, <1>5, <1>6 DEF BoardsNext

LEMMA BoardsInvariant == BoardsSpec => []BoardsInv
  BY BoardsInitInv, BoardsStep, PTL DEF BoardsSpec

-----------------------------------------------------------------------------
(* The theorems                                                            *)

\* Every variable keeps its type; the winner of a comparison is a role or a tie.
THEOREM BoardsTypeCorrect == BoardsSpec => []BoardsTypeOK
  BY BoardsInvariant, PTL DEF BoardsInv

\* A decided comparison is about a day that is over and stays what it was, however
\* many rows come in and are closed between its queries and after them; only bets
\* inserted after their kickoff can be missing.
THEOREM PKStandsForEver == BoardsSpec => []PKStands
<1>1. BoardsInv => PKStands
  <2> SUFFICES ASSUME BoardsInv, NEW r \in Calls, Decided(r), NEW role \in Roles
               PROVE  LET t == call[r].tally[role]
                          u == Shown(call[r].user, role)
                      IN  /\ t.rows \subseteq RowsIn(u, call[r].day)
                          /\ RowsIn(u, call[r].day) \ t.rows \subseteq late
                          /\ t.rows \cap Pending = {}
                          /\ t.won = t.rows \cap WonRows(u)
    BY DEF PKStands
  <2>1. PkKept(call[r]) /\ PkAnswered(call[r]) /\ call[r].pc = "decided"
    BY DEF BoardsInv, Decided
  <2>2. role \in Have(call[r].pc)
    BY <2>1 DEF Have
  <2>3. call[r].tally[role].open = {}
    BY <2>1 DEF PkAnswered, HasPending
  <2> QED
    BY <2>1, <2>2, <2>3 DEF PkKept, TallyKept
<1> QED
  BY <1>1, BoardsInvariant, PTL

\* A role is named the winner exactly when it has more wins than both others.
THEOREM WinnerLeadsAlways == BoardsSpec => []WinnerLeads
<1>1. BoardsInv => WinnerLeads
  <2> SUFFICES ASSUME BoardsInv, NEW r \in Calls, Decided(r), NEW role \in Roles
               PROVE  (call[r].winner = role) <=>
                          \A other \in Roles \ {role} :
                              Cardinality(call[r].tally[role].won)
                                  > Cardinality(call[r].tally[other].won)
    BY DEF WinnerLeads
  <2>1. PICK c \in PkState : c = call[r] /\ PkAnswered(c) /\ c.pc = "decided"
    BY PkCall DEF Decided, Pk
  <2>2. c.tally \in [Roles -> Tally] /\ c.winner = DecidePKWinner(Wins(c.tally))
    BY <2>1 DEF PkState, PkAnswered
  <2>3. \A x \in Roles : Wins(c.tally)[x] = Cardinality(c.tally[x].won)
    BY DEF Wins
  <2>4. Wins(c.tally) \in [Roles -> Nat]
    BY <2>2, WinsType
  <2> QED
    BY <2>1, <2>2, <2>3, <2>4, WinnerOf
<1> QED
  BY <1>1, BoardsInvariant, PTL

\* Once the server has found a day complete, a user who asks is told to wait for bets
\* inserted after their kickoff only.
THEOREM ReadyMeansReady == BoardsSpec => []ReadyHolds
<1>1. BoardsInv => ReadyHolds
  BY DEF BoardsInv, ReadyHolds, PkKept
<1> QED
  BY <1>1, BoardsInvariant, PTL

\* Whatever queries of the list fail and however results are corrected: who is named
\* the winner of a bet did guess it, and who alone guessed it is named.
THEOREM SoleWinnerIsNamed == BoardsSpec => []SoleWinnerNamed
<1>1. BoardsInv => SoleWinnerNamed
  BY DEF BoardsInv, SoleWinnerNamed, SoleNamed, Sole
<1> QED
  BY <1>1, BoardsInvariant, PTL

\* The leaderboard, read row by row and entry by entry while bets are placed and
\* settled: an entry never counts a verdict that the table does not hold, and the
\* streak it shows is the longest run of wins among the verdicts fetched.
THEOREM EntriesAlwaysHold == BoardsSpec => []EntriesHold
<1>1. BoardsInv => EntriesHold
  BY DEF BoardsInv, EntriesHold, EntriesKept, EntryKept
<1> QED
  BY <1>1, BoardsInvariant, PTL

-----------------------------------------------------------------------------
\* Whatever the readers and the clock do, and whenever rows come in, the tables change
\* as Rows allows; a single settler implements Rows, so what is shown here of the
\* readers is shown of them beside Settlement.
THEOREM BoardsImplementRows == BoardsSpec => RowsSpec
<1>1. BoardsInit => RowsInit
  BY DEF BoardsInit
<1>2. [BoardsNext]_boardVars => [RowsNext]_rowsVars
  <2> SUFFICES ASSUME [BoardsNext]_boardVars PROVE RowsNext \/ UNCHANGED rowsVars
    OBVIOUS
  <2>1. ASSUME NEW b \in BetIds, NEW u \in Users, NEW m \in Matches, NEW st \in SubTypes,
               NEW c \in Codes, Bet(b, u, m, st, c)
        PROVE  RowsNext
    BY <2>1 DEF Bet, RowsNext
  <2>2. ASSUME NEW m \in Matches, NEW r \in Result, News(m, r) PROVE RowsNext
    BY <2>2 DEF News, RowsNext
  <2>3. ASSUME NEW b \in BetIds, Close(b) PROVE RowsNext
    BY <2>3 DEF Close, RowsNext
  <2>4. CASE Tick \/ ReadyCheck \/ UNCHANGED boardVars
    BY <2>4 DEF Tick, ReadyCheck, Fetched, boardVars
  <2>5. ASSUME NEW r \in Calls, PkStep(r) \/ ListStep(r) \/ BoardStep(r)
        PROVE  UNCHANGED rowsVars
    <3>1. PkStep(r) => UNCHANGED rowsVars
      BY DEF PkStep, PkUser, PkExpert, PkAi, PkFails, AtPk, Start
    <3>2. ListStep(r) => UNCHANGED rowsVars
      BY DEF ListStep, ListRow, ListResult, ListFails, AtList, Start
    <3>3. BoardStep(r) => UNCHANGED rowsVars
      BY DEF BoardStep, Board, BoardEntry, BoardFails, Start
    <3> QED
      BY <2>5, <3>1, <3>2, <3>3
  <2> QED
    BY <2>1, <2>2, <2>3, <2>4, <2>5 DEF BoardsNext, Play
<1> QED
  BY <1>1, <1>2, PTL DEF BoardsSpec, RowsSpec
=============================================================================
