----------------------------- MODULE WinsProofs -----------------------------
(***************************************************************************)
(* Proofs about users.wins: what the settlement's two statements per won   *)
(* bet, the row's status and the user's count, keep equal.                 *)
(*                                                                         *)
(* WonRows(u) are the rows the count should count, Crediting(u) the        *)
(* settlers between the two statements.  The first lemmas say what each    *)
(* kind of step does to the two sets; the theorems only compare their      *)
(* cardinalities.                                                          *)
(***************************************************************************)
EXTENDS SettlementProofs

\* At most one settler works: the spider, and nobody calls the endpoint.
Solo == \A s, t \in Settlers : s = t

\* One element more, one element less.
LEMMA CardStep ==
    ASSUME NEW S, NEW x, IsFiniteSet(S)
    PROVE  /\ Cardinality(S \cup {x}) \in Nat /\ Cardinality(S \ {x}) \in Nat
           /\ Cardinality(S) <= Cardinality(S \cup {x})
           /\ Cardinality(S \cup {x}) <= Cardinality(S) + 1
           /\ Cardinality(S \ {x}) <= Cardinality(S)
           /\ x \notin S => Cardinality(S \cup {x}) = Cardinality(S) + 1
           /\ x \in S => Cardinality(S \ {x}) = Cardinality(S) - 1
<1>1. /\ Cardinality(S) \in Nat
      /\ Cardinality(S \cup {x}) \in Nat /\ Cardinality(S \ {x}) \in Nat
  BY FS_AddElement, FS_RemoveElement, FS_CardinalityType
<1>2. Cardinality(S \cup {x}) = IF x \in S THEN Cardinality(S) ELSE Cardinality(S) + 1
  BY FS_AddElement
<1>3. Cardinality(S \ {x}) = IF x \in S THEN Cardinality(S) - 1 ELSE Cardinality(S)
  BY FS_RemoveElement
<1> QED
  BY <1>1, <1>2, <1>3

LEMMA CountsFinite ==
    ASSUME NEW u \in Users
    PROVE  /\ IsFiniteSet(WonRows(u)) /\ Cardinality(WonRows(u)) \in Nat
           /\ IsFiniteSet(Crediting(u)) /\ Cardinality(Crediting(u)) \in Nat
<1>1. IsFiniteSet(Settlers)
  BY SettleAssumption, FS_Union DEF Settlers
<1>2. IsFiniteSet(Crediting(u))
  BY <1>1, FS_Subset DEF Crediting
<1> QED
  BY <1>2, WonRowsFinite, FS_CardinalityType

\* A step that leaves the counts and the sets they are about as they are.
Steady == /\ wins' = wins
          /\ \A u \in Users : WonRows(u)' = WonRows(u) /\ Crediting(u)' = Crediting(u)

LEMMA SteadyFrame ==
    ASSUME wins' = wins, predictions' = predictions,
           \A t \in Settlers : (proc'[t].pc = "credit") <=> (proc[t].pc = "credit"),
           \A t \in Settlers : proc[t].pc = "credit" => proc'[t].bet = proc[t].bet
    PROVE  Steady
  BY DEF Steady, WonRows, Placed, Crediting

LEMMA SteadyProc ==
    ASSUME SettleInv, NEW s \in Settlers, wins' = wins, predictions' = predictions,
           \A t \in Settlers \ {s} : proc'[t] = proc[t],
           proc[s].pc # "credit", proc'[s].pc # "credit"
    PROVE  Steady
  BY SteadyFrame

LEMMA SteadyPlaceBet ==
    ASSUME SettleInv, NEW b \in BetIds, NEW u \in Users, NEW m \in Matches,
           NEW st \in SubTypes, NEW c \in Codes, PlaceBet(b, u, m, st, c)
    PROVE  Steady
<1>1. /\ predictions[b] = NoRow /\ b \notin Placed
      /\ proc' = proc /\ wins' = wins
      /\ predictions' = [predictions EXCEPT ![b] =
           [user |-> u, match |-> m, subType |-> st, code |-> c, status |-> "pending"]]
  BY DEF PlaceBet, InsertRow, Placed
<1>2. predictions \in [BetIds -> Row \cup {NoRow}]
  BY DEF SettleInv, SettleTypeOK, StoreTypeOK
<1>3. /\ predictions'[b].status = "pending"
      /\ \A k \in BetIds \ {b} : predictions'[k] = predictions[k]
  BY <1>1, <1>2
<1>4. \A t \in Settlers : proc[t].pc = "credit" => proc[t].bet \in Placed
  BY DEF SettleInv, ProcOK
<1>5. \A v \in Users : WonRows(v)' = WonRows(v)
  BY <1>1, <1>3 DEF WonRows, Placed
<1>6. \A v \in Users : Crediting(v)' = Crediting(v)
  BY <1>1, <1>3, <1>4 DEF Crediting, Placed
<1> QED
  BY <1>1, <1>5, <1>6 DEF Steady

\* What marking a row does: it becomes a won row to be counted, or a lost one.
LEMMA UpdateRowCounts ==
    ASSUME SettleInv, NEW s \in Settlers, NEW b \in BetIds, UpdateRow(s, b)
    PROVE  /\ wins' = wins
           /\ b \in Placed /\ predictions[b].user \in Users
           /\ \A u \in Users : u # predictions[b].user =>
                  WonRows(u)' = WonRows(u) /\ Crediting(u)' = Crediting(u)
           /\ \A u \in Users : u = predictions[b].user =>
                  \/ /\ WonRows(u)' = WonRows(u) \cup {b}
                     /\ Crediting(u)' = Crediting(u) \cup {s} /\ s \notin Crediting(u)
                     /\ server = "backfill" => losses' = losses + 1
                  \/ /\ WonRows(u)' = WonRows(u) \ {b}
                     /\ Crediting(u)' = Crediting(u)
<1>1. /\ proc \in [Settlers -> ProcState] /\ proc[s].pc = "rows"
      /\ predictions \in [BetIds -> Row \cup {NoRow}]
      /\ predictions[b] \in Row /\ b \in Placed /\ wins' = wins
  BY DEF SettleInv, SettleTypeOK, StoreTypeOK, ProcOK, Placed, UpdateRow, Mark
<1>2. PICK st \in {"won", "lost"} :
        /\ predictions' = [predictions EXCEPT ![b] = [@ EXCEPT !.status = st]]
        /\ st = IF IsCorrect(proc[s].draw, predictions[b]) THEN "won" ELSE "lost"
  BY DEF UpdateRow, Mark, SetStatus
<1>3. /\ Placed' = Placed
      /\ \A k \in Placed : predictions'[k].user = predictions[k].user
      /\ \A k \in Placed \ {b} : predictions'[k] = predictions[k]
      /\ predictions'[b].status = st
  BY <1>1, <1>2, NoRowAssumption DEF Placed, Row
<1>4. \A t \in Settlers : proc[t].pc = "credit" => proc[t].bet \in Placed
  BY DEF SettleInv, ProcOK
<1>5. CASE st = "won"
  <2>1. proc' = [proc EXCEPT ![s].work = @ \ {b}, ![s].bet = b, ![s].pc = "credit"]
    BY <1>2, <1>5 DEF UpdateRow
  <2>2. /\ proc'[s].pc = "credit" /\ proc'[s].bet = b
        /\ \A t \in Settlers \ {s} : proc'[t] = proc[t]
    BY <1>1, <2>1 DEF ProcState
  <2>3. \A u \in Users : Crediting(u)' = IF u = predictions[b].user
                                         THEN Crediting(u) \cup {s} ELSE Crediting(u)
    BY <1>1, <1>3, <1>4, <2>2 DEF Crediting
  <2>4. \A u \in Users : WonRows(u)' = IF u = predictions[b].user
                                       THEN WonRows(u) \cup {b} ELSE WonRows(u)
    BY <1>1, <1>3, <1>5 DEF WonRows
  <2>5. server = "backfill" => losses' = losses + 1
    BY <1>2, <1>5 DEF UpdateRow
  <2> QED
    BY <1>1, <2>3, <2>4, <2>5 DEF Crediting, Row
<1>6. CASE st = "lost"
  <2>1. proc' = [proc EXCEPT ![s].work = @ \ {b}]
    BY <1>2, <1>6 DEF UpdateRow
  <2>2. \A t \in Settlers : proc'[t].pc = proc[t].pc /\ proc'[t].bet = proc[t].bet
    BY <1>1, <2>1 DEF ProcState
  <2>3. \A u \in Users : Crediting(u)' = Crediting(u)
    BY <1>1, <1>3, <1>4, <2>2 DEF Crediting
  <2>4. \A u \in Users : WonRows(u)' = IF u = predictions[b].user
                                       THEN WonRows(u) \ {b} ELSE WonRows(u)
    BY <1>1, <1>3, <1>6 DEF WonRows
  <2> QED
    BY <1>1, <2>3, <2>4 DEF Row
<1> QED
  BY <1>5, <1>6

\* Counting a win takes the settler out of those under way.
LEMMA CreditCounts ==
    ASSUME SettleInv, NEW s \in Settlers, Credit(s) \/ CreditReplyLost(s)
    PROVE  \E v \in Users :
             /\ s \in Crediting(v)
             /\ wins' = [wins EXCEPT ![v] = @ + 1]
             /\ \A u \in Users : WonRows(u)' = WonRows(u)
             /\ Crediting(v)' = Crediting(v) \ {s}
             /\ \A u \in Users \ {v} : Crediting(u)' = Crediting(u)
<1>1. /\ proc \in [Settlers -> ProcState] /\ proc[s].pc = "credit"
      /\ proc[s].bet \in Placed /\ predictions[proc[s].bet] \in Row
  BY DEF SettleInv, SettleTypeOK, StoreTypeOK, ProcOK, Placed, Credit, CreditReplyLost, IncrementWins
<1>2. PICK v \in Users : v = predictions[proc[s].bet].user
  BY <1>1 DEF Row
<1>3. /\ predictions' = predictions
      /\ wins' = [wins EXCEPT ![v] = @ + 1]
      /\ Return(s) \/ proc' = [proc EXCEPT ![s].bet = NoBet, ![s].pc = "rows"]
  BY <1>2 DEF Credit, CreditReplyLost, IncrementWins
<1>4. proc'[s].pc # "credit" /\ \A t \in Settlers \ {s} : proc'[t] = proc[t]
  BY <1>1, <1>3 DEF ProcState, Return, Idle
<1>5. s \in Crediting(v)
  BY <1>1, <1>2 DEF Crediting
<1>6. \A u \in Users : WonRows(u)' = WonRows(u)
  BY <1>3 DEF WonRows, Placed
<1>7. \A u \in Users : Crediting(u)' = IF u = v THEN Crediting(u) \ {s} ELSE Crediting(u)
  BY <1>1, <1>2, <1>3, <1>4 DEF Crediting
<1> QED
  BY <1>3, <1>5, <1>6, <1>7

\* A settler that fails, or dies, may drop the win it was about to count.
Dropped(s) == /\ losses' = losses + 1
              /\ wins' = wins
              /\ \A u \in Users : /\ WonRows(u)' = WonRows(u)
                                  /\ \/ Crediting(u)' = Crediting(u)
                                     \/ Crediting(u)' = Crediting(u) \ {s}

LEMMA DroppedProc ==
    ASSUME SettleInv, NEW s \in Settlers, CallFails(s) \/ (s \in Spiders /\ SpiderCrash(s))
    PROVE  Dropped(s)
<1>1. /\ losses' = losses + 1 /\ wins' = wins /\ predictions' = predictions
      /\ proc \in [Settlers -> ProcState]
  BY DEF CallFails, SpiderCrash, Fault, dbVars, SettleInv, SettleTypeOK
<1>2. proc'[s].pc # "credit" /\ \A t \in Settlers \ {s} : proc'[t] = proc[t]
  BY <1>1 DEF CallFails, SpiderCrash, Return, Idle
<1>3. \A u \in Users : Crediting(u)' = Crediting(u) \ {s}
  BY <1>1, <1>2 DEF Crediting
<1> QED
  BY <1>1, <1>3 DEF Dropped, WonRows, Placed

LEMMA SteadyCall ==
    ASSUME SettleInv, NEW s \in Settlers,
           \/ ReadResult(s) \/ QueryPending(s) \/ RowsEnd(s) \/ GradeExperts(s) \/ GradeAis(s)
           \/ (\E b \in BetIds : UpdateFails(s, b)) \/ RowsCut(s) \/ GradeFails(s)
    PROVE  Steady
<1>1. proc \in [Settlers -> ProcState] /\ wins' = wins /\ predictions' = predictions
  BY DEF SettleInv, SettleTypeOK, ReadResult, QueryPending, RowsEnd, GradeExperts, GradeAis,
         UpdateFails, RowsCut, GradeFails, dbVars
<1>2. proc[s].pc # "credit"
  BY DEF ReadResult, QueryPending, RowsEnd, GradeExperts, GradeAis, UpdateFails, RowsCut, GradeFails
<1>3. proc'[s].pc # "credit" /\ \A t \in Settlers \ {s} : proc'[t] = proc[t]
  <2>1. CASE Return(s)
    BY <1>1, <2>1 DEF Return, Idle
  <2>2. CASE \/ \E d : proc' = [proc EXCEPT ![s].pc = "query", ![s].draw = d]
             \/ \E w : proc' = [proc EXCEPT ![s].pc = "rows", ![s].work = w]
             \/ \E w : proc' = [proc EXCEPT ![s].work = w, ![s].pc = "experts"]
             \/ proc' = [proc EXCEPT ![s].pc = "experts"]
             \/ proc' = [proc EXCEPT ![s].pc = "ais"]
    BY <1>1, <2>2 DEF ProcState
  <2>3. CASE \E b \in BetIds : UpdateFails(s, b)
    BY <1>1, <1>2, <2>3 DEF ProcState, UpdateFails
  <2> QED
    BY <2>1, <2>2, <2>3 DEF ReadResult, QueryPending, RowsEnd, GradeExperts, GradeAis, RowsCut,
                            GradeFails
<1> QED
  BY <1>1, <1>2, <1>3, SteadyProc

LEMMA SteadySpider ==
    ASSUME SettleInv, NEW s \in Spiders,
           \/ Crawl(s) \/ (\E m \in Matches : UpsertResult(s, m)) \/ PageDone(s)
           \/ CrawlCut(s) \/ (\E m \in Matches : UpsertFails(s, m))
    PROVE  Steady
<1>1. /\ s \in Settlers /\ proc \in [Settlers -> ProcState]
      /\ wins' = wins /\ predictions' = predictions
  BY DEF SettleInv, SettleTypeOK, Settlers, Crawl, UpsertResult, PageDone, CrawlCut, UpsertFails,
         dbVars
<1>2. proc[s].pc # "credit"
  BY DEF Crawl, UpsertResult, PageDone, CrawlCut, UpsertFails
<1>3. proc'[s].pc # "credit" /\ \A t \in Settlers \ {s} : proc'[t] = proc[t]
  <2>1. CASE \/ \E m \in Matches : proc' = [proc EXCEPT ![s].pc = "read", ![s].match = m]
             \/ proc' = [proc EXCEPT ![s].pc = "upsert"]
             \/ proc' = proc
    BY <1>1, <1>2, <2>1 DEF ProcState
  <2>2. CASE PageDone(s)
    BY <1>1, <2>2 DEF PageDone, Idle
  <2> QED
    BY <2>1, <2>2 DEF Crawl, UpsertResult, CrawlCut, UpsertFails
<1> QED
  BY <1>1, <1>2, <1>3, SteadyProc

LEMMA SteadyApiCall ==
    ASSUME SettleInv, NEW s \in Apis, NEW m \in Matches, ApiCall(s, m)
    PROVE  Steady
<1>1. /\ s \in Settlers /\ proc \in [Settlers -> ProcState]
      /\ wins' = wins /\ predictions' = predictions
      /\ proc[s].pc = "idle"
      /\ proc' = [proc EXCEPT ![s].pc = "read", ![s].match = m]
  BY DEF SettleInv, SettleTypeOK, Settlers, ApiCall, dbVars
<1>2. proc'[s].pc = "read" /\ \A t \in Settlers \ {s} : proc'[t] = proc[t]
  BY <1>1 DEF ProcState
<1> QED
  BY <1>1, <1>2, SteadyProc

\* A row that is marked without the settler knowing: nobody will count it.
Uncounted(s, b) ==
    /\ s \in Settlers /\ b \in proc[s].work
    /\ losses' = losses + 1
    /\ wins' = wins
    /\ \A u \in Users : /\ Crediting(u)' = Crediting(u)
                         /\ \/ WonRows(u)' = WonRows(u)
                            \/ WonRows(u)' = WonRows(u) \cup {b}
                            \/ WonRows(u)' = WonRows(u) \ {b}

LEMMA UpdateReplyLostCounts ==
    ASSUME SettleInv, NEW s \in Settlers, NEW b \in BetIds, UpdateReplyLost(s, b)
    PROVE  Uncounted(s, b)
<1>1. /\ proc \in [Settlers -> ProcState] /\ proc[s].pc = "rows"
      /\ predictions \in [BetIds -> Row \cup {NoRow}]
      /\ predictions[b] \in Row /\ b \in Placed
      /\ wins' = wins /\ losses' = losses + 1 /\ b \in proc[s].work
      /\ proc' = [proc EXCEPT ![s].work = @ \ {b}]
  BY DEF SettleInv, SettleTypeOK, StoreTypeOK, ProcOK, Placed, UpdateReplyLost, Mark, Fault
<1>2. PICK st \in {"won", "lost"} : predictions' = [predictions EXCEPT ![b] = [@ EXCEPT !.status = st]]
  BY DEF UpdateReplyLost, Mark, SetStatus
<1>3. /\ Placed' = Placed
      /\ \A k \in Placed : predictions'[k].user = predictions[k].user
      /\ \A k \in Placed \ {b} : predictions'[k] = predictions[k]
  BY <1>1, <1>2, NoRowAssumption DEF Placed, Row
<1>4. \A t \in Settlers : proc'[t].pc = proc[t].pc /\ proc'[t].bet = proc[t].bet
  BY <1>1 DEF ProcState
<1>5. \A t \in Settlers : proc[t].pc = "credit" => proc[t].bet \in Placed
  BY DEF SettleInv, ProcOK
<1>6. \A u \in Users : Crediting(u)' = Crediting(u)
  BY <1>3, <1>4, <1>5 DEF Crediting
<1>7. \A u \in Users : \/ WonRows(u)' = WonRows(u)
                        \/ WonRows(u)' = WonRows(u) \cup {b}
                        \/ WonRows(u)' = WonRows(u) \ {b}
  BY <1>1, <1>3 DEF WonRows
<1> QED
  BY <1>1, <1>6, <1>7 DEF Uncounted

\* The kinds of steps, as far as the counts are concerned.
LEMMA StepKinds ==
    ASSUME SettleInv, [SettleNext]_settleVars
    PROVE  \/ Steady
           \/ \E s \in Settlers, b \in BetIds : UpdateRow(s, b)
           \/ \E s \in Settlers : Credit(s) \/ CreditReplyLost(s)
           \/ \E s \in Settlers : Dropped(s)
           \/ \E s \in Settlers, b \in BetIds : Uncounted(s, b)
           \/ RestartServer
           \/ BackfillWins
<1>1. CASE SomeBet
  BY <1>1, SteadyPlaceBet DEF SomeBet
<1>2. CASE SomeNews
  BY <1>2, SteadyFrame DEF SomeNews, Publish, dbVars
<1>3. CASE \E s \in Settlers : SettleCall(s)
  BY <1>3, SteadyCall DEF SettleCall
<1>4. CASE \E s \in Spiders : SpiderStep(s) \/ SpiderFault(s)
  BY <1>3, <1>4, SteadySpider, DroppedProc DEF SpiderStep, SpiderFault, Settlers
<1>5. CASE \E s \in Apis : ApiStep(s)
  BY <1>3, <1>5, SteadyApiCall DEF ApiStep, Settlers
<1>6. CASE \E s \in Settlers : CallFault(s)
  BY <1>6, SteadyCall, DroppedProc, UpdateReplyLostCounts DEF CallFault
<1>7. CASE UNCHANGED settleVars
  BY <1>7, SteadyFrame DEF settleVars, dbVars
<1> QED
  BY <1>1, <1>2, <1>4, <1>5, <1>6, <1>7 DEF SettleNext

\* The server's own variables change only when it restarts, and losses only add up
\* until it does.
LEMMA Counters ==
    ASSUME SettleTypeOK, [SettleNext]_settleVars
    PROVE  /\ ~RestartServer => losses' = losses \/ losses' = losses + 1
           /\ ~RestartServer /\ ~BackfillWins => UNCHANGED serverVars
BY DEF SettleNext, SomeBet, PlaceBet, SomeNews, Publish, SpiderStep, SpiderFault, ApiStep,
   CallFault, SettleCall, Crawl, UpsertResult, PageDone, ApiCall, ReadResult, QueryPending,
   UpdateRow, Credit, RowsEnd, GradeExperts, GradeAis, CrawlCut, UpsertFails, SpiderCrash,
   CallFails, CreditReplyLost, UpdateFails, UpdateReplyLost, RowsCut, GradeFails, RestartServer,
   BackfillWins, Fault, settleVars, lossVars

-----------------------------------------------------------------------------
(* A failure loses at most one win, for any number of settlers; a start of *)
(* the server at most the wins settled beside its migration.               *)

\* What u will be shown without a loss: while the migration runs, an increment under way
\* may be overwritten by the number its snapshot has for u.
Shown(u) ==
    IF server = "up" THEN wins[u] + Cardinality(Crediting(u))
    ELSE IF backfill[u] > 0 THEN backfill[u] ELSE wins[u]

Covered == \A u \in Users : Cardinality(WonRows(u)) <= Shown(u) + losses

CalmInv == SettleInv /\ Covered

LEMMA CalmInit == SettleInit => CalmInv
<1> SUFFICES ASSUME SettleInit PROVE CalmInv
  OBVIOUS
<1>1. \A u \in Users : wins[u] = 0 /\ WonRows(u) = {} /\ Crediting(u) = {} /\ losses = 0
  BY DEF SettleInit, StoreInit, WonRows, Placed, Crediting, Idle
<1>2. Covered
  BY <1>1, FS_EmptySet, SMTT(20) DEF Covered, Shown, SettleInit
<1> QED
  BY <1>2, InitInv DEF CalmInv

\* Steps of the settlers while the server serves.
LEMMA CalmUp ==
    ASSUME CalmInv, [SettleNext]_settleVars, NEW u \in Users,
           server = "up", ~RestartServer, ~BackfillWins
    PROVE  Cardinality(WonRows(u)') <= wins'[u] + Cardinality(Crediting(u)') + losses'
<1> DEFINE w == WonRows(u)
           k == Crediting(u)
           Goal == Cardinality(WonRows(u)') <= wins'[u] + Cardinality(Crediting(u)') + losses'
<1>1. SettleInv /\ SettleTypeOK /\ wins \in [Users -> Nat] /\ losses \in Nat
  BY DEF CalmInv, SettleInv, SettleTypeOK
<1>2. /\ IsFiniteSet(w) /\ Cardinality(w) \in Nat
      /\ IsFiniteSet(k) /\ Cardinality(k) \in Nat
  BY CountsFinite
<1>3. /\ Cardinality(w) <= wins[u] + Cardinality(k) + losses
      /\ wins[u] \in Nat
      /\ losses' \in Nat /\ losses <= losses'
  BY <1>1, Counters DEF CalmInv, Covered, Shown
<1>4. CASE Steady
  BY <1>1, <1>2, <1>3, <1>4 DEF Steady
<1>5. ASSUME NEW s \in Settlers, NEW b \in BetIds, UpdateRow(s, b)
      PROVE  Goal
  <2>1. wins' = wins
    BY <1>1, <1>5, UpdateRowCounts
  <2>2. CASE WonRows(u)' = w /\ Crediting(u)' = k
    BY <1>1, <1>2, <1>3, <2>1, <2>2
  <2>3. CASE WonRows(u)' = w \cup {b} /\ Crediting(u)' = k \cup {s} /\ s \notin k
    <3>1. /\ Cardinality(w \cup {b}) \in Nat
          /\ Cardinality(w \cup {b}) <= Cardinality(w) + 1
      BY <1>2, CardStep
    <3>2. Cardinality(k \cup {s}) = Cardinality(k) + 1
      BY <1>2, <2>3, CardStep
    <3> QED
      BY <1>1, <1>2, <1>3, <2>1, <2>3, <3>1, <3>2
  <2>4. CASE WonRows(u)' = w \ {b} /\ Crediting(u)' = k
    <3>1. Cardinality(w \ {b}) <= Cardinality(w) /\ Cardinality(w \ {b}) \in Nat
      BY <1>2, CardStep
    <3> QED
      BY <1>1, <1>2, <1>3, <2>1, <2>4, <3>1
  <2> QED
    BY <1>1, <1>5, <2>2, <2>3, <2>4, UpdateRowCounts
<1>6. ASSUME NEW s \in Settlers, Credit(s) \/ CreditReplyLost(s)
      PROVE  Goal
  <2>1. PICK v \in Users : /\ s \in Crediting(v)
                           /\ wins' = [wins EXCEPT ![v] = @ + 1]
                           /\ \A x \in Users : WonRows(x)' = WonRows(x)
                           /\ Crediting(v)' = Crediting(v) \ {s}
                           /\ \A x \in Users \ {v} : Crediting(x)' = Crediting(x)
    BY <1>1, <1>6, CreditCounts
  <2>2. CASE u = v
    <3>1. Cardinality(k \ {s}) = Cardinality(k) - 1
      BY <1>2, <2>1, <2>2, CardStep
    <3>2. wins'[u] = wins[u] + 1
      BY <1>1, <2>1, <2>2
    <3>3. WonRows(u)' = w /\ Crediting(u)' = k \ {s}
      BY <2>1, <2>2
    <3>4. Cardinality(w) <= (wins[u] + 1) + (Cardinality(k) - 1) + losses'
      BY <1>1, <1>2, <1>3
    <3> QED
      BY <3>1, <3>2, <3>3, <3>4
  <2>3. CASE u # v
    <3>1. WonRows(u)' = w /\ Crediting(u)' = k /\ wins'[u] = wins[u]
      BY <1>1, <2>1, <2>3
    <3> QED
      BY <1>1, <1>2, <1>3, <3>1
  <2> QED
    BY <2>2, <2>3
<1>7. ASSUME NEW s \in Settlers, Dropped(s)
      PROVE  Goal
  <2>1. /\ wins' = wins /\ WonRows(u)' = w /\ losses' = losses + 1
        /\ Crediting(u)' = k \/ Crediting(u)' = k \ {s}
    BY <1>7 DEF Dropped
  <2>2. Cardinality(k \ {s}) \in Nat /\ Cardinality(k) <= Cardinality(k \ {s}) + 1
    <3>1. CASE s \in k
      <4>1. Cardinality(k \ {s}) \in Nat /\ Cardinality(k \ {s}) = Cardinality(k) - 1
        BY <1>2, <3>1, CardStep
      <4> QED
        BY <1>2, <4>1
    <3>2. CASE s \notin k
      <4>1. k \ {s} = k
        BY <3>2
      <4> QED
        BY <1>2, <4>1
    <3> QED
      BY <3>1, <3>2
  <2>3. CASE Crediting(u)' = k
    BY <1>1, <1>2, <1>3, <2>1, <2>3
  <2>4. CASE Crediting(u)' = k \ {s}
    BY <1>1, <1>2, <1>3, <2>1, <2>2, <2>4
  <2> QED
    BY <2>1, <2>3, <2>4
<1>8. ASSUME NEW s \in Settlers, NEW b \in BetIds, Uncounted(s, b)
      PROVE  Goal
  <2>1. /\ Cardinality(w \cup {b}) \in Nat /\ Cardinality(w \ {b}) \in Nat
        /\ Cardinality(w \cup {b}) <= Cardinality(w) + 1
        /\ Cardinality(w \ {b}) <= Cardinality(w)
    BY <1>2, CardStep
  <2>2. /\ wins' = wins /\ Crediting(u)' = k /\ losses' = losses + 1
        /\ \/ WonRows(u)' = w
           \/ WonRows(u)' = w \cup {b}
           \/ WonRows(u)' = w \ {b}
    BY <1>8 DEF Uncounted
  <2> QED
    BY <1>1, <1>2, <1>3, <2>1, <2>2
<1> QED
  BY <1>1, <1>4, <1>5, <1>6, <1>7, <1>8, StepKinds

\* Steps of the settlers while the migration runs: what the snapshot has not may be lost.
LEMMA CalmBackfill ==
    ASSUME CalmInv, [SettleNext]_settleVars, NEW u \in Users,
           server = "backfill", ~RestartServer, ~BackfillWins
    PROVE  Cardinality(WonRows(u)') <= (IF backfill[u] > 0 THEN backfill[u] ELSE wins'[u]) + losses'
<1> DEFINE w == WonRows(u)
           Keeps == wins'[u] >= wins[u] /\ wins'[u] \in Nat
           Grows == /\ Cardinality(WonRows(u)') \in Nat
                    /\ \/ Cardinality(WonRows(u)') <= Cardinality(w)
                       \/ Cardinality(WonRows(u)') <= Cardinality(w) + 1 /\ losses' = losses + 1
<1>1. /\ SettleInv /\ SettleTypeOK /\ wins \in [Users -> Nat] /\ losses \in Nat
      /\ backfill \in [Users -> Nat]
  BY DEF CalmInv, SettleInv, SettleTypeOK
<1>2. IsFiniteSet(w) /\ Cardinality(w) \in Nat
  BY CountsFinite
<1>3. ASSUME NEW b \in BetIds
      PROVE  /\ Cardinality(w \cup {b}) \in Nat /\ Cardinality(w \ {b}) \in Nat
             /\ Cardinality(w \cup {b}) <= Cardinality(w) + 1
             /\ Cardinality(w \ {b}) <= Cardinality(w)
  BY <1>2, CardStep
<1>4. Keeps /\ Grows
  <2>1. CASE Steady
    BY <1>1, <1>2, <2>1 DEF Steady
  <2>2. ASSUME NEW s \in Settlers, NEW b \in BetIds, UpdateRow(s, b) PROVE Keeps /\ Grows
    <3>1. /\ wins' = wins
          /\ \/ WonRows(u)' = w
             \/ WonRows(u)' = w \cup {b} /\ losses' = losses + 1
             \/ WonRows(u)' = w \ {b}
      BY <1>1, <2>2, UpdateRowCounts
    <3>2. Keeps
      BY <1>1, <3>1
    <3>3. CASE WonRows(u)' = w
      BY <1>2, <3>2, <3>3
    <3>4. CASE WonRows(u)' = w \cup {b} /\ losses' = losses + 1
      <4>1. Cardinality(WonRows(u)') \in Nat /\ Cardinality(WonRows(u)') <= Cardinality(w) + 1
        BY <1>3, <3>4
      <4> QED
        BY <3>2, <3>4, <4>1
    <3>5. CASE WonRows(u)' = w \ {b}
      <4>1. Cardinality(WonRows(u)') \in Nat /\ Cardinality(WonRows(u)') <= Cardinality(w)
        BY <1>3, <3>5
      <4> QED
        BY <3>2, <4>1
    <3> QED
      BY <3>1, <3>3, <3>4, <3>5
  <2>3. ASSUME NEW s \in Settlers, Credit(s) \/ CreditReplyLost(s) PROVE Keeps /\ Grows
    <3>1. PICK v \in Users : /\ wins' = [wins EXCEPT ![v] = @ + 1]
                             /\ \A x \in Users : WonRows(x)' = WonRows(x)
      BY <1>1, <2>3, CreditCounts
    <3>2. WonRows(u)' = w /\ wins'[u] \in {wins[u], wins[u] + 1} /\ wins[u] \in Nat
      BY <1>1, <3>1
    <3> QED
      BY <1>2, <3>2
  <2>4. ASSUME NEW s \in Settlers, Dropped(s) PROVE Keeps /\ Grows
    <3>1. wins' = wins /\ WonRows(u)' = w
      BY <2>4 DEF Dropped
    <3> QED
      BY <1>1, <1>2, <3>1
  <2>5. ASSUME NEW s \in Settlers, NEW b \in BetIds, Uncounted(s, b) PROVE Keeps /\ Grows
    <3>1. /\ wins' = wins /\ losses' = losses + 1
          /\ WonRows(u)' = w \/ WonRows(u)' = w \cup {b} \/ WonRows(u)' = w \ {b}
      BY <2>5 DEF Uncounted
    <3> QED
      BY <1>1, <1>2, <1>3, <3>1
  <2> QED
    BY <1>1, <2>1, <2>2, <2>3, <2>4, <2>5, StepKinds
<1>5. /\ Cardinality(w) <= (IF backfill[u] > 0 THEN backfill[u] ELSE wins[u]) + losses
      /\ losses' \in Nat /\ losses <= losses' /\ wins[u] \in Nat /\ backfill[u] \in Nat
  BY <1>1, Counters DEF CalmInv, Covered, Shown
<1> QED
  BY <1>1, <1>2, <1>4, <1>5

LEMMA CalmNext ==
    ASSUME CalmInv, [SettleNext]_settleVars
    PROVE  CalmInv'
<1>1. SettleInv /\ SettleInv' /\ SettleTypeOK
  BY NextInv DEF CalmInv, SettleInv
<1>2. /\ wins \in [Users -> Nat] /\ losses \in Nat /\ backfill \in [Users -> Nat]
      /\ server \in {"up", "backfill"}
  BY <1>1 DEF SettleTypeOK
<1>3. ASSUME NEW u \in Users
      PROVE  Cardinality(WonRows(u)') <= Shown(u)' + losses'
  <2>1. Cardinality(WonRows(u)) \in Nat
    BY CountsFinite
  <2>2. CASE RestartServer
    <3>1. /\ WonRows(u)' = WonRows(u) /\ wins' = wins /\ losses' = 0 /\ server' = "backfill"
          /\ backfill'[u] = IF wins[u] # Cardinality(WonRows(u))
                            THEN Cardinality(WonRows(u)) ELSE 0
      BY <2>2 DEF RestartServer, dbVars, WonRows, Placed
    <3> QED
      BY <1>2, <2>1, <3>1 DEF Shown
  <2>3. CASE BackfillWins
    <3>1. /\ WonRows(u)' = WonRows(u) /\ Crediting(u)' = Crediting(u) /\ losses' = losses
          /\ server = "backfill" /\ server' = "up"
          /\ wins'[u] = IF backfill[u] > 0 THEN backfill[u] ELSE wins[u]
      BY <2>3 DEF BackfillWins, lossVars, WonRows, Placed, Crediting
    <3>2. Cardinality(Crediting(u)) \in Nat /\ wins[u] \in Nat /\ backfill[u] \in Nat
      BY <1>2, CountsFinite
    <3> QED
      BY <1>2, <2>1, <3>1, <3>2 DEF CalmInv, Covered, Shown
  <2>4. CASE ~RestartServer /\ ~BackfillWins
    <3>1. server' = server /\ backfill' = backfill
      BY <1>1, <2>4, Counters DEF serverVars
    <3> QED
      BY <1>2, <2>4, <3>1, CalmUp, CalmBackfill DEF Shown
  <2> QED
    BY <2>2, <2>3, <2>4
<1> QED
  BY <1>1, <1>3 DEF CalmInv, Covered

\* Any number of settlers that work on the same rows, and any corrections of the
\* results, lose no win of their own, and each start of the server makes good what
\* failures lost before it.
THEOREM NoWinIsLost == SettleSpec => []NoWinLost
<1>1. SettleInit => CalmInv
  BY CalmInit
<1>2. CalmInv /\ [SettleNext]_settleVars => CalmInv'
  BY CalmNext
<1>3. CalmInv => NoWinLost
  BY DEF CalmInv, Covered, Shown, NoWinLost
<1> QED
  BY <1>1, <1>2, <1>3, PTL DEF SettleSpec

-----------------------------------------------------------------------------
(* What a settler takes on.                                                *)

\* A step of s that marks no row: s takes on no rows but pending ones, and is not about
\* to count one afterwards.
Takes(s) == /\ predictions' = predictions
            /\ proc'[s].work \subseteq proc[s].work \cup Pending
            /\ proc'[s].pc # "credit"
            /\ \A t \in Settlers \ {s} : proc'[t] = proc[t]

LEMMA TakesCall ==
    ASSUME SettleInv, NEW s \in Settlers,
           \/ ReadResult(s) \/ QueryPending(s) \/ Credit(s) \/ RowsEnd(s) \/ GradeExperts(s)
           \/ GradeAis(s) \/ CallFails(s) \/ CreditReplyLost(s)
           \/ (\E b \in BetIds : UpdateFails(s, b)) \/ RowsCut(s) \/ GradeFails(s)
    PROVE  Takes(s)
<1>1. proc \in [Settlers -> ProcState] /\ predictions' = predictions
  BY DEF SettleInv, SettleTypeOK, ReadResult, QueryPending, Credit, RowsEnd, GradeExperts,
         GradeAis, CallFails, CreditReplyLost, UpdateFails, RowsCut, GradeFails, dbVars
<1>2. CASE Return(s)
  BY <1>1, <1>2 DEF Return, Idle, Takes
<1>3. CASE QueryPending(s)
  BY <1>1, <1>3 DEF ProcState, QueryPending, Takes
<1>4. CASE \/ \E d : proc' = [proc EXCEPT ![s].pc = "query", ![s].draw = d]
           \/ proc' = [proc EXCEPT ![s].bet = NoBet, ![s].pc = "rows"]
           \/ proc' = [proc EXCEPT ![s].work = {}, ![s].pc = "experts"]
           \/ proc' = [proc EXCEPT ![s].pc = "experts"]
           \/ proc' = [proc EXCEPT ![s].pc = "ais"]
  BY <1>1, <1>4 DEF ProcState, Takes
<1>5. CASE \E b \in BetIds : UpdateFails(s, b)
  BY <1>1, <1>5 DEF ProcState, UpdateFails, Takes
<1> QED
  BY <1>2, <1>3, <1>4, <1>5 DEF ReadResult, Credit, RowsEnd, GradeExperts, GradeAis, CallFails,
                               CreditReplyLost, RowsCut, GradeFails

LEMMA TakesSpider ==
    ASSUME SettleInv, NEW s \in Spiders,
           \/ Crawl(s) \/ (\E m \in Matches : UpsertResult(s, m)) \/ PageDone(s)
           \/ SpiderFault(s)
    PROVE  Takes(s)
<1>1. s \in Settlers /\ proc \in [Settlers -> ProcState] /\ predictions' = predictions
  BY DEF SettleInv, SettleTypeOK, Settlers, Crawl, UpsertResult, PageDone, SpiderFault, CrawlCut,
         UpsertFails, SpiderCrash, dbVars
<1>2. CASE \/ \E m \in Matches : proc' = [proc EXCEPT ![s].pc = "read", ![s].match = m]
           \/ proc' = [proc EXCEPT ![s].pc = "upsert"]
  BY <1>1, <1>2 DEF ProcState, Takes
<1>3. CASE proc' = proc /\ proc[s].pc = "upsert"
  BY <1>1, <1>3 DEF Takes
<1>4. CASE PageDone(s) \/ SpiderCrash(s)
  BY <1>1, <1>4 DEF PageDone, SpiderCrash, Idle, Takes
<1> QED
  BY <1>2, <1>3, <1>4 DEF Crawl, UpsertResult, SpiderFault, CrawlCut, UpsertFails

LEMMA TakesApiCall ==
    ASSUME SettleInv, NEW s \in Apis, NEW m \in Matches, ApiCall(s, m)
    PROVE  Takes(s)
<1>1. /\ s \in Settlers /\ proc \in [Settlers -> ProcState] /\ predictions' = predictions
      /\ proc' = [proc EXCEPT ![s].pc = "read", ![s].match = m]
  BY DEF SettleInv, SettleTypeOK, Settlers, ApiCall, dbVars
<1> QED
  BY <1>1 DEF ProcState, Takes

\* A settler marks a row or takes on pending ones; the rest is the environment.
LEMMA StepTakes ==
    ASSUME SettleInv, [SettleNext]_settleVars
    PROVE  \/ SomeBet
           \/ predictions' = predictions /\ proc' = proc /\ wins' = wins
           \/ RestartServer
           \/ \E s \in Settlers : Takes(s) /\ (wins' = wins \/ Credit(s) \/ CreditReplyLost(s))
           \/ \E s \in Settlers, b \in BetIds : UpdateRow(s, b) \/ UpdateReplyLost(s, b)
           \/ BackfillWins
<1>1. CASE \E s \in Settlers : SettleCall(s)
  <2>1. PICK s \in Settlers : SettleCall(s)
    BY <1>1
  <2>2. CASE \E b \in BetIds : UpdateRow(s, b)
    BY <2>2
  <2>3. CASE ~ \E b \in BetIds : UpdateRow(s, b)
    <3>1. Takes(s)
      BY <2>1, <2>3, TakesCall DEF SettleCall
    <3>2. wins' = wins \/ Credit(s)
      BY <2>1, <2>3 DEF SettleCall, ReadResult, QueryPending, RowsEnd, GradeExperts, GradeAis, dbVars
    <3> QED
      BY <3>1, <3>2
  <2> QED
    BY <2>2, <2>3
<1>2. CASE \E s \in Settlers : CallFault(s)
  <2>1. PICK s \in Settlers : CallFault(s)
    BY <1>2
  <2>2. CASE \E b \in BetIds : UpdateReplyLost(s, b)
    BY <2>2
  <2>3. CASE ~ \E b \in BetIds : UpdateReplyLost(s, b)
    <3>1. Takes(s)
      BY <2>1, <2>3, TakesCall DEF CallFault
    <3>2. wins' = wins \/ CreditReplyLost(s)
      BY <2>1, <2>3 DEF CallFault, CallFails, UpdateFails, RowsCut, GradeFails, dbVars
    <3> QED
      BY <3>1, <3>2
  <2> QED
    BY <2>2, <2>3
<1>3. CASE \E s \in Spiders : SpiderStep(s) \/ SpiderFault(s)
  <2>1. PICK s \in Spiders : SpiderStep(s) \/ SpiderFault(s)
    BY <1>3
  <2>2. CASE SettleCall(s)
    BY <1>1, <2>2 DEF Settlers
  <2>3. CASE ~SettleCall(s)
    <3>1. s \in Settlers /\ Takes(s)
      BY <2>1, <2>3, TakesSpider DEF SpiderStep, Settlers
    <3>2. wins' = wins
      BY <2>1, <2>3 DEF SpiderStep, SpiderFault, Crawl, UpsertResult, PageDone, CrawlCut,
                        UpsertFails, SpiderCrash, dbVars
    <3> QED
      BY <3>1, <3>2
  <2> QED
    BY <2>2, <2>3
<1>4. CASE \E s \in Apis : ApiStep(s)
  <2>1. PICK s \in Apis : ApiStep(s)
    BY <1>4
  <2>2. CASE SettleCall(s)
    BY <1>1, <2>2 DEF Settlers
  <2>3. CASE \E m \in Matches : ApiCall(s, m)
    BY <2>3, TakesApiCall DEF Settlers, ApiCall, dbVars
  <2> QED
    BY <2>1, <2>2, <2>3 DEF ApiStep
<1>5. CASE SomeNews \/ UNCHANGED settleVars
  BY <1>5 DEF SomeNews, Publish, settleVars, dbVars
<1> QED
  BY <1>2, <1>3, <1>4, <1>5 DEF SettleNext

-----------------------------------------------------------------------------
(* No win is invented and nothing is settled twice: with a single settler, *)
(* whatever its failures.                                                  *)

\* The rows a single settler still has to mark are pending: nobody else settles.
WorkPending == \A s \in Settlers : proc[s].work \subseteq Pending

\* The snapshot of a migration that runs shows no user more than the won rows.
SnapshotOK == /\ \A u \in Users : backfill[u] <= Cardinality(WonRows(u))
              /\ server = "backfill" => restarts > 0

SoloInv == SettleInv /\ WorkPending /\ SnapshotOK /\ NoWinInvented

LEMMA SoloInit == SettleInit => SoloInv
<1> SUFFICES ASSUME SettleInit PROVE SoloInv
  OBVIOUS
<1>1. \A u \in Users : wins[u] = 0 /\ WonRows(u) = {} /\ Crediting(u) = {}
  BY DEF SettleInit, StoreInit, WonRows, Placed, Crediting, Idle
<1>2. NoWinInvented
  <2>1. \A u \in Users : Cardinality(WonRows(u)) = 0 /\ Cardinality(Crediting(u)) = 0
    BY <1>1, FS_EmptySet
  <2>2. restarts = 0
    BY DEF SettleInit
  <2> QED
    BY <1>1, <2>1, <2>2 DEF NoWinInvented
<1>3. WorkPending
  BY DEF WorkPending, SettleInit, Idle
<1>4. SnapshotOK
  BY <1>1, FS_EmptySet, SMTT(20) DEF SnapshotOK, SettleInit, NoBackfill
<1> QED
  BY <1>2, <1>3, <1>4, InitInv DEF SoloInv, SettleInit

\* No other row changes, and no settler takes a row on, except where it queries
\* the pending ones.
LEMMA WorkFrame ==
    ASSUME WorkPending, predictions' = predictions,
           \A t \in Settlers : proc'[t].work \subseteq proc[t].work \cup Pending
    PROVE  WorkPending'
  BY DEF WorkPending, Pending, Placed

LEMMA WorkTakes ==
    ASSUME WorkPending, NEW s \in Settlers, Takes(s)
    PROVE  predictions' = predictions /\ WorkPending'
  BY WorkFrame DEF Takes

\* The single settler marks a pending row and takes it off its list.
LEMMA WorkUpdateRow ==
    ASSUME Solo, SettleInv, WorkPending, NEW s \in Settlers, NEW b \in BetIds,
           UpdateRow(s, b) \/ UpdateReplyLost(s, b)
    PROVE  /\ b \in Pending /\ WorkPending'
           /\ \A k \in BetIds \ {b} : predictions'[k] = predictions[k]
<1>1. /\ proc \in [Settlers -> ProcState]
      /\ predictions \in [BetIds -> Row \cup {NoRow}]
      /\ b \in proc[s].work /\ b \in Pending
  BY DEF SettleInv, SettleTypeOK, StoreTypeOK, UpdateRow, UpdateReplyLost, Mark, WorkPending
<1>2. \A k \in BetIds \ {b} : predictions'[k] = predictions[k]
  BY <1>1 DEF UpdateRow, UpdateReplyLost, Mark, SetStatus
<1>3. proc'[s].work = proc[s].work \ {b}
  <2>1. \/ proc' = [proc EXCEPT ![s].work = @ \ {b}, ![s].bet = b, ![s].pc = "credit"]
        \/ proc' = [proc EXCEPT ![s].work = @ \ {b}]
    BY DEF UpdateRow, UpdateReplyLost
  <2> QED
    BY <1>1, <2>1 DEF ProcState
<1>4. WorkPending'
  BY <1>1, <1>2, <1>3 DEF Solo, WorkPending, Pending, Placed
<1> QED
  BY <1>1, <1>2, <1>4

\* What a step of a single settler's system does to the rows.
LEMMA SoloRows ==
    ASSUME Solo, SettleInv, WorkPending, [SettleNext]_settleVars
    PROVE  /\ WorkPending'
           /\ \A b \in Placed \ Pending : predictions'[b] = predictions[b]
<1>1. CASE SomeBet
  <2>1. PICK b \in BetIds, u \in Users, m \in Matches, st \in SubTypes, c \in Codes :
            PlaceBet(b, u, m, st, c)
    BY <1>1 DEF SomeBet
  <2>2. proc' = proc /\ b \notin Placed /\ \A k \in BetIds \ {b} : predictions'[k] = predictions[k]
    BY <2>1 DEF PlaceBet, InsertRow, Placed
  <2> QED
    BY <2>2 DEF WorkPending, Pending, Placed
<1>2. CASE RestartServer \/ BackfillWins \/ (predictions' = predictions /\ proc' = proc)
  <2>1. /\ predictions' = predictions
        /\ \A t \in Settlers : proc'[t] = proc[t] \/ proc'[t] = Idle
    BY <1>2 DEF RestartServer, BackfillWins, dbVars, SettleInv, SettleTypeOK
  <2>2. WorkPending'
    BY <2>1, WorkFrame DEF Idle
  <2> QED
    BY <2>1, <2>2
<1>3. CASE \E s \in Settlers : Takes(s)
  BY <1>3, WorkTakes
<1>4. CASE \E s \in Settlers, b \in BetIds : UpdateRow(s, b) \/ UpdateReplyLost(s, b)
  BY <1>4, WorkUpdateRow DEF Pending, Placed
<1> QED
  BY <1>1, <1>2, <1>3, <1>4, StepTakes

\* A single settler has at most one increment under way.
LEMMA SoloCrediting ==
    ASSUME Solo, NEW u \in Users
    PROVE  Cardinality(Crediting(u)) <= 1
<1>1. CASE Crediting(u) = {}
  BY <1>1, FS_EmptySet
<1>2. CASE Crediting(u) # {}
  <2>1. PICK s : s \in Crediting(u)
    BY <1>2
  <2>2. Crediting(u) = {s}
    BY <2>1 DEF Crediting, Solo
  <2> QED
    BY <2>2, FS_Singleton
<1> QED
  BY <1>1, <1>2

\* Its steps count no win twice.
LEMMA SoloCalm ==
    ASSUME Solo, SoloInv, [SettleNext]_settleVars, NEW u \in Users,
           ~RestartServer, ~BackfillWins
    PROVE  wins'[u] + Cardinality(Crediting(u)')
               <= Cardinality(WonRows(u)') + (IF restarts > 0 THEN 1 ELSE 0)
<1>1. SettleInv
  BY DEF SoloInv
<1>2. wins \in [Users -> Nat] /\ restarts \in Nat
  BY <1>1 DEF SettleInv, SettleTypeOK
<1> DEFINE w == WonRows(u)
           k == Crediting(u)
           E == IF restarts > 0 THEN 1 ELSE 0
<1>3. /\ IsFiniteSet(w) /\ Cardinality(w) \in Nat
      /\ IsFiniteSet(k) /\ Cardinality(k) \in Nat
  BY CountsFinite
<1>4. wins[u] + Cardinality(k) <= Cardinality(w) + E
  BY DEF SoloInv, NoWinInvented
<1>5. E \in Nat
  OBVIOUS
<1>6. CASE Steady
  BY <1>4, <1>6 DEF Steady
<1>7. ASSUME NEW s \in Settlers, NEW b \in BetIds, UpdateRow(s, b)
      PROVE  wins'[u] + Cardinality(Crediting(u)') <= Cardinality(WonRows(u)') + E
  <2>1. wins' = wins
    BY <1>1, <1>7, UpdateRowCounts
  <2>2. b \notin w
    BY <1>1, <1>7, WorkUpdateRow DEF SoloInv, Pending, WonRows
  <2>3. CASE WonRows(u)' = w /\ Crediting(u)' = k
    BY <1>5, <1>4, <2>1, <2>3
  <2>4. CASE WonRows(u)' = w \cup {b} /\ Crediting(u)' = k \cup {s} /\ s \notin k
    <3>1. Cardinality(w \cup {b}) = Cardinality(w) + 1
      BY <1>3, <2>2, CardStep
    <3>2. Cardinality(k \cup {s}) = Cardinality(k) + 1
      BY <1>3, <2>4, CardStep
    <3> QED
      BY <1>2, <1>3, <1>5, <1>4, <2>1, <2>4, <3>1, <3>2
  <2>5. CASE WonRows(u)' = w \ {b} /\ Crediting(u)' = k
    <3>1. w \ {b} = w
      BY <2>2
    <3> QED
      BY <1>5, <1>4, <2>1, <2>5, <3>1
  <2> QED
    BY <1>1, <1>7, <2>3, <2>4, <2>5, UpdateRowCounts
<1>8. ASSUME NEW s \in Settlers, Credit(s) \/ CreditReplyLost(s)
      PROVE  wins'[u] + Cardinality(Crediting(u)') <= Cardinality(WonRows(u)') + E
  <2>1. PICK v \in Users : /\ s \in Crediting(v)
                           /\ wins' = [wins EXCEPT ![v] = @ + 1]
                           /\ \A x \in Users : WonRows(x)' = WonRows(x)
                           /\ Crediting(v)' = Crediting(v) \ {s}
                           /\ \A x \in Users \ {v} : Crediting(x)' = Crediting(x)
    BY <1>1, <1>8, CreditCounts
  <2>2. CASE u = v
    <3>1. Cardinality(k \ {s}) = Cardinality(k) - 1
      BY <1>3, <2>1, <2>2, CardStep
    <3>2. wins'[u] = wins[u] + 1
      BY <1>2, <2>1, <2>2
    <3> QED
      BY <1>2, <1>3, <1>5, <1>4, <2>1, <2>2, <3>1, <3>2
  <2>3. CASE u # v
    BY <1>2, <1>5, <1>4, <2>1, <2>3
  <2> QED
    BY <2>2, <2>3
<1>9. ASSUME NEW s \in Settlers, Dropped(s)
      PROVE  wins'[u] + Cardinality(Crediting(u)') <= Cardinality(WonRows(u)') + E
  <2>1. wins' = wins /\ WonRows(u)' = w /\ (Crediting(u)' = k \/ Crediting(u)' = k \ {s})
    BY <1>9 DEF Dropped
  <2>2. Cardinality(k \ {s}) <= Cardinality(k) /\ Cardinality(k \ {s}) \in Nat
    BY <1>3, CardStep
  <2>3. CASE Crediting(u)' = k
    BY <1>5, <1>4, <2>1, <2>3
  <2>4. CASE Crediting(u)' = k \ {s}
    BY <1>2, <1>3, <1>5, <1>4, <2>1, <2>2, <2>4
  <2> QED
    BY <2>1, <2>3, <2>4
<1>10. ASSUME NEW s \in Settlers, NEW b \in BetIds, Uncounted(s, b)
      PROVE  wins'[u] + Cardinality(Crediting(u)') <= Cardinality(WonRows(u)') + E
  <2>1. b \notin w
    BY <1>10 DEF Uncounted, SoloInv, WorkPending, Pending, WonRows
  <2>2. WonRows(u)' = w \/ WonRows(u)' = w \cup {b}
    BY <1>10, <2>1 DEF Uncounted
  <2>3. Cardinality(w) <= Cardinality(w \cup {b}) /\ Cardinality(w \cup {b}) \in Nat
    BY <1>3, CardStep
  <2>4. wins' = wins /\ Crediting(u)' = k
    BY <1>10 DEF Uncounted
  <2>5. Cardinality(w) <= Cardinality(WonRows(u)') /\ Cardinality(WonRows(u)') \in Nat
    BY <1>3, <2>2, <2>3
  <2> QED
    BY <1>2, <1>3, <1>5, <1>4, <2>4, <2>5
<1> QED
  BY <1>1, <1>6, <1>7, <1>8, <1>9, <1>10, StepKinds

\* Won rows only come in.
LEMMA SoloWonRows ==
    ASSUME Solo, SoloInv, [SettleNext]_settleVars, NEW u \in Users
    PROVE  /\ Cardinality(WonRows(u)) \in Nat /\ Cardinality(WonRows(u)') \in Nat
           /\ Cardinality(WonRows(u)) <= Cardinality(WonRows(u)')
<1>1. \A b \in Placed \ Pending : predictions'[b] = predictions[b]
  BY SoloRows DEF SoloInv
<1>2. WonRows(u) \subseteq WonRows(u)'
  BY <1>1 DEF WonRows, Placed, Pending
<1>3. IsFiniteSet(WonRows(u)')
  <2>1. WonRows(u)' \subseteq BetIds
    BY DEF WonRows, Placed
  <2> QED
    BY <2>1, StoreAssumption, FS_Subset
<1> QED
  BY <1>2, <1>3, FS_Subset, FS_CardinalityType

LEMMA SoloNext ==
    ASSUME Solo, SoloInv, [SettleNext]_settleVars
    PROVE  SoloInv'
<1>1. SettleInv /\ SettleInv' /\ SettleTypeOK
  BY NextInv DEF SoloInv, SettleInv
<1>2. /\ wins \in [Users -> Nat] /\ restarts \in Nat /\ backfill \in [Users -> Nat]
      /\ restarts' \in Nat
  BY <1>1 DEF SettleInv, SettleTypeOK
<1>3. WorkPending'
  BY <1>1, SoloRows DEF SoloInv
<1>4. CASE RestartServer
  <2>1. /\ wins' = wins /\ restarts' = restarts + 1
        /\ \A u \in Users : /\ WonRows(u)' = WonRows(u)
                            /\ backfill'[u] \in {Cardinality(WonRows(u)), 0}
                            /\ Crediting(u)' \subseteq Crediting(u)
    BY <1>4 DEF RestartServer, dbVars, WonRows, Placed, Crediting, Idle
  <2>2. ASSUME NEW u \in Users
        PROVE  /\ backfill'[u] <= Cardinality(WonRows(u)')
               /\ wins'[u] + Cardinality(Crediting(u)') <= Cardinality(WonRows(u)') + 1
    <3>1. /\ Cardinality(WonRows(u)) \in Nat /\ Cardinality(Crediting(u)) \in Nat
          /\ IsFiniteSet(Crediting(u))
      BY CountsFinite
    <3>2. /\ Cardinality(Crediting(u)') <= Cardinality(Crediting(u))
          /\ Cardinality(Crediting(u)') \in Nat
      BY <2>1, <3>1, FS_Subset, FS_CardinalityType
    <3>3. wins[u] + Cardinality(Crediting(u)) <= Cardinality(WonRows(u)) + 1
      BY <1>2, <3>1 DEF SoloInv, NoWinInvented
    <3> QED
      BY <1>2, <2>1, <3>1, <3>2, <3>3
  <2>3. restarts' > 0
    BY <1>2, <2>1
  <2> QED
    BY <1>1, <1>3, <2>2, <2>3 DEF SoloInv, SnapshotOK, NoWinInvented
<1>5. CASE BackfillWins
  <2>1. /\ server = "backfill" /\ server' = "up" /\ restarts' = restarts /\ restarts > 0
        /\ \A u \in Users : /\ WonRows(u)' = WonRows(u) /\ Crediting(u)' = Crediting(u)
                            /\ wins'[u] = IF backfill[u] > 0 THEN backfill[u] ELSE wins[u]
                            /\ backfill'[u] = 0
    BY <1>5 DEF BackfillWins, NoBackfill, WonRows, Placed, Crediting, SoloInv, SnapshotOK
  <2>2. ASSUME NEW u \in Users
        PROVE  /\ backfill'[u] <= Cardinality(WonRows(u)')
               /\ wins'[u] + Cardinality(Crediting(u)') <= Cardinality(WonRows(u)') + 1
    <3>1. /\ Cardinality(WonRows(u)) \in Nat /\ Cardinality(Crediting(u)) \in Nat
          /\ Cardinality(Crediting(u)) <= 1
      BY CountsFinite, SoloCrediting
    <3>2. /\ wins[u] + Cardinality(Crediting(u)) <= Cardinality(WonRows(u)) + 1
          /\ backfill[u] <= Cardinality(WonRows(u))
      BY <1>2, <2>1, <3>1 DEF SoloInv, NoWinInvented, SnapshotOK
    <3> QED
      BY <1>2, <2>1, <3>1, <3>2
  <2> QED
    BY <1>1, <1>3, <2>1, <2>2 DEF SoloInv, SnapshotOK, NoWinInvented
<1>6. CASE ~RestartServer /\ ~BackfillWins
  <2>1. UNCHANGED <<server, backfill, restarts>>
    BY <1>1, <1>6, Counters DEF serverVars
  <2>2. SnapshotOK'
    <3>1. ASSUME NEW u \in Users PROVE backfill'[u] <= Cardinality(WonRows(u)')
      <4>1. /\ Cardinality(WonRows(u)) \in Nat /\ Cardinality(WonRows(u)') \in Nat
            /\ Cardinality(WonRows(u)) <= Cardinality(WonRows(u)')
        BY SoloWonRows
      <4>2. backfill[u] <= Cardinality(WonRows(u)) /\ backfill[u] \in Nat
        BY <1>2 DEF SoloInv, SnapshotOK
      <4> QED
        BY <2>1, <4>1, <4>2
    <3> QED
      BY <2>1, <3>1 DEF SoloInv, SnapshotOK
  <2>3. NoWinInvented'
    BY <1>6, <2>1, SoloCalm DEF NoWinInvented
  <2> QED
    BY <1>1, <1>3, <2>2, <2>3 DEF SoloInv
<1> QED
  BY <1>4, <1>5, <1>6

\* A single settler never counts a win that no row shows, and never counts one twice,
\* whatever statements fail and wherever it dies and starts again; and the migrations
\* of all starts of the server together count one twice at most.
THEOREM NoWinIsInvented ==
    ASSUME Solo
    PROVE  SettleSpec => []NoWinInvented
<1>1. SettleInit => SoloInv
  BY SoloInit
<1>2. SoloInv /\ [SettleNext]_settleVars => SoloInv'
  BY SoloNext
<1>3. SoloInv => NoWinInvented
  BY DEF SoloInv
<1> QED
  BY <1>1, <1>2, <1>3, PTL DEF SettleSpec

\* A single settler never touches a settled row again, although the statement that
\* settles a row has no condition on its status, and whatever the results become.
THEOREM SettledOnlyOnce ==
    ASSUME Solo
    PROVE  SettleSpec => SettledOnce
<1>1. SettleInit => SettleInv /\ WorkPending
  BY InitInv, SoloInit DEF SoloInv
<1>2. SettleInv /\ WorkPending /\ [SettleNext]_settleVars => (SettleInv /\ WorkPending)'
  BY NextInv, SoloRows
<1>3. SettleInv /\ WorkPending /\ [SettleNext]_settleVars
          => [\A b \in Placed \ Pending : predictions'[b] = predictions[b]]_settleVars
  BY SoloRows
<1> QED
  BY <1>1, <1>2, <1>3, PTL DEF SettleSpec, SettledOnce

\* With a single settler users.wins is the number of won rows whenever no settlement
\* is under way, as long as nothing has failed and the server has not been started again.
THEOREM WinsAreExactAtRest ==
    ASSUME Solo
    PROVE  SettleSpec => [](losses = 0 /\ restarts = 0 => WinsExactAtRest)
<1>1. SettleSpec => []SettleTypeOK
  BY SettleTypeCorrect
<1>2. SettleSpec => []NoWinLost
  BY NoWinIsLost
<1>3. SettleSpec => []NoWinInvented
  BY NoWinIsInvented
<1>4. SettleTypeOK /\ NoWinLost /\ NoWinInvented
          => (losses = 0 /\ restarts = 0 => WinsExactAtRest)
  <2> SUFFICES ASSUME SettleTypeOK, NoWinLost, NoWinInvented, losses = 0, restarts = 0, AtRest,
                      NEW u \in Users
               PROVE  wins[u] = Cardinality(WonRows(u))
    BY DEF WinsExactAtRest
  <2>1. Crediting(u) = {}
    BY DEF AtRest, Crediting
  <2>2. Cardinality(Crediting(u)) = 0
    BY <2>1, FS_EmptySet
  <2>3. wins[u] \in Nat /\ Cardinality(WonRows(u)) \in Nat
    BY CountsFinite DEF SettleTypeOK
  <2>4. Cardinality(WonRows(u)) <= wins[u]
    BY <2>2, <2>3 DEF NoWinLost, AtRest
  <2>5. wins[u] <= Cardinality(WonRows(u))
    BY <2>2, <2>3 DEF NoWinInvented
  <2> QED
    BY <2>3, <2>4, <2>5
<1> QED
  BY <1>1, <1>2, <1>3, <1>4, PTL

-----------------------------------------------------------------------------
(* Several settlers count a row at most once each.                         *)

\* The counts that may still come: a settler and a closed row of u that it is about to
\* count, or still holds as pending and will mark once more.
Held(u) == {p \in Settlers \X Closed(u) :
               \/ p[2] \in proc[p[1]].work
               \/ proc[p[1]].pc = "credit" /\ proc[p[1]].bet = p[2]}

\* A row that a settler is about to count is closed, and off its list.
CreditClosed ==
    \A s \in Settlers : proc[s].pc = "credit" =>
        proc[s].bet \in Placed \ Pending /\ proc[s].bet \notin proc[s].work

\* How often a closed row may be counted.
Share == Cardinality(Settlers) + (IF restarts > 0 THEN 1 ELSE 0)

Shared(u) == wins[u] + Cardinality(Held(u)) <= Share * Cardinality(Closed(u))

\* The snapshot of a migration that runs shows no user more than the closed rows.
SnapshotClosed == /\ \A u \in Users : backfill[u] <= Cardinality(Closed(u))
                  /\ server = "backfill" => restarts > 0

ShareInv == SettleInv /\ CreditClosed /\ SnapshotClosed /\ \A u \in Users : Shared(u)

LEMMA HeldFinite ==
    ASSUME NEW u
    PROVE  /\ IsFiniteSet(Settlers) /\ Cardinality(Settlers) \in Nat
           /\ IsFiniteSet(Closed(u)) /\ Cardinality(Closed(u)) \in Nat
           /\ IsFiniteSet(Held(u)) /\ Cardinality(Held(u)) \in Nat
           /\ Cardinality(Held(u)) <= Cardinality(Settlers) * Cardinality(Closed(u))
<1>1. IsFiniteSet(Settlers) /\ Cardinality(Settlers) \in Nat
  BY SettleAssumption, FS_Union, FS_CardinalityType DEF Settlers
<1>2. IsFiniteSet(Closed(u)) /\ Cardinality(Closed(u)) \in Nat
  <2>1. Closed(u) \in SUBSET BetIds
    BY DEF Closed, Placed
  <2> QED
    BY <2>1, StoreAssumption, FS_Subset, FS_CardinalityType
<1>3. /\ IsFiniteSet(Settlers \X Closed(u))
      /\ Cardinality(Settlers \X Closed(u)) = Cardinality(Settlers) * Cardinality(Closed(u))
  BY <1>1, <1>2, FS_Product
<1>4. Held(u) \in SUBSET (Settlers \X Closed(u))
  BY DEF Held
<1>5. IsFiniteSet(Held(u)) /\ Cardinality(Held(u)) <= Cardinality(Settlers \X Closed(u))
  BY <1>3, <1>4, FS_Subset
<1>6. Cardinality(Held(u)) \in Nat
  BY <1>5, FS_CardinalityType
<1> QED
  BY <1>1, <1>2, <1>3, <1>5, <1>6

LEMMA TimesMore ==
    ASSUME NEW k \in Nat, NEW n \in Nat
    PROVE  k * n \in Nat /\ k * (n + 1) = k * n + k /\ (k + 1) * n = k * n + n
  OBVIOUS

\* A step that marks no row: the counts that may come become fewer.
LEMMA HeldFrame ==
    ASSUME SettleInv, CreditClosed,
           \A b \in BetIds : (b \in Placed \ Pending)' = (b \in Placed \ Pending),
           \A b \in Placed \ Pending : predictions'[b].user = predictions[b].user,
           \A t \in Settlers :
               /\ proc'[t].work \subseteq proc[t].work \cup Pending
               /\ proc'[t].pc = "credit" => proc[t].pc = "credit" /\ proc'[t].bet = proc[t].bet
    PROVE  /\ CreditClosed'
           /\ \A u \in Users : Closed(u)' = Closed(u) /\ Held(u)' \subseteq Held(u)
<1>1. \A b : (b \in Placed' \ Pending') <=> (b \in Placed \ Pending)
  BY DEF Placed
<1>2. \A u \in Users : Closed(u)' = Closed(u)
  BY <1>1 DEF Closed
<1>3. CreditClosed'
  BY <1>1 DEF CreditClosed
<1>4. ASSUME NEW u \in Users, NEW s \in Settlers, NEW b \in Closed(u),
             b \in proc'[s].work \/ (proc'[s].pc = "credit" /\ proc'[s].bet = b)
      PROVE  b \in proc[s].work \/ (proc[s].pc = "credit" /\ proc[s].bet = b)
  <2>1. b \notin Pending
    BY DEF Closed
  <2> QED
    BY <1>4, <2>1
<1>5. \A u \in Users : Held(u)' \subseteq Held(u)
  BY <1>2, <1>4 DEF Held
<1> QED
  BY <1>2, <1>3, <1>5

LEMMA HeldTakes ==
    ASSUME SettleInv, CreditClosed, NEW s \in Settlers, Takes(s)
    PROVE  /\ CreditClosed'
           /\ \A u \in Users : Closed(u)' = Closed(u) /\ Held(u)' \subseteq Held(u)
<1>1. Placed' = Placed /\ Pending' = Pending /\ predictions' = predictions
  BY DEF Takes, Placed, Pending
<1>2. \A t \in Settlers :
          /\ proc'[t].work \subseteq proc[t].work \cup Pending
          /\ proc'[t].pc = "credit" => proc[t].pc = "credit" /\ proc'[t].bet = proc[t].bet
  BY DEF Takes
<1> QED
  BY <1>1, <1>2, HeldFrame

\* Counting takes one of the counts that may come.
LEMMA HeldCredit ==
    ASSUME SettleInv, CreditClosed, NEW s \in Settlers, Takes(s), Credit(s) \/ CreditReplyLost(s),
           NEW u \in Users
    PROVE  \/ wins'[u] = wins[u]
           \/ wins'[u] = wins[u] + 1 /\ \E p \in Held(u) : Held(u)' \subseteq Held(u) \ {p}
<1> DEFINE b == proc[s].bet
           v == predictions[b].user
           p == <<s, b>>
<1>1. /\ proc[s].pc = "credit" /\ wins' = [wins EXCEPT ![v] = @ + 1]
      /\ wins \in [Users -> Nat] /\ proc \in [Settlers -> ProcState]
  BY DEF Credit, CreditReplyLost, IncrementWins, SettleInv, SettleTypeOK
<1>2. CASE u # v
  BY <1>1, <1>2
<1>3. CASE u = v
  <2>1. b \in Closed(u) /\ b \notin proc[s].work
    BY <1>1, <1>3 DEF CreditClosed, Closed
  <2>2. p \in Held(u)
    BY <1>1, <2>1 DEF Held
  <2>3. b \notin proc'[s].work
    BY <2>1 DEF Takes, Closed
  <2>4. p \notin Held(u)'
    BY <2>3 DEF Held, Takes
  <2>5. Held(u)' \subseteq Held(u) \ {p}
    BY <2>4, HeldTakes
  <2> QED
    BY <1>1, <1>3, <2>2, <2>5
<1> QED
  BY <1>2, <1>3

\* Marking closes one row at most; who else holds it may count it too.
LEMMA HeldMark ==
    ASSUME SettleInv, CreditClosed, NEW s \in Settlers, NEW b \in BetIds,
           UpdateRow(s, b) \/ UpdateReplyLost(s, b)
    PROVE  /\ CreditClosed' /\ wins' = wins
           /\ \A u \in Users :
                  \/ Closed(u)' = Closed(u) /\ Held(u)' \subseteq Held(u)
                  \/ /\ b \notin Closed(u) /\ Closed(u)' = Closed(u) \cup {b}
                     /\ Held(u)' \subseteq Held(u) \cup (Settlers \X {b})
<1>1. /\ proc \in [Settlers -> ProcState] /\ proc[s].pc = "rows"
      /\ predictions \in [BetIds -> Row \cup {NoRow}]
      /\ b \in proc[s].work /\ predictions[b] \in Row /\ b \in Placed /\ wins' = wins
  BY DEF SettleInv, SettleTypeOK, StoreTypeOK, ProcOK, Placed, UpdateRow, UpdateReplyLost, Mark
<1>2. PICK st \in {"won", "lost"} : predictions' = [predictions EXCEPT ![b] = [@ EXCEPT !.status = st]]
  BY DEF UpdateRow, UpdateReplyLost, Mark, SetStatus
<1>3. /\ \A k \in BetIds : predictions'[k] # NoRow <=> predictions[k] # NoRow
      /\ \A k \in Placed : predictions'[k].user = predictions[k].user
      /\ \A k \in BetIds \ {b} : predictions'[k] = predictions[k]
      /\ predictions'[b].status = st
  BY <1>1, <1>2, NoRowAssumption DEF Placed, Row
<1>4. /\ Placed' = Placed /\ Pending' = Pending \ {b}
  BY <1>1, <1>3 DEF Placed, Pending
<1>5. /\ proc'[s].work = proc[s].work \ {b}
      /\ proc'[s].pc = "credit" => proc'[s].bet = b
      /\ \A t \in Settlers \ {s} : proc'[t] = proc[t]
  <2>1. \/ proc' = [proc EXCEPT ![s].work = @ \ {b}, ![s].bet = b, ![s].pc = "credit"]
        \/ proc' = [proc EXCEPT ![s].work = @ \ {b}]
    BY DEF UpdateRow, UpdateReplyLost
  <2> QED
    BY <1>1, <2>1 DEF ProcState
<1>6. CreditClosed'
  BY <1>1, <1>4, <1>5 DEF CreditClosed
<1>7. ASSUME NEW u \in Users
      PROVE  \/ Closed(u)' = Closed(u) /\ Held(u)' \subseteq Held(u)
             \/ /\ b \notin Closed(u) /\ Closed(u)' = Closed(u) \cup {b}
                /\ Held(u)' \subseteq Held(u) \cup (Settlers \X {b})
  <2>1. Closed(u)' = IF u = predictions[b].user THEN Closed(u) \cup {b} ELSE Closed(u)
    BY <1>1, <1>3, <1>4 DEF Closed, Placed
  <2>2. ASSUME NEW t \in Settlers, NEW k \in Closed(u),
               k \in proc'[t].work \/ (proc'[t].pc = "credit" /\ proc'[t].bet = k)
        PROVE  k \in proc[t].work \/ (proc[t].pc = "credit" /\ proc[t].bet = k)
    BY <1>1, <1>5, <2>2
  <2>3. Held(u)' \subseteq Held(u) \cup (Settlers \X {b})
    BY <2>1, <2>2 DEF Held
  <2>4. Closed(u)' = Closed(u) => Held(u)' \subseteq Held(u)
    BY <2>2 DEF Held
  <2> QED
    BY <2>1, <2>3, <2>4
<1> QED
  BY <1>1, <1>6, <1>7

\* A new row is pending.
LEMMA HeldBet ==
    ASSUME SettleInv, CreditClosed, SomeBet
    PROVE  /\ CreditClosed' /\ wins' = wins
           /\ \A u \in Users : Closed(u)' = Closed(u) /\ Held(u)' \subseteq Held(u)
<1>1. PICK b \in BetIds, v \in Users, m \in Matches, st \in SubTypes, c \in Codes :
          PlaceBet(b, v, m, st, c)
  BY DEF SomeBet
<1>2. /\ proc' = proc /\ wins' = wins /\ predictions \in [BetIds -> Row \cup {NoRow}]
      /\ predictions' = [predictions EXCEPT ![b] =
             [user |-> v, match |-> m, subType |-> st, code |-> c, status |-> "pending"]]
      /\ b \notin Placed
  BY <1>1 DEF PlaceBet, InsertRow, SettleInv, SettleTypeOK, StoreTypeOK, Placed
<1>3. /\ predictions'[b].status = "pending"
      /\ \A k \in BetIds \ {b} : predictions'[k] = predictions[k]
  BY <1>2
<1>4. \A k \in BetIds : (k \in Placed \ Pending)' = (k \in Placed \ Pending)
  BY <1>2, <1>3 DEF Placed, Pending
<1>5. \A k \in Placed \ Pending : predictions'[k].user = predictions[k].user
  BY <1>2, <1>3 DEF Placed
<1> QED
  BY <1>2, <1>4, <1>5, HeldFrame

LEMMA ShareInit == SettleInit => ShareInv
<1> SUFFICES ASSUME SettleInit PROVE ShareInv
  OBVIOUS
<1>1. \A u \in Users : wins[u] = 0 /\ Closed(u) = {} /\ Held(u) = {} /\ backfill[u] = 0
  BY DEF SettleInit, StoreInit, Closed, Placed, Held, NoBackfill
<1>2. CreditClosed
  BY DEF CreditClosed, SettleInit, Idle
<1>3. SnapshotClosed
  BY <1>1, FS_EmptySet DEF SnapshotClosed, SettleInit
<1>4. ASSUME NEW u \in Users PROVE Shared(u)
  <2>1. Cardinality(Closed(u)) = 0 /\ Cardinality(Held(u)) = 0
    BY <1>1, FS_EmptySet
  <2>2. Share \in Nat
    BY HeldFinite DEF Share
  <2> QED
    BY <1>1, <2>1, <2>2 DEF Shared
<1> QED
  BY <1>2, <1>3, <1>4, InitInv DEF ShareInv

\* The rows stay, the held ones become no more: so do the counts.
LEMMA SharedQuiet ==
    ASSUME SettleTypeOK, NEW u \in Users, Shared(u), Share' = Share, Closed(u)' = Closed(u),
           \/ wins'[u] = wins[u] /\ Held(u)' \subseteq Held(u)
           \/ wins'[u] = wins[u] + 1 /\ \E p \in Held(u) : Held(u)' \subseteq Held(u) \ {p}
    PROVE  Shared(u)'
<1>1. /\ IsFiniteSet(Held(u)) /\ Cardinality(Held(u)) \in Nat /\ wins[u] \in Nat
      /\ Cardinality(Closed(u)) \in Nat /\ Share \in Nat
  BY HeldFinite DEF SettleTypeOK, Share
<1>2. Share * Cardinality(Closed(u)) \in Nat
  BY <1>1, TimesMore
<1>3. wins[u] + Cardinality(Held(u)) <= Share * Cardinality(Closed(u))
  BY DEF Shared
<1>4. CASE wins'[u] = wins[u] /\ Held(u)' \subseteq Held(u)
  <2>1. Cardinality(Held(u)') <= Cardinality(Held(u)) /\ Cardinality(Held(u)') \in Nat
    BY <1>1, <1>4, FS_Subset, FS_CardinalityType
  <2> QED
    BY <1>1, <1>2, <1>3, <1>4, <2>1 DEF Shared
<1>5. CASE wins'[u] = wins[u] + 1 /\ \E p \in Held(u) : Held(u)' \subseteq Held(u) \ {p}
  <2>1. PICK p \in Held(u) : Held(u)' \subseteq Held(u) \ {p}
    BY <1>5
  <2>2. IsFiniteSet(Held(u) \ {p}) /\ Cardinality(Held(u) \ {p}) = Cardinality(Held(u)) - 1
    BY <1>1, FS_RemoveElement
  <2>3. Cardinality(Held(u)') <= Cardinality(Held(u) \ {p}) /\ Cardinality(Held(u)') \in Nat
    BY <2>1, <2>2, FS_Subset, FS_CardinalityType
  <2> QED
    BY <1>1, <1>2, <1>3, <1>5, <2>2, <2>3 DEF Shared
<1> QED
  BY <1>4, <1>5

\* One row more is closed: each settler may hold it.
LEMMA SharedMore ==
    ASSUME SettleTypeOK, NEW u \in Users, Shared(u), Share' = Share, wins'[u] = wins[u],
           NEW b, b \notin Closed(u), Closed(u)' = Closed(u) \cup {b},
           Held(u)' \subseteq Held(u) \cup (Settlers \X {b})
    PROVE  Shared(u)'
<1> DEFINE N == Cardinality(Settlers)
           H == Cardinality(Held(u))
           C == Cardinality(Closed(u))
<1>1. /\ IsFiniteSet(Settlers) /\ N \in Nat /\ IsFiniteSet(Held(u)) /\ H \in Nat
      /\ IsFiniteSet(Closed(u)) /\ C \in Nat /\ wins[u] \in Nat
  BY HeldFinite DEF SettleTypeOK
<1>2. Share \in Nat /\ N <= Share
  BY <1>1 DEF Share
<1>3. Cardinality(Closed(u)') = C + 1
  BY <1>1, FS_AddElement
<1>4. IsFiniteSet(Settlers \X {b}) /\ Cardinality(Settlers \X {b}) = N
  <2>1. IsFiniteSet({b}) /\ Cardinality({b}) = 1
    BY FS_Singleton
  <2> QED
    BY <1>1, <2>1, FS_Product
<1>5. /\ IsFiniteSet(Held(u) \cup (Settlers \X {b}))
      /\ Cardinality(Held(u) \cup (Settlers \X {b})) <= H + N
  <2>1. Cardinality(Held(u) \cap (Settlers \X {b})) \in Nat
    BY <1>1, FS_Intersection, FS_CardinalityType
  <2> QED
    BY <1>1, <1>4, <2>1, FS_Union
<1>6. Cardinality(Held(u)') <= H + N /\ Cardinality(Held(u)') \in Nat
  <2>1. IsFiniteSet(Held(u)')
    BY <1>5, FS_Subset
  <2>2. Cardinality(Held(u)') \in Nat /\ Cardinality(Held(u) \cup (Settlers \X {b})) \in Nat
    BY <1>5, <2>1, FS_CardinalityType
  <2>3. Cardinality(Held(u)') <= Cardinality(Held(u) \cup (Settlers \X {b}))
    BY <1>5, FS_Subset
  <2> QED
    BY <1>1, <1>5, <2>2, <2>3
<1> HIDE DEF N, H, C
<1>7. Share * (C + 1) = Share * C + Share /\ Share * C \in Nat
  BY <1>1, <1>2, TimesMore
<1>8. wins[u] + H <= Share * C
  BY DEF Shared, H, C
<1>9. wins[u] + Cardinality(Held(u)') <= Share * (C + 1)
  BY <1>1, <1>2, <1>6, <1>7, <1>8
<1> QED
  BY <1>3, <1>9 DEF Shared

\* Closed rows only come in, and the won rows are among them.
LEMMA ClosedStays ==
    ASSUME NEW u \in Users, Closed(u) \subseteq Closed(u)'
    PROVE  /\ Cardinality(Closed(u)) <= Cardinality(Closed(u)')
           /\ Cardinality(Closed(u)') \in Nat
<1>1. Closed(u)' \in SUBSET BetIds
  BY DEF Closed, Placed
<1> QED
  BY <1>1, StoreAssumption, FS_Subset, FS_CardinalityType

LEMMA WonClosed ==
    ASSUME NEW u \in Users
    PROVE  Cardinality(WonRows(u)) \in Nat /\ Cardinality(WonRows(u)) <= Cardinality(Closed(u))
<1>1. WonRows(u) \in SUBSET Closed(u)
  BY DEF WonRows, Closed, Pending
<1> QED
  BY <1>1, CountsFinite, HeldFinite, FS_Subset

LEMMA ShareNext == ShareInv /\ [SettleNext]_settleVars => ShareInv'
<1> SUFFICES ASSUME ShareInv, [SettleNext]_settleVars PROVE ShareInv'
  OBVIOUS
<1>1. SettleInv /\ CreditClosed /\ SettleInv' /\ SettleTypeOK
  BY NextInv DEF ShareInv, SettleInv
<1>2. /\ wins \in [Users -> Nat] /\ backfill \in [Users -> Nat] /\ restarts \in Nat
      /\ proc \in [Settlers -> ProcState]
  BY <1>1 DEF SettleTypeOK
<1>3. ASSUME UNCHANGED <<server, backfill, restarts>>, CreditClosed',
             \A u \in Users :
                 \/ /\ Closed(u)' = Closed(u)
                    /\ \/ wins'[u] = wins[u] /\ Held(u)' \subseteq Held(u)
                       \/ wins'[u] = wins[u] + 1 /\ \E p \in Held(u) : Held(u)' \subseteq Held(u) \ {p}
                 \/ /\ wins'[u] = wins[u]
                    /\ \E b \in BetIds : /\ b \notin Closed(u) /\ Closed(u)' = Closed(u) \cup {b}
                                         /\ Held(u)' \subseteq Held(u) \cup (Settlers \X {b})
      PROVE  ShareInv'
  <2>1. Share' = Share
    BY <1>3 DEF Share
  <2>2. \A u \in Users : Shared(u)'
    BY <1>1, <1>3, <2>1, SharedQuiet, SharedMore DEF ShareInv
  <2>3. SnapshotClosed'
    <3>1. ASSUME NEW u \in Users PROVE backfill'[u] <= Cardinality(Closed(u)')
      <4>1. Closed(u) \subseteq Closed(u)'
        BY <1>3
      <4>2. backfill[u] <= Cardinality(Closed(u)) /\ Cardinality(Closed(u)) \in Nat
        BY HeldFinite DEF ShareInv, SnapshotClosed
      <4> QED
        BY <1>2, <1>3, <4>1, <4>2, ClosedStays
    <3> QED
      BY <1>3, <3>1 DEF ShareInv, SnapshotClosed
  <2> QED
    BY <1>1, <1>3, <2>2, <2>3 DEF ShareInv
<1>4. ~RestartServer /\ ~BackfillWins => UNCHANGED <<server, backfill, restarts>>
  BY <1>1, Counters DEF serverVars
<1>5. CASE RestartServer
  <2>1. /\ wins' = wins /\ predictions' = predictions /\ restarts' = restarts + 1
        /\ \A u \in Users : backfill'[u] \in {Cardinality(WonRows(u)), 0}
        /\ \A t \in Settlers : proc'[t] = proc[t] \/ proc'[t] = Idle
    BY <1>2, <1>5 DEF RestartServer, dbVars
  <2>2. /\ Placed' = Placed /\ Pending' = Pending
    BY <2>1 DEF Placed, Pending
  <2>3. CreditClosed' /\ \A u \in Users : Closed(u)' = Closed(u) /\ Held(u)' \subseteq Held(u)
    <3>1. \A t \in Settlers :
              /\ proc'[t].work \subseteq proc[t].work \cup Pending
              /\ proc'[t].pc = "credit" => proc[t].pc = "credit" /\ proc'[t].bet = proc[t].bet
      BY <2>1 DEF Idle
    <3> QED
      BY <1>1, <2>1, <2>2, <3>1, HeldFrame
  <2>4. restarts' > 0 /\ Share' = Cardinality(Settlers) + 1
    BY <1>2, <2>1 DEF Share
  <2>5. ASSUME NEW u \in Users PROVE Shared(u)' /\ backfill'[u] <= Cardinality(Closed(u)')
    <3> DEFINE N == Cardinality(Settlers)
               C == Cardinality(Closed(u))
    <3>1. N \in Nat /\ C \in Nat /\ wins[u] \in Nat /\ Cardinality(Held(u)) \in Nat
      BY <1>2, HeldFinite
    <3>2. Cardinality(Held(u)') <= Cardinality(Held(u)) /\ Cardinality(Held(u)') \in Nat
      BY <2>3, HeldFinite, FS_Subset, FS_CardinalityType
    <3>3. wins[u] + Cardinality(Held(u)) <= Share * C
      BY DEF ShareInv, Shared
    <3>4. (N + 1) * C = N * C + C /\ N * C \in Nat
      BY <3>1, TimesMore
    <3>5. Share = N \/ Share = N + 1
      BY <3>1 DEF Share
    <3> HIDE DEF N, C
    <3>6. Share * C <= (N + 1) * C /\ Share * C \in Nat
      <4>1. CASE Share = N
        BY <3>1, <3>4, <4>1
      <4>2. CASE Share = N + 1
        BY <3>1, <3>4, <4>2
      <4> QED
        BY <3>5, <4>1, <4>2
    <3>7. wins[u] + Cardinality(Held(u)') <= (N + 1) * C
      BY <3>1, <3>2, <3>3, <3>4, <3>6
    <3>8. Shared(u)'
      BY <2>1, <2>3, <2>4, <3>7 DEF Shared, N, C
    <3>9. backfill'[u] <= C
      BY <2>1, <3>1, WonClosed DEF C
    <3> QED
      BY <2>3, <3>8, <3>9 DEF C
  <2> QED
    BY <1>1, <2>3, <2>4, <2>5 DEF ShareInv, SnapshotClosed
<1>6. CASE BackfillWins
  <2>1. /\ server = "backfill" /\ server' = "up" /\ restarts' = restarts /\ restarts > 0
        /\ predictions' = predictions /\ proc' = proc
        /\ \A u \in Users : /\ wins'[u] = IF backfill[u] > 0 THEN backfill[u] ELSE wins[u]
                            /\ backfill'[u] = 0
    BY <1>6 DEF BackfillWins, NoBackfill, ShareInv, SnapshotClosed
  <2>2. Placed' = Placed /\ Pending' = Pending
    BY <2>1 DEF Placed, Pending
  <2>3. CreditClosed' /\ \A u \in Users : Closed(u)' = Closed(u) /\ Held(u)' = Held(u)
    BY <1>1, <2>1, <2>2 DEF CreditClosed, Closed, Held
  <2>4. Share = Cardinality(Settlers) + 1 /\ Share' = Share
    BY <2>1 DEF Share
  <2>5. ASSUME NEW u \in Users PROVE Shared(u)' /\ backfill'[u] <= Cardinality(Closed(u)')
    <3> DEFINE N == Cardinality(Settlers)
               C == Cardinality(Closed(u))
               H == Cardinality(Held(u))
    <3>1. N \in Nat /\ C \in Nat /\ wins[u] \in Nat /\ H \in Nat /\ H <= N * C
      BY <1>2, HeldFinite
    <3>2. wins[u] + H <= Share * C /\ backfill[u] <= C /\ backfill[u] \in Nat
      BY <1>2 DEF ShareInv, Shared, SnapshotClosed
    <3> HIDE DEF N, C, H
    <3>3. Share * C = N * C + C /\ N * C \in Nat
      BY <2>4, <3>1, TimesMore DEF N
    <3>4. wins'[u] + H <= Share * C
      BY <2>1, <3>1, <3>2, <3>3
    <3> QED
      BY <2>1, <2>3, <2>4, <3>1, <3>4 DEF Shared, C, H
  <2> QED
    BY <1>1, <2>1, <2>3, <2>5 DEF ShareInv, SnapshotClosed
<1>7. CASE SomeBet
  BY <1>1, <1>3, <1>4, <1>5, <1>6, <1>7, HeldBet
<1>8. CASE predictions' = predictions /\ proc' = proc /\ wins' = wins
  <2>1. CreditClosed' /\ \A u \in Users : Closed(u)' = Closed(u) /\ Held(u)' = Held(u)
    BY <1>1, <1>8 DEF CreditClosed, Closed, Held, Placed, Pending
  <2> QED
    BY <1>3, <1>4, <1>5, <1>6, <1>8, <2>1
<1>9. ASSUME NEW s \in Settlers, Takes(s), wins' = wins \/ Credit(s) \/ CreditReplyLost(s)
      PROVE  ShareInv'
  <2>1. CreditClosed' /\ \A u \in Users : Closed(u)' = Closed(u) /\ Held(u)' \subseteq Held(u)
    BY <1>1, <1>9, HeldTakes
  <2>2. ASSUME NEW u \in Users
        PROVE  \/ wins'[u] = wins[u]
               \/ wins'[u] = wins[u] + 1 /\ \E p \in Held(u) : Held(u)' \subseteq Held(u) \ {p}
    BY <1>1, <1>9, HeldCredit
  <2> QED
    BY <1>3, <1>4, <1>5, <1>6, <2>1, <2>2
<1>10. ASSUME NEW s \in Settlers, NEW b \in BetIds, UpdateRow(s, b) \/ UpdateReplyLost(s, b)
       PROVE  ShareInv'
  BY <1>1, <1>3, <1>4, <1>5, <1>6, <1>10, HeldMark
<1> QED
  BY <1>1, <1>5, <1>6, <1>7, <1>8, <1>9, <1>10, StepTakes

\* For any numbers of settlers, of the rows they share, of failures and of starts of the
\* server: a row is counted at most once by each settler, and once more by the migrations
\* of all starts together.
THEOREM RowsAreCountedOncePerSettler == SettleSpec => []CountedOncePerSettler
<1>1. ShareInv => CountedOncePerSettler
  <2> SUFFICES ASSUME ShareInv, NEW u \in Users
               PROVE  wins[u] <= Share * Cardinality(Closed(u))
    BY DEF CountedOncePerSettler, Share
  <2>1. /\ Cardinality(Settlers) \in Nat /\ Share \in Nat
        /\ Cardinality(Closed(u)) \in Nat /\ Cardinality(Held(u)) \in Nat
    BY HeldFinite DEF Share
  <2>2. Share * Cardinality(Closed(u)) \in Nat /\ wins[u] \in Nat
    BY <2>1, TimesMore DEF ShareInv, SettleInv, SettleTypeOK
  <2> QED
    BY <2>1, <2>2 DEF ShareInv, Shared
<1> QED
  BY <1>1, ShareInit, ShareNext, PTL DEF SettleSpec

-----------------------------------------------------------------------------
(* A single settler implements the interface the readers of the table are  *)
(* built on.                                                               *)

\* A step that leaves the rows, the results and their history alone.
Quiet == UNCHANGED <<predictions, results, published>>

\* Storing a crawled result, whatever comes of the reply.
LEMMA StoringIsNews ==
    ASSUME SettleInv, NEW s \in Spiders, NEW m \in Matches, UpsertResult(s, m) \/ UpsertFails(s, m)
    PROVE  Quiet \/ \E r \in Table!Result : Table!StoreResult(m, r)
<1>1. /\ page[s][m] # NoResult
      /\ page \in [Spiders -> [Matches -> Result \cup {NoResult}]]
      /\ predictions' = predictions
  BY DEF SettleInv, SettleTypeOK, UpsertResult, UpsertFails
<1>2. page[s][m] \in Table!Result
  BY <1>1 DEF Result, Draws, Table!Result, Table!Draws
<1>3. StoreResult(m, page[s][m]) \/ UNCHANGED <<results, published>>
  BY DEF UpsertResult, UpsertFails
<1> QED
  BY <1>1, <1>2, <1>3 DEF Quiet, StoreResult, Table!StoreResult

\* Marking a row closes a pending one, by a draw stored as valid before.
LEMMA MarkingCloses ==
    ASSUME Solo, SettleInv, WorkPending, NEW s \in Settlers, NEW b \in BetIds,
           UpdateRow(s, b) \/ UpdateReplyLost(s, b)
    PROVE  Table!CloseRow(b)
<1>1. /\ proc[s].pc = "rows" /\ b \in proc[s].work /\ b \in Pending
      /\ SetStatus(b, IF IsCorrect(proc[s].draw, predictions[b]) THEN "won" ELSE "lost")
      /\ results' = results /\ published' = published
  BY DEF UpdateRow, UpdateReplyLost, Mark, WorkPending
<1>2. proc[s].draw \in published[predictions[b].match]
  BY <1>1 DEF SettleInv, ProcOK
<1>3. SetStatus(b, Table!Verdict(proc[s].draw, predictions[b]))
  BY <1>1 DEF IsCorrect, Table!Verdict
<1> QED
  BY <1>1, <1>2, <1>3 DEF SetStatus, Pending, Placed, Table!CloseRow, Table!SetStatus, Table!Pending,
                          Table!Placed

LEMMA QuietSteps ==
    ASSUME NEW s \in Settlers,
           \/ ReadResult(s) \/ QueryPending(s) \/ Credit(s) \/ RowsEnd(s) \/ GradeExperts(s)
           \/ GradeAis(s) \/ CallFails(s) \/ CreditReplyLost(s)
           \/ (\E b \in BetIds : UpdateFails(s, b)) \/ RowsCut(s) \/ GradeFails(s)
           \/ (\E m \in Matches : ApiCall(s, m)) \/ RestartServer \/ BackfillWins
           \/ SomeNews \/ Crawl(s) \/ PageDone(s) \/ CrawlCut(s) \/ SpiderCrash(s)
    PROVE  Quiet
  BY DEF Quiet, ReadResult, QueryPending, Credit, RowsEnd, GradeExperts, GradeAis, CallFails,
         CreditReplyLost, UpdateFails, RowsCut, GradeFails, ApiCall, RestartServer, BackfillWins,
         SomeNews, Publish, Crawl, PageDone, CrawlCut, SpiderCrash, dbVars, IncrementWins

LEMMA SettlementStepMaps ==
    ASSUME Solo, SettleInv, WorkPending, [SettleNext]_settleVars
    PROVE  Quiet \/ Table!RowsNext
<1>1. CASE SomeBet
  <2>1. PICK b \in BetIds, u \in Users, m \in Matches, st \in SubTypes, c \in Codes :
            PlaceBet(b, u, m, st, c)
    BY <1>1 DEF SomeBet
  <2>2. Collisions(u, m, st) = Table!Collisions(u, m, st)
    BY DEF Collisions, Pending, Placed, Table!Collisions, Table!Pending, Table!Placed
  <2>3. Table!AddRow(b, u, m, st, c)
    BY <2>1, <2>2 DEF PlaceBet, InsertRow, Table!AddRow, Table!InsertRow
  <2> QED
    BY <2>3 DEF Table!RowsNext
<1>2. CASE SomeNews \/ RestartServer \/ BackfillWins
  BY <1>2 DEF Quiet, SomeNews, Publish, RestartServer, BackfillWins, dbVars
<1>3. ASSUME NEW s \in Settlers, SettleCall(s) \/ CallFault(s)
      PROVE  Quiet \/ Table!RowsNext
  BY <1>3, QuietSteps, MarkingCloses DEF SettleCall, CallFault, Table!RowsNext
<1>4. ASSUME NEW s \in Spiders, SpiderStep(s) \/ SpiderFault(s)
      PROVE  Quiet \/ Table!RowsNext
  BY <1>3, <1>4, QuietSteps, StoringIsNews DEF SpiderStep, SpiderFault, Settlers, Table!RowsNext
<1>5. ASSUME NEW s \in Apis, ApiStep(s)
      PROVE  Quiet \/ Table!RowsNext
  BY <1>3, <1>5, QuietSteps DEF ApiStep, Settlers
<1>6. CASE UNCHANGED settleVars
  BY <1>6 DEF Quiet, settleVars, dbVars
<1> QED
  BY <1>1, <1>2, <1>3, <1>4, <1>5, <1>6 DEF SettleNext

\* Settlement by a single settler implements the interface Boards is built on: rows
\* come in as pending and are closed once, by a draw stored as valid before,
\* whatever fails, dies, restarts or is corrected meanwhile.
THEOREM SettlementImplementsRows ==
    ASSUME Solo
    PROVE  SettleSpec => ImplementsRows
<1>1. SettleInit => SettleInv /\ WorkPending
  BY InitInv, SoloInit DEF SoloInv
<1>2. SettleInv /\ WorkPending /\ [SettleNext]_settleVars => (SettleInv /\ WorkPending)'
  BY NextInv, SoloRows
<1>3. SettleInit => Table!RowsInit
  BY DEF SettleInit, StoreInit, EmptyPage, Table!RowsInit, Table!StoreInit
<1>4. SettleInv /\ WorkPending /\ [SettleNext]_settleVars => [Table!RowsNext]_(Table!rowsVars)
  BY SettlementStepMaps DEF Quiet, Table!rowsVars
<1> QED
  BY <1>1, <1>2, <1>3, <1>4, PTL DEF SettleSpec, ImplementsRows, Table!RowsSpec
=============================================================================
