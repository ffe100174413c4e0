----------------------------- MODULE Settlement -----------------------------
(***************************************************************************)
(* Settlement of the predictions of a match.                               *)
(*                                                                         *)
(* Two programs settle: the spider, after it stores each crawled result    *)
(* (crawler/pipeline.go RunFootballResults), and the server, once per      *)
(* POST /matches/:id/settle (service/result/result.go SettleMatch).  Both  *)
(* run repo/user_repo.go SettleAllForMatch, a sequence of separate         *)
(* autocommitted statements; an action below is one statement with the     *)
(* local computation that follows it.  A settler keeps in proc[s] what it  *)
(* has read, which may be stale by the time it is used.                    *)
(*                                                                         *)
(* A failed statement, a truncated crawl or a dying process is a fault;    *)
(* faults are bounded by MaxFaults, changes of the published results by    *)
(* MaxRevisions, restarts of the server by MaxRestarts (bounds of the      *)
(* model, the code has none).  Every start of the server runs all the      *)
(* migrations again, 003_backfill_users_wins.sql among them.               *)
(***************************************************************************)
EXTENDS Store

CONSTANTS Spiders,       \* spider processes (one, while the advisory lock holds)
          Apis,          \* concurrent settle requests of the server
          Experts, Ais,  \* predictors: rows of expert_predictions, ai_predictions
          NoCode,        \* a result without a draw for a sub type
          NoResult,      \* no row of match_results, nothing in the feed
          NoMatch, NoBet, NoDraw,
          MaxRevisions, MaxFaults, MaxRestarts

Settlers == Spiders \cup Apis
Pickers  == Experts \cup Ais
Draws    == [SubTypes -> Codes \cup {NoCode}]
Result   == [valid : BOOLEAN, draw : Draws]
PickKeys == Pickers \X Matches \X SubTypes

ASSUME SettleAssumption ==
    /\ IsFiniteSet(Spiders) /\ IsFiniteSet(Apis)
    /\ Spiders \cap Apis = {}
    /\ NoCode \notin Codes
    /\ NoResult \notin Result
    /\ NoMatch \notin Matches
    /\ NoBet \notin BetIds
    /\ MaxRevisions \in Nat /\ MaxFaults \in Nat /\ MaxRestarts \in Nat

VARIABLES wins,       \* users.wins
          results,    \* match_results
          picks,      \* expert_predictions and ai_predictions: code, is_correct
          feed,       \* the results the lottery site publishes now (external)
          page,       \* per spider: crawled results not stored yet
          proc,       \* per settler: where it is in SettleAllForMatch, what it read
          server,     \* "up" or, while the migrations run, "backfill"
          backfill,   \* the snapshot migration 003 works from
          published,  \* history: the draws ever stored as valid, per match
          revisions, faults, restarts,
          losses      \* history: the wins that may be missing (NoWinLost)

dbVars     == <<predictions, wins, results, picks>>
serverVars == <<server, backfill, restarts>>
feedVars   == <<feed, revisions>>
lossVars   == <<faults, losses>>
settleVars == <<dbVars, serverVars, feedVars, page, proc, published, lossVars>>

Idle == [pc |-> "idle", match |-> NoMatch, draw |-> NoDraw, work |-> {}, bet |-> NoBet]

EmptyPage == [m \in Matches |-> NoResult]

NoBackfill == [u \in Users |-> 0]

\* Predictors of a match pick one code each and are not graded yet.
UngradedPick == [code : Codes, grade : {"none"}]

SettleInit ==
    /\ StoreInit
    /\ wins = [u \in Users |-> 0]
    /\ results = EmptyPage
    /\ picks \in [PickKeys -> UngradedPick]
    /\ feed = EmptyPage
    /\ page = [s \in Spiders |-> EmptyPage]
    /\ proc = [s \in Settlers |-> Idle]
    /\ server = "up"
    /\ backfill = NoBackfill
    /\ published = [m \in Matches |-> {}]
    /\ revisions = 0 /\ faults = 0 /\ losses = 0 /\ restarts = 0

-----------------------------------------------------------------------------
(* The environment: bets arrive, the site publishes, corrects, invalidates *)
(* or stops listing (after seven days) a result.                           *)

\* bet.go CreateBet and main.go runRobotPredict, as settlement sees them;
\* Betting models them step by step.
PlaceBet(b, u, m, st, c) ==
    /\ InsertRow(b, u, m, st, c)
    /\ UNCHANGED <<wins, results, picks, serverVars, feedVars, page, proc, published, lossVars>>

\* External: the site's page of results of the last seven days.
Publish(m, r) ==
    /\ revisions < MaxRevisions
    /\ r # feed[m]
    /\ feed' = [feed EXCEPT ![m] = r]
    /\ revisions' = revisions + 1
    /\ UNCHANGED <<dbVars, serverVars, page, proc, published, lossVars>>

-----------------------------------------------------------------------------
(* The spider's loop over the crawled results.                             *)

Crawl(s) ==
    /\ proc[s].pc = "idle"
    /\ page' = [page EXCEPT ![s] = feed]
    /\ proc' = [proc EXCEPT ![s].pc = "upsert"]
    /\ UNCHANGED <<dbVars, serverVars, feedVars, published, lossVars>>

\* Writes the stored row from the crawled one, valid or not, revised or not.
StoreResult(m, r) ==
    /\ results' = [results EXCEPT ![m] = r]
    /\ published' = [published EXCEPT ![m] = IF r.valid THEN @ \cup {r.draw} ELSE @]

\* Mutant: a result that is stored already is not settled again.
UpsertResult_NewOnly(s, m) ==
    LET r == page[s][m] IN
    /\ proc[s].pc = "upsert"
    /\ r # NoResult
    /\ StoreResult(m, r)
    /\ page' = [page EXCEPT ![s][m] = NoResult]
    /\ proc' = IF r.valid /\ results[m] # r
               THEN [proc EXCEPT ![s].pc = "read", ![s].match = m]
               ELSE proc
    /\ UNCHANGED <<predictions, wins, picks, serverVars, feedVars, lossVars>>

UpsertResult(s, m) ==
    LET r == page[s][m] IN
    /\ proc[s].pc = "upsert"
    /\ r # NoResult
    /\ StoreResult(m, r)
    /\ page' = [page EXCEPT ![s][m] = NoResult]
    /\ proc' = IF r.valid
               THEN [proc EXCEPT ![s].pc = "read", ![s].match = m]
               ELSE proc
    /\ UNCHANGED <<predictions, wins, picks, serverVars, feedVars, lossVars>>

PageDone(s) ==
    /\ proc[s].pc = "upsert"
    /\ page[s] = EmptyPage
    /\ proc' = [proc EXCEPT ![s] = Idle]
    /\ UNCHANGED <<dbVars, serverVars, feedVars, page, published, lossVars>>

-----------------------------------------------------------------------------
(* SettleAllForMatch                                                       *)

\* POST /matches/:id/settle
ApiCall(s, m) ==
    /\ server = "up"
    /\ proc[s].pc = "idle"
    /\ proc' = [proc EXCEPT ![s].pc = "read", ![s].match = m]
    /\ UNCHANGED <<dbVars, serverVars, feedVars, page, published, lossVars>>

\* Where a settler goes when SettleAllForMatch returns: the spider to the next
\* result of its page, a request to its end.
Return(s) ==
    proc' = [proc EXCEPT ![s] = IF s \in Spiders THEN [Idle EXCEPT !.pc = "upsert"] ELSE Idle]

\* Mutant: the validity of the stored result is not checked.
ReadResult_NoValidCheck(s) ==
    LET r == results[proc[s].match] IN
    /\ proc[s].pc = "read"
    /\ IF r # NoResult
       THEN proc' = [proc EXCEPT ![s].pc = "query", ![s].draw = r.draw]
       ELSE Return(s)
    /\ UNCHANGED <<dbVars, serverVars, feedVars, page, published, lossVars>>

ReadResult(s) ==
    LET r == results[proc[s].match] IN
    /\ proc[s].pc = "read"
    /\ IF r # NoResult /\ r.valid
       THEN proc' = [proc EXCEPT ![s].pc = "query", ![s].draw = r.draw]
       ELSE Return(s)
    /\ UNCHANGED <<dbVars, serverVars, feedVars, page, published, lossVars>>

\* Mutant: the query takes every prediction of the match, settled ones too.
QueryPending_All(s) ==
    /\ proc[s].pc = "query"
    /\ proc' = [proc EXCEPT ![s].pc = "rows",
                            ![s].work = {b \in Placed : predictions[b].match = proc[s].match}]
    /\ UNCHANGED <<dbVars, serverVars, feedVars, page, published, lossVars>>

QueryPending(s) ==
    /\ proc[s].pc = "query"
    /\ proc' = [proc EXCEPT ![s].pc = "rows",
                            ![s].work = {b \in Pending : predictions[b].match = proc[s].match}]
    /\ UNCHANGED <<dbVars, serverVars, feedVars, page, published, lossVars>>

\* A sub type without a draw makes every bet on it lost.
IsCorrect(draw, row) == draw[row.subType] = row.code

\* The row is updated by id: no condition on the status it has by now.
Mark(s, b) ==
    /\ proc[s].pc = "rows"
    /\ b \in proc[s].work
    /\ SetStatus(b, IF IsCorrect(proc[s].draw, predictions[b]) THEN "won" ELSE "lost")

UpdateRow(s, b) ==
    /\ Mark(s, b)
    /\ proc' = IF IsCorrect(proc[s].draw, predictions[b])
               THEN [proc EXCEPT ![s].work = @ \ {b}, ![s].bet = b, ![s].pc = "credit"]
               ELSE [proc EXCEPT ![s].work = @ \ {b}]
    /\ losses' = IF server = "backfill" /\ IsCorrect(proc[s].draw, predictions[b])
                 THEN losses + 1 ELSE losses
    /\ UNCHANGED <<wins, results, picks, serverVars, feedVars, page, published, faults>>

\* Mutant: the count is not incremented.
Credit_Skipped(s) ==
    /\ proc[s].pc = "credit"
    /\ proc' = [proc EXCEPT ![s].bet = NoBet, ![s].pc = "rows"]
    /\ UNCHANGED <<dbVars, serverVars, feedVars, page, published, lossVars>>

\* Mutant: the sign of the increment is wrong.
Credit_Minus(s) ==
    /\ proc[s].pc = "credit"
    /\ wins' = [wins EXCEPT ![predictions[proc[s].bet].user] = @ - 1]
    /\ proc' = [proc EXCEPT ![s].bet = NoBet, ![s].pc = "rows"]
    /\ UNCHANGED <<predictions, results, picks, serverVars, feedVars, page, published, lossVars>>

IncrementWins(s) ==
    /\ proc[s].pc = "credit"
    /\ wins' = [wins EXCEPT ![predictions[proc[s].bet].user] = @ + 1]

Credit(s) ==
    /\ IncrementWins(s)
    /\ proc' = [proc EXCEPT ![s].bet = NoBet, ![s].pc = "rows"]
    /\ UNCHANGED <<predictions, results, picks, serverVars, feedVars, page, published, lossVars>>

RowsEnd(s) ==
    /\ proc[s].pc = "rows"
    /\ proc[s].work = {}
    /\ proc' = [proc EXCEPT ![s].pc = "experts"]
    /\ UNCHANGED <<dbVars, serverVars, feedVars, page, published, lossVars>>

\* The picks a loop over the draws grades once it has reached the sub types sts.
\* The statements of one loop touch disjoint rows, so the loop is one step.
Graded(s, ks, sts) ==
    LET draw == proc[s].draw
        hit(k) == /\ k[1] \in ks /\ k[2] = proc[s].match
                  /\ k[3] \in sts /\ draw[k[3]] # NoCode
                  /\ picks[k].grade = "none"
    IN  [k \in PickKeys |->
            IF hit(k)
            THEN [picks[k] EXCEPT !.grade = IF picks[k].code = draw[k[3]] THEN "right" ELSE "wrong"]
            ELSE picks[k]]

GradeExperts(s) ==
    /\ proc[s].pc = "experts"
    /\ picks' = Graded(s, Experts, SubTypes)
    /\ proc' = [proc EXCEPT ![s].pc = "ais"]
    /\ UNCHANGED <<predictions, wins, results, serverVars, feedVars, page, published, lossVars>>

GradeAis(s) ==
    /\ proc[s].pc = "ais"
    /\ picks' = Graded(s, Ais, SubTypes)
    /\ Return(s)
    /\ UNCHANGED <<predictions, wins, results, serverVars, feedVars, page, published, lossVars>>

-----------------------------------------------------------------------------
(* Faults                                                                  *)

Fault == faults < MaxFaults /\ faults' = faults + 1 /\ losses' = losses + 1

\* Results pages that fail after the first are dropped without an error.
CrawlCut(s) ==
    /\ Fault
    /\ proc[s].pc = "idle"
    /\ \E kept \in SUBSET Matches :
           page' = [page EXCEPT ![s] = [m \in Matches |-> IF m \in kept THEN feed[m] ELSE NoResult]]
    /\ proc' = [proc EXCEPT ![s].pc = "upsert"]
    /\ UNCHANGED <<dbVars, serverVars, feedVars, published>>

UpsertFails(s, m) ==
    /\ Fault
    /\ proc[s].pc = "upsert"
    /\ page[s][m] # NoResult
    /\ StoreResult(m, page[s][m]) \/ UNCHANGED <<results, published>>
    /\ page' = [page EXCEPT ![s][m] = NoResult]
    /\ UNCHANGED <<predictions, wins, picks, serverVars, feedVars, proc>>

\* The reads fail: SettleAllForMatch returns before it changes anything.  The
\* increment fails: it returns early, and the rest of its rows stay pending.
CallFails(s) ==
    /\ Fault
    /\ proc[s].pc \in {"read", "query", "credit"}
    /\ Return(s)
    /\ UNCHANGED <<dbVars, serverVars, feedVars, page, published>>

\* The increment took effect, but its reply is lost: an early return again.
CreditReplyLost(s) ==
    /\ Fault
    /\ IncrementWins(s)
    /\ Return(s)
    /\ UNCHANGED <<predictions, results, picks, serverVars, feedVars, page, published>>

\* A row whose update fails is skipped.
UpdateFails(s, b) ==
    /\ Fault
    /\ proc[s].pc = "rows"
    /\ b \in proc[s].work
    /\ proc' = [proc EXCEPT ![s].work = @ \ {b}]
    /\ UNCHANGED <<dbVars, serverVars, feedVars, page, published>>

\* The row was updated, but the reply is lost: it is skipped, and no win is counted.
UpdateReplyLost(s, b) ==
    /\ Fault
    /\ Mark(s, b)
    /\ proc' = [proc EXCEPT ![s].work = @ \ {b}]
    /\ UNCHANGED <<wins, results, picks, serverVars, feedVars, page, published>>

\* The row iterator fails: the loop ends as if there were no more rows.
RowsCut(s) ==
    /\ Fault
    /\ proc[s].pc = "rows"
    /\ proc[s].work # {}
    /\ proc' = [proc EXCEPT ![s].work = {}, ![s].pc = "experts"]
    /\ UNCHANGED <<dbVars, serverVars, feedVars, page, published>>

\* A grading statement fails: its loop stops there, and the error is ignored.
GradeFails(s) ==
    /\ Fault
    /\ \E sts \in SUBSET SubTypes :
         \/ /\ proc[s].pc = "experts"
            /\ picks' = Graded(s, Experts, sts)
            /\ proc' = [proc EXCEPT ![s].pc = "ais"]
         \/ /\ proc[s].pc = "ais"
            /\ picks' = Graded(s, Ais, sts)
            /\ Return(s)
    /\ UNCHANGED <<predictions, wins, results, serverVars, feedVars, page, published>>

\* The spider dies, or a panic is recovered; the next run crawls again.
SpiderCrash(s) ==
    /\ Fault
    /\ proc[s].pc # "idle"
    /\ proc' = [proc EXCEPT ![s] = Idle]
    /\ page' = [page EXCEPT ![s] = EmptyPage]
    /\ UNCHANGED <<dbVars, serverVars, feedVars, published>>

-----------------------------------------------------------------------------
(* The server restarts (a deployment or a crash): its requests are gone,   *)
(* and it serves again once migration 003 has run.  That is one UPDATE     *)
(* that compares wins with the number of won rows in its snapshot, and     *)
(* writes the snapshot's number into the rows it selected.                 *)

RestartServer ==
    /\ restarts < MaxRestarts
    /\ server = "up"
    /\ restarts' = restarts + 1
    /\ server' = "backfill"
    /\ backfill' = [u \in Users |-> IF wins[u] # Cardinality(WonRows(u))
                                    THEN Cardinality(WonRows(u)) ELSE 0]
    /\ losses' = 0
    /\ proc' = [s \in Settlers |-> IF s \in Apis THEN Idle ELSE proc[s]]
    /\ UNCHANGED <<dbVars, feedVars, page, published, faults>>

\* A user without a won row has no row in the joined count and is left alone.
\* Migration 004, which follows, deletes the experts and their picks.
BackfillWins ==
    /\ server = "backfill"
    /\ wins' = [u \in Users |-> IF backfill[u] > 0 THEN backfill[u] ELSE wins[u]]
    /\ picks' = [k \in PickKeys |-> IF k[1] \in Experts THEN [picks[k] EXCEPT !.grade = "deleted"]
                                                       ELSE picks[k]]
    /\ server' = "up"
    /\ backfill' = NoBackfill
    /\ UNCHANGED <<predictions, results, restarts, feedVars, page, proc, published, lossVars>>

-----------------------------------------------------------------------------
SettleCall(s) ==
    \/ ReadResult(s)
    \/ QueryPending(s)
    \/ \E b \in BetIds : UpdateRow(s, b)
    \/ Credit(s)
    \/ RowsEnd(s)
    \/ GradeExperts(s)
    \/ GradeAis(s)

SpiderStep(s) ==
    \/ Crawl(s)
    \/ \E m \in Matches : UpsertResult(s, m)
    \/ PageDone(s)
    \/ SettleCall(s)

ApiStep(s) ==
    \/ \E m \in Matches : ApiCall(s, m)
    \/ SettleCall(s)

SpiderFault(s) ==
    \/ CrawlCut(s)
    \/ \E m \in Matches : UpsertFails(s, m)
    \/ SpiderCrash(s)

CallFault(s) ==
    \/ CallFails(s)
    \/ CreditReplyLost(s)
    \/ \E b \in BetIds : UpdateFails(s, b) \/ UpdateReplyLost(s, b)
    \/ RowsCut(s)
    \/ GradeFails(s)

SomeBet == \E b \in BetIds, u \in Users, m \in Matches, st \in SubTypes, c \in Codes :
               PlaceBet(b, u, m, st, c)

SomeNews == \E m \in Matches, r \in Result \cup {NoResult} : Publish(m, r)

SettleNext ==
    \/ SomeBet
    \/ SomeNews
    \/ \E s \in Spiders : SpiderStep(s) \/ SpiderFault(s)
    \/ \E s \in Apis : ApiStep(s)
    \/ \E s \in Settlers : CallFault(s)
    \/ RestartServer
    \/ BackfillWins

SettleSpec == SettleInit /\ [][SettleNext]_settleVars

\* The spider's tickers fire for ever and its statements return.  Nothing makes a
\* client call the endpoint, and no property waits for the server.
SettleFairness == \A s \in Spiders : WF_settleVars(SpiderStep(s))

FairSettleSpec == SettleSpec /\ SettleFairness

-----------------------------------------------------------------------------
(* Properties                                                              *)

ProcState == [pc : {"idle", "upsert", "read", "query", "rows", "credit", "experts", "ais"},
              match : Matches \cup {NoMatch}, draw : Draws \cup {NoDraw},
              work : SUBSET BetIds, bet : BetIds \cup {NoBet}]

Pick == [code : Codes, grade : {"none", "right", "wrong", "deleted"}]

SettleTypeOK ==
    /\ StoreTypeOK
    /\ wins \in [Users -> Nat]
    /\ results \in [Matches -> Result \cup {NoResult}]
    /\ picks \in [PickKeys -> Pick]
    /\ feed \in [Matches -> Result \cup {NoResult}]
    /\ page \in [Spiders -> [Matches -> Result \cup {NoResult}]]
    /\ proc \in [Settlers -> ProcState]
    /\ server \in {"up", "backfill"}
    /\ backfill \in [Users -> Nat]
    /\ published \in [Matches -> SUBSET Draws]
    /\ revisions \in Nat /\ faults \in Nat /\ losses \in Nat /\ restarts \in Nat

\* What a settler holds is consistent: the match it works on, a draw that was
\* published for that match, rows of that match only, and a row to be counted.
ProcOK ==
    \A s \in Settlers :
        /\ proc[s].pc \notin {"idle", "upsert"} => proc[s].match \in Matches
        /\ proc[s].pc \in {"query", "rows", "credit", "experts", "ais"} =>
               proc[s].draw \in published[proc[s].match]
        /\ proc[s].pc \notin {"rows", "credit"} => proc[s].work = {}
        /\ \A b \in proc[s].work : b \in Placed /\ predictions[b].match = proc[s].match
        /\ proc[s].pc = "credit" => proc[s].bet \in Placed

\* The draw of a stored valid result is in the history.
StoredPublished ==
    \A m \in Matches : results[m] # NoResult /\ results[m].valid => results[m].draw \in published[m]

\* Every settled bet and every graded pick has the verdict of a draw that was
\* published as valid for its match: no interleaving of settlers, corrections of
\* the result and failures settles anything by a draw that never was valid
\* (SettleAllForMatch works from a copy of the result it read earlier).
VerdictsJustified ==
    /\ \A b \in Placed \ Pending :
           \E d \in published[predictions[b].match] :
               predictions[b].status = IF IsCorrect(d, predictions[b]) THEN "won" ELSE "lost"
    /\ \A k \in PickKeys : picks[k].grade \in {"right", "wrong"} =>
           \E d \in published[k[2]] :
               picks[k].grade = IF d[k[3]] = picks[k].code THEN "right" ELSE "wrong"

\* The settlers that have marked a row of u won and not yet counted it.
Crediting(u) == {s \in Settlers : proc[s].pc = "credit" /\ predictions[proc[s].bet].user = u}

\* Each failure loses at most one win, and nothing else loses any, however many
\* settlers work on the same rows and however often the result is corrected: while
\* the server serves, users.wins, the increments under way and the possible losses
\* cover the won rows.  A start of the server makes good what was lost before it,
\* and loses at most the rows settled as won while its migration runs.
NoWinLost ==
    server = "up" =>
        \A u \in Users : Cardinality(WonRows(u)) <= wins[u] + Cardinality(Crediting(u)) + losses

\* No win is counted twice: users.wins and the increments under way never exceed
\* the won rows, through every failure of a single settler.  Once the server has been
\* started again they may, by the one increment that was under way in the snapshot
\* the migration counted, and by no more than that however often it is started.
NoWinInvented ==
    \A u \in Users : wins[u] + Cardinality(Crediting(u))
                         <= Cardinality(WonRows(u)) + (IF restarts > 0 THEN 1 ELSE 0)

\* Several settlers may count one row (NoUnwonWin), but each of them at most once,
\* however stale the rows it works from, whatever fails and whatever the other
\* settlers make of the row meanwhile; the starts of the server add one more count per
\* row, and no more however many they are.
CountedOncePerSettler ==
    \A u \in Users : wins[u] <= (Cardinality(Settlers) + (IF restarts > 0 THEN 1 ELSE 0))
                                  * Cardinality(Closed(u))

\* The first two facts as a reader of the leaderboard sees them, at rest: no
\* settlement and no migration is under way.  "Maintained in real time by the
\* settlement" (migrations/003_backfill_users_wins.sql:4).
AtRest == server = "up" /\ \A s \in Settlers : proc[s].pc \in {"idle", "upsert"}

WinsExactAtRest == AtRest => \A u \in Users : wins[u] = Cardinality(WonRows(u))

\* Readers of the table see an interface simpler than settlement: rows closed once, by
\* a draw stored as valid before.  True while a single settler works, through every
\* failure of its statements, crash, truncated crawl and correction of the result.
Table == INSTANCE Rows WITH predictions <- predictions, results <- results, published <- published

ImplementsRows == Table!RowsSpec

\* No user is shown more wins than won predictions.
NoUnwonWin == \A u \in Users : wins[u] <= Cardinality(WonRows(u))

\* "Already settled bets are not processed again" (openapi.yaml:626): no step
\* changes a settled row.  True while a single settler works.
SettledOnce ==
    [][\A b \in Placed \ Pending : predictions'[b] = predictions[b]]_settleVars

\* The result of b's match is listed and valid.
Drawn(b) == b \in Placed /\ feed[predictions[b].match] # NoResult
                         /\ feed[predictions[b].match].valid

\* A bet whose match has a lasting valid result is settled in the end, whatever
\* failures, corrections and other settlers came before: also one inserted behind
\* the settler's snapshot, and one an early return left pending.
EveryBetSettled ==
    \A b \in BetIds : <>[]Drawn(b) => <>(b \in Placed \ Pending)

\* A pick on a wager with a lasting draw is graded in the end, although grading
\* comes last in SettleAllForMatch and every early return skips it.
EveryPickGraded ==
    \A k \in PickKeys :
        <>[](feed[k[2]] # NoResult /\ feed[k[2]].valid /\ feed[k[2]].draw[k[3]] # NoCode)
            => <>(picks[k].grade # "none")
=============================================================================
