----------------------------- MODULE GameProofs -----------------------------
(***************************************************************************)
(* Proofs about GameCore: the server's calls and robots are an environment *)
(* that Settlement allows for, so the theorems about Settlement are        *)
(* theorems about the game; and the theorem about users.total_bets         *)
(* survives the settlement of the rows it counts.                          *)
(***************************************************************************)
EXTENDS GameCore, BettingProofs, WinsProofs

GameInv == BetTypeOK /\ SettleInv

-----------------------------------------------------------------------------
(* A step of the game is a step of one of the two parts.                   *)

\* The server's and the crawler's steps are steps of Betting.
LEMMA ServeBets ==
    ASSUME Serve \/ Crawled
    PROVE  BetNext /\ UNCHANGED settleOnlyVars
  BY DEF Serve, Crawled, BetNext

\* The other steps but a restart are steps of Settlement that place no bet.
LEMMA RestSettles ==
    ASSUME News \/ Settle
    PROVE  SettleNext /\ UNCHANGED betOnlyVars
<1>1. CASE News
  BY <1>1 DEF News, SomeNews, SettleNext
<1>2. CASE Settle
  BY <1>2 DEF Settle, SettleNext
<1> QED
  BY <1>1, <1>2

\* What the server's steps look like to Settlement: a bet, or nothing.
LEMMA ServeSettles ==
    ASSUME BetTypeOK, Serve \/ Crawled
    PROVE  [SettleNext]_settleVars
<1>1. UNCHANGED settleOnlyVars
  BY ServeBets
<1>2. CASE predictions' = predictions
  BY <1>1, <1>2 DEF settleVars, settleOnlyVars, dbVars
<1>3. ASSUME NEW b \in BetIds, NEW u \in Users, NEW m \in Matches, NEW st \in SubTypes,
             NEW c \in Codes, InsertRow(b, u, m, st, c)
      PROVE  SettleNext
  <2>1. PlaceBet(b, u, m, st, c)
    BY <1>1, <1>3 DEF PlaceBet, settleOnlyVars
  <2> QED
    BY <2>1 DEF SomeBet, SettleNext
<1> QED
  BY <1>2, <1>3, ServeBets, RowSteps

LEMMA GameStepSettles ==
    ASSUME BetTypeOK, [GameNext]_gameVars
    PROVE  [SettleNext]_settleVars
<1>1. CASE Restart
  BY <1>1 DEF Restart, SettleNext
<1>2. CASE UNCHANGED gameVars
  BY <1>2 DEF gameVars, settleOnlyVars, settleVars, dbVars
<1> QED
  BY <1>1, <1>2, ServeSettles, RestSettles DEF GameNext

\* The server that stops leaves calls that are calls.
LEMMA StopType ==
    ASSUME BetTypeOK, StopServer
    PROVE  /\ call' \in [Requests -> CallState]
           /\ robot' = NoRun
<1>1. \A b \in Requests : call[b].pc \in {"check", "insert", "count"} =>
          [call[b] EXCEPT !.pc = "failed"] \in CallState
  BY CallBet DEF CallState
<1> QED
  BY <1>1 DEF StopServer, BetTypeOK

LEMMA GameStepInv == GameInv /\ [GameNext]_gameVars => GameInv'
<1> SUFFICES ASSUME GameInv, [GameNext]_gameVars PROVE GameInv'
  OBVIOUS
<1>1. SettleInv'
  BY GameStepSettles, NextInv DEF GameInv
<1>2. StoreTypeOK'
  BY <1>1 DEF SettleInv, SettleTypeOK
<1>3. CASE Serve \/ Crawled
  BY <1>1, <1>3, ServeBets, BetNextType DEF GameInv
<1>4. CASE News \/ Settle
  <2>1. UNCHANGED betOnlyVars
    BY <1>4, RestSettles
  <2> QED
    BY <1>1, <1>2, <2>1 DEF GameInv, BetTypeOK, betOnlyVars
<1>5. CASE Restart
  BY <1>1, <1>2, <1>5, StopType DEF GameInv, BetTypeOK, Restart, NoRun
<1>6. CASE UNCHANGED gameVars
  BY <1>1, <1>2, <1>6 DEF GameInv, BetTypeOK, gameVars, betOnlyVars
<1> QED
  BY <1>3, <1>4, <1>5, <1>6 DEF GameNext

LEMMA GameInvariant == GameSpec => []GameInv
<1>1. GameInit => GameInv
  BY BetInitType, InitInv DEF GameInit, GameInv
<1> QED
  BY <1>1, GameStepInv, PTL DEF GameSpec

-----------------------------------------------------------------------------
\* The game implements Settlement: CreateBet's statements and the robots' inserts are
\* the environment's bets, the crawler and the clock are stuttering, the restart of
\* the server, which ends its calls too, is the restart of Settlement.
THEOREM GameImplementsSettlement == GameSpec => SettleSpec
<1>1. GameInit => SettleInit
  BY DEF GameInit
<1>2. GameInv /\ [GameNext]_gameVars => [SettleNext]_settleVars
  BY GameStepSettles DEF GameInv
<1> QED
  BY <1>1, <1>2, GameInvariant, PTL DEF GameSpec, SettleSpec

\* What Settlement was shown to keep, the game keeps: every verdict in the database
\* comes from a draw published as valid, with bets placed by the code that places them.
THEOREM GameVerdictsJustified == GameSpec => []VerdictsJustified
  BY GameImplementsSettlement, VerdictsAreJustified, PTL

\* In the game, too, a failure loses at most one win and nothing else loses any.
THEOREM GameNoWinLost == GameSpec => []NoWinLost
  BY GameImplementsSettlement, NoWinIsLost, PTL

\* Every variable of the game keeps its type.
THEOREM GameTypeCorrect == GameSpec => [](BetTypeOK /\ SettleTypeOK)
<1>1. GameInv => BetTypeOK /\ SettleTypeOK
  BY DEF GameInv, SettleInv
<1> QED
  BY <1>1, GameInvariant, PTL

\* In the game, too, a settler counts a row at most once, and the starts of the server,
\* which end its calls and its robots' run, count it once more.
THEOREM GameCountedOncePerSettler == GameSpec => []CountedOncePerSettler
  BY GameImplementsSettlement, RowsAreCountedOncePerSettler, PTL

\* With a single settler the bets that arrive while it works, users' or robots', make
\* it count no win twice and settle no row twice.
THEOREM GameSettlesOnce ==
    ASSUME Solo
    PROVE  GameSpec => []NoWinInvented /\ SettledOnce
<1>1. SettleSpec => []NoWinInvented
  BY NoWinIsInvented
<1>2. SettleSpec => SettledOnce
  BY SettledOnlyOnce
<1> QED
  BY <1>1, <1>2, GameImplementsSettlement, PTL

\* With a single settler the whole game implements the interface Boards is built on.
THEOREM GameImplementsRows ==
    ASSUME Solo
    PROVE  GameSpec => ImplementsRows
<1>1. SettleSpec => ImplementsRows
  BY SettlementImplementsRows
<1> QED
  BY <1>1, GameImplementsSettlement, PTL

-----------------------------------------------------------------------------
(* No phantom count, with rows being settled                               *)

\* Settlement changes the status of one row at most: neither the row nor its user.
LEMMA SettleRows ==
    ASSUME GameInv, News \/ Settle
    PROVE  \/ predictions' = predictions
           \/ \E b \in BetIds : /\ predictions[b] # NoRow /\ predictions'[b] # NoRow
                               /\ predictions'[b].user = predictions[b].user
                               /\ predictions'[b].match = predictions[b].match
                               /\ predictions'[b].status # "pending"
                               /\ \A k \in BetIds \ {b} : predictions'[k] = predictions[k]
<1> DEFINE Marks == \E s \in Settlers, b \in BetIds : UpdateRow(s, b) \/ UpdateReplyLost(s, b)
<1>1. ASSUME NEW s \in Settlers, SettleCall(s) \/ CallFault(s)
      PROVE  predictions' = predictions \/ Marks
  BY <1>1 DEF SettleCall, ReadResult, QueryPending, Credit, RowsEnd, GradeExperts, GradeAis,
     CallFault, CallFails, CreditReplyLost, UpdateFails, RowsCut, GradeFails, dbVars
<1>2. ASSUME NEW s \in Spiders, SpiderStep(s) \/ SpiderFault(s)
      PROVE  predictions' = predictions \/ Marks
  BY <1>1, <1>2 DEF Settlers, SpiderStep, Crawl, UpsertResult, PageDone, SpiderFault, CrawlCut,
     UpsertFails, SpiderCrash, dbVars
<1>3. ASSUME NEW s \in Apis, ApiStep(s)
      PROVE  predictions' = predictions \/ Marks
  BY <1>1, <1>3 DEF Settlers, ApiStep, ApiCall, dbVars
<1>4. predictions' = predictions \/ Marks
  BY <1>1, <1>2, <1>3 DEF News, Publish, Settle, BackfillWins, dbVars
<1>5. CASE Marks
  <2>1. PICK s \in Settlers, b \in BetIds : UpdateRow(s, b) \/ UpdateReplyLost(s, b)
    BY <1>5
  <2>2. PICK st \in {"won", "lost"} : predictions' = [predictions EXCEPT ![b] = [@ EXCEPT !.status = st]]
    BY <2>1 DEF UpdateRow, UpdateReplyLost, Mark, SetStatus
  <2>3. predictions \in [BetIds -> Row \cup {NoRow}] /\ predictions[b] \in Row
    BY <2>1 DEF GameInv, SettleInv, SettleTypeOK, StoreTypeOK, ProcOK, UpdateRow, UpdateReplyLost, Mark, Placed
  <2>4. [predictions[b] EXCEPT !.status = st] \in Row
    BY <2>3 DEF Row
  <2>5. /\ predictions[b] # NoRow /\ predictions'[b] # NoRow
        /\ predictions'[b].user = predictions[b].user
        /\ predictions'[b].match = predictions[b].match
        /\ predictions'[b].status = st
        /\ \A k \in BetIds \ {b} : predictions'[k] = predictions[k]
    BY <2>2, <2>3, <2>4, NoRowAssumption DEF Row
  <2> QED
    BY <2>5
<1> QED
  BY <1>4, <1>5

LEMMA SettleRowsOf ==
    ASSUME GameInv, News \/ Settle, NEW u \in Users
    PROVE  RowsOf(u)' = RowsOf(u)
  BY SettleRows DEF RowsOf, Placed

LEMMA SettlePending ==
    ASSUME GameInv, News \/ Settle
    PROVE  /\ Pending' \subseteq Pending
           /\ \A k \in Pending' : predictions'[k] = predictions[k]
  BY SettleRows DEF Pending, Placed

\* The rows may be settled, and the server restarted, between a call's insert and its
\* increment: total_bets still never runs ahead of the rows.
THEOREM GameNoPhantomCount == GameSpec => []NoPhantomCount
<1>1. GameInit => NoPhantomCount
  <2> SUFFICES ASSUME GameInit PROVE NoPhantomCount
    OBVIOUS
  <2>1. \A u \in Users : totalBets[u] = 0 /\ Counting(u) = {}
    BY DEF GameInit, BetInit, Counting, NewCall
  <2>2. \A u \in Users : Cardinality(RowsOf(u)) \in Nat
    BY BetCountsFinite
  <2> QED
    BY <2>1, <2>2, FS_EmptySet DEF NoPhantomCount
<1>2. GameInv /\ NoPhantomCount /\ [GameNext]_gameVars => NoPhantomCount'
  <2> SUFFICES ASSUME GameInv, NoPhantomCount, [GameNext]_gameVars, NEW u \in Users
               PROVE  totalBets'[u] + Cardinality(Counting(u)') <= Cardinality(RowsOf(u)')
    BY DEF NoPhantomCount
  <2>1. CountStep(u)
    <3>1. CASE Serve \/ Crawled
      BY <3>1, ServeBets, CountSteps DEF GameInv
    <3>2. CASE News \/ Settle
      BY <3>2, RestSettles, SettleRowsOf DEF betOnlyVars, CountStep, Counting
    <3>3. CASE Restart
      <4>1. predictions' = predictions /\ totalBets' = totalBets
        BY <3>3 DEF Restart, RestartServer, dbVars
      <4>2. \A b \in Requests : call'[b].pc # "count"
        BY <3>3, CallBet DEF GameInv, Restart, StopServer, NewCall, BetTypeOK, CallState
      <4> QED
        BY <4>1, <4>2 DEF CountStep, RowsOf, Placed, Counting
    <3>4. CASE UNCHANGED gameVars
      BY <3>4 DEF gameVars, betOnlyVars, CountStep, RowsOf, Placed, Counting
    <3> QED
      BY <3>1, <3>2, <3>3, <3>4 DEF GameNext
  <2>2. totalBets[u] \in Nat
    BY DEF GameInv, BetTypeOK
  <2> QED
    BY <2>1, <2>2, CountKept DEF NoPhantomCount
<1> QED
  BY <1>1, <1>2, GameInvariant, PTL DEF GameSpec

-----------------------------------------------------------------------------
(* Every bet counted, with rows being settled                              *)

LEMMA GameCountedStep == GameInv /\ CountedInv /\ [GameNext]_gameVars => CountedInv'
<1> SUFFICES ASSUME GameInv, CountedInv, [GameNext]_gameVars PROVE CountedInv'
  OBVIOUS
<1>1. CASE Serve \/ Crawled
  BY <1>1, ServeBets, CountedStep DEF GameInv
<1>2. CASE News \/ Settle
  <2>1. totalBets' = totalBets /\ call' = call
    BY <1>2, RestSettles DEF betOnlyVars
  <2>2. \A u \in Users : RowsOf(u)' = RowsOf(u)
    BY <1>2, SettleRowsOf
  <2> QED
    BY <2>1, <2>2 DEF CountedInv, Counted, Counting, Failed, Humans
<1>3. CASE Restart
  <2>1. /\ predictions' = predictions /\ totalBets' = totalBets
        /\ call' = [b \in Requests |->
              IF call[b].pc \in {"check", "insert", "count"}
              THEN [call[b] EXCEPT !.pc = "failed"] ELSE call[b]]
    BY <1>3 DEF Restart, RestartServer, StopServer, dbVars
  <2>2. ASSUME NEW b \in Requests, call[b].pc \in {"check", "insert", "count"}
        PROVE  call'[b].pc = "failed" /\ call'[b].bet = call[b].bet
    BY <2>1, <2>2, CallBet DEF GameInv
  <2>3. ASSUME NEW b \in Requests, call[b].pc \notin {"check", "insert", "count"}
        PROVE  call'[b] = call[b]
    BY <2>1, <2>3
  <2> QED
    BY <2>1, <2>2, <2>3, QuietCount
<1>4. CASE UNCHANGED gameVars
  BY <1>4, QuietCount DEF gameVars, betOnlyVars
<1> QED
  BY <1>1, <1>2, <1>3, <1>4 DEF GameNext

\* The count of a user's bet is lost only with a call that reported an error, or that
\* a restart of the server ended: settlement loses none.
THEOREM GameEveryBetCounted == GameSpec => []EveryBetCounted
<1>1. GameInit => CountedInv
  BY CountedInit DEF GameInit
<1> QED
  BY <1>1, GameCountedStep, CountedEnough, GameInvariant, PTL DEF GameSpec

-----------------------------------------------------------------------------
(* What a call was accepted by, with everything else going on              *)

LEMMA GameFreshStep ==
    ASSUME MaxMoves = 0, GameInv, TimesFresh, [GameNext]_gameVars
    PROVE  TimesFresh'
<1>1. CASE Serve \/ Crawled
  BY <1>1, ServeBets, FreshStep DEF GameInv
<1>2. CASE ~(Serve \/ Crawled)
  <2>1. matches' = matches
    BY <1>2, RestSettles DEF GameNext, Restart, gameVars, betOnlyVars
  <2> QED
    BY <2>1 DEF TimesFresh
<1> QED
  BY <1>1, <1>2

\* A call that passes the checks in the game passes them in a step of Betting.
LEMMA GamePassesOpen ==
    ASSUME GameInv, [GameNext]_gameVars, NEW b \in Requests,
           call[b].pc = "new", call'[b].pc = "check"
    PROVE  \E m \in Matches, st \in SubTypes, c \in Codes :
               call'[b].bet.match = m /\ Open(matches[m], clock, st, c)
<1>1. CASE Serve \/ Crawled
  BY <1>1, ServeBets, PassesOpen DEF GameInv
<1>2. CASE ~(Serve \/ Crawled) /\ ~Restart
  <2>1. call' = call
    BY <1>2, RestSettles DEF GameNext, gameVars, betOnlyVars
  <2> QED
    BY <2>1
<1>3. CASE Restart
  <2>1. call'[b] = call[b]
    BY <1>3 DEF Restart, StopServer, GameInv, BetTypeOK
  <2> QED
    BY <2>1
<1> QED
  BY <1>1, <1>2, <1>3

\* Settlers, the site and a restart take no one on: settlement keeps whose a row is, and
\* of which match, and a restart ends calls and the robots' run.
LEMMA NoOneNewAside ==
    ASSUME GameInv, News \/ Settle \/ Restart \/ UNCHANGED gameVars, NEW m \in Matches
    PROVE  Callers(m)' \subseteq Callers(m) /\ RobotsOn(m)' \subseteq RobotsOn(m)
<1>1. CASE News \/ Settle
  <2>1. call' = call /\ robot' = robot
    BY <1>1, RestSettles DEF betOnlyVars
  <2>2. /\ Placed' = Placed
        /\ \A b \in Placed : /\ predictions'[b].user = predictions[b].user
                             /\ predictions'[b].match = predictions[b].match
    BY <1>1, SettleRows DEF Placed
  <2> QED
    BY <2>1, <2>2 DEF Callers, RobotsOn
<1>2. CASE Restart
  <2>1. predictions' = predictions /\ robot'.todo = {}
    BY <1>2 DEF Restart, RestartServer, StopServer, NoRun, dbVars
  <2>2. \A b \in Requests : call'[b].pc \notin {"check", "insert"}
    BY <1>2 DEF Restart, StopServer, GameInv, BetTypeOK, CallState, NewCall
  <2> QED
    BY <2>1, <2>2 DEF Callers, RobotsOn, Placed
<1>3. CASE UNCHANGED gameVars
  BY <1>3 DEF gameVars, betOnlyVars, Callers, RobotsOn, Placed
<1> QED
  BY <1>1, <1>2, <1>3

\* In the game, too, a closed match takes no one new: the rows that come in after the
\* closing, while settlers already read it, are of callers and robots that were past the
\* checks, and there are no more of them after a restart.
THEOREM GameClosedMatchTakesNoOneNew == GameSpec => ClosedTakesNoOneNew
<1>1. GameInv /\ [GameNext]_gameVars
        => [\A m \in Matches : matches[m] # NoMatchRow =>
              /\ matches[m].stopSell \/ Started(m) \/ Locked(m) => Callers(m)' \subseteq Callers(m)
              /\ matches[m].stopSell \/ Started(m) => RobotsOn(m)' \subseteq RobotsOn(m)]_betVars
  <2>1. CASE Serve \/ Crawled
    BY <2>1, ServeBets, ClosedToCalls, ClosedToRobots DEF GameInv
  <2>2. CASE News \/ Settle \/ Restart \/ UNCHANGED gameVars
    BY <2>2, NoOneNewAside
  <2> QED
    BY <2>1, <2>2 DEF GameNext
<1> QED
  BY <1>1, GameInvariant, PTL DEF GameSpec, ClosedTakesNoOneNew

-----------------------------------------------------------------------------
(* No bet after the result                                                 *)

\* Whatever holds a result, the site, a spider or the database, the match was played.
ResultsPlayed ==
    \A m \in Matches :
        \/ feed[m] # NoResult
        \/ results[m] # NoResult
        \/ \E s \in Spiders : page[s][m] # NoResult
        => Played(m)

\* A match that was played stays so: the clock goes on, the site moves no match.
LEMMA PlayedStays ==
    ASSUME MaxMoves = 0, BetTypeOK, [BetNext]_betVars, NEW m \in Matches, Played(m)
    PROVE  Played(m)'
<1>1. /\ matches \in [Matches -> MatchRow \cup {NoMatchRow}] /\ matches[m] \in MatchRow
      /\ clock \in Nat /\ moves \in Nat /\ matches[m].rawKickoff \in Nat
  BY DEF BetTypeOK, Played, MatchRow, Times
<1>2. CASE CrawlStep
  <2>1. PICK k \in Matches, l \in Listings : UpsertMatch(k, l)
    BY <1>2 DEF CrawlStep
  <2>2. /\ matches' = [matches EXCEPT ![k] = IF @ = NoMatchRow THEN Inserted(l) ELSE Refreshed(@, l)]
        /\ ~Moved(k, l) /\ clock' = clock
    BY <1>1, <2>1 DEF UpsertMatch
  <2>3. CASE k = m
    <3>1. l.kickoff = matches[m].rawKickoff /\ matches'[m] = Refreshed(matches[m], l)
      BY <1>1, <2>2, <2>3 DEF Moved, Played
    <3>2. matches'[m].rawKickoff = l.kickoff
      BY <1>1, <3>1 DEF Refreshed, MatchRow
    <3>3. matches'[m] \in MatchRow
      BY <1>1, <3>1, BetAssumption DEF Refreshed, MatchRow, Listing
    <3> QED
      BY <2>2, <3>1, <3>2, <3>3, BetAssumption DEF Played
  <2>4. CASE k # m
    BY <1>1, <2>2, <2>4 DEF Played
  <2> QED
    BY <2>3, <2>4
<1>3. CASE ~CrawlStep
  <2>1. matches' = matches /\ (clock' = clock \/ clock' = clock + 1)
    BY <1>3 DEF BetNext, Tick, CallStep, Request, CheckDuplicate, Insert, Count, RobotStep,
                RobotStart, RobotBet, BetFaultStep, CallError, ReplyLost, RobotError, BetCrash,
                betVars
  <2> QED
    BY <1>1, <2>1 DEF Played
<1> QED
  BY <1>2, <1>3

\* Settlers store what a spider has crawled, and a spider crawls what the site publishes.
LEMMA ResultsComeFrom ==
    ASSUME SettleTypeOK, Settle, NEW m \in Matches
    PROVE  /\ feed' = feed
           /\ results'[m] # NoResult => results[m] # NoResult \/ \E s \in Spiders : page[s][m] # NoResult
           /\ \A s \in Spiders : page'[s][m] # NoResult => page[s][m] # NoResult \/ feed[m] # NoResult
<1>1. /\ page \in [Spiders -> [Matches -> Result \cup {NoResult}]]
      /\ results \in [Matches -> Result \cup {NoResult}]
  BY DEF SettleTypeOK
<1>2. CASE UNCHANGED <<results, page, feed>>
  BY <1>2
<1>3. ASSUME NEW s \in Spiders, Crawl(s) \/ CrawlCut(s) \/ SpiderCrash(s)
      PROVE  /\ feed' = feed /\ results' = results
             /\ \A k \in Spiders : page'[k][m] # NoResult => page[k][m] # NoResult \/ feed[m] # NoResult
  BY <1>1, <1>3 DEF Crawl, CrawlCut, SpiderCrash, EmptyPage, dbVars, feedVars
<1>4. ASSUME NEW s \in Spiders, NEW k \in Matches, UpsertResult(s, k) \/ UpsertFails(s, k)
      PROVE  /\ feed' = feed
             /\ results'[m] # NoResult => results[m] # NoResult \/ page[s][m] # NoResult
             /\ \A i \in Spiders : page'[i][m] # NoResult => page[i][m] # NoResult
  <2>1. page' = [page EXCEPT ![s][k] = NoResult] /\ page[s][k] # NoResult /\ feed' = feed
    BY <1>4 DEF UpsertResult, UpsertFails, feedVars
  <2>2. results' = results \/ results' = [results EXCEPT ![k] = page[s][k]]
    BY <1>4 DEF UpsertResult, UpsertFails, StoreResult
  <2>3. results'[m] # NoResult => results[m] # NoResult \/ page[s][m] # NoResult
    BY <1>1, <2>1, <2>2
  <2>4. \A i \in Spiders : page'[i][m] = page[i][m] \/ page'[i][m] = NoResult
    BY <1>1, <2>1
  <2> QED
    BY <2>1, <2>3, <2>4
<1>5. ASSUME NEW s \in Settlers, SettleCall(s) \/ CallFault(s)
      PROVE  UNCHANGED <<results, page, feed>>
  BY <1>5 DEF SettleCall, ReadResult, QueryPending, UpdateRow, Credit, RowsEnd, GradeExperts, GradeAis,
     CallFault, CallFails, CreditReplyLost, UpdateFails, UpdateReplyLost, RowsCut, GradeFails,
     dbVars, feedVars
<1>6. ASSUME NEW s \in Spiders, PageDone(s) PROVE UNCHANGED <<results, page, feed>>
  BY <1>6 DEF PageDone, dbVars, feedVars
<1>7. ASSUME NEW s \in Apis, NEW k \in Matches, ApiCall(s, k) PROVE UNCHANGED <<results, page, feed>>
  BY <1>7 DEF ApiCall, dbVars, feedVars
<1>8. CASE BackfillWins
  BY <1>2, <1>8 DEF BackfillWins, feedVars
<1> QED
  BY <1>2, <1>3, <1>4, <1>5, <1>6, <1>7, <1>8 DEF Settle, SpiderStep, SpiderFault, ApiStep, Settlers

LEMMA PlayedStep ==
    ASSUME MaxMoves = 0, GameInv, ResultsPlayed, [GameNext]_gameVars
    PROVE  ResultsPlayed'
<1> SUFFICES ASSUME NEW m \in Matches,
                    \/ feed'[m] # NoResult
                    \/ results'[m] # NoResult
                    \/ \E s \in Spiders : page'[s][m] # NoResult
             PROVE  Played(m)'
  BY DEF ResultsPlayed
<1>1. CASE Serve \/ Crawled
  <2>1. BetNext /\ UNCHANGED <<feed, results, page>>
    BY <1>1, ServeBets DEF settleOnlyVars, feedVars
  <2>2. Played(m)
    BY <2>1 DEF ResultsPlayed
  <2> QED
    BY <2>1, <2>2, PlayedStays DEF GameInv
<1>2. CASE News
  <2>1. PICK k \in Matches, r \in Result \cup {NoResult} : (r # NoResult => Played(k)) /\ Publish(k, r)
    BY <1>2 DEF News
  <2>2. /\ feed \in [Matches -> Result \cup {NoResult}] /\ feed' = [feed EXCEPT ![k] = r]
        /\ results' = results /\ page' = page
    BY <2>1 DEF Publish, GameInv, SettleInv, SettleTypeOK, dbVars
  <2>3. Played(m)
    BY <2>1, <2>2 DEF ResultsPlayed
  <2> QED
    BY <1>2, <2>3, RestSettles DEF Played, betOnlyVars
<1>3. CASE Settle
  <2>1. Played(m)
    BY <1>3, ResultsComeFrom DEF ResultsPlayed, GameInv, SettleInv
  <2> QED
    BY <1>3, <2>1, RestSettles DEF Played, betOnlyVars
<1>4. CASE Restart \/ UNCHANGED gameVars
  <2>1. UNCHANGED <<feed, results, page, matches, clock>>
    BY <1>4 DEF Restart, RestartServer, gameVars, betOnlyVars, settleOnlyVars, dbVars, feedVars
  <2> QED
    BY <2>1 DEF ResultsPlayed, Played
<1> QED
  BY <1>1, <1>2, <1>3, <1>4 DEF GameNext

\* While the site moves no match: no call passes the checks of a match whose result is
\* stored, for the result came after the kickoff, and the call looked at the kickoff.
THEOREM NoBetAfterTheResult ==
    ASSUME MaxMoves = 0
    PROVE  GameSpec => AcceptedBeforeResult
<1> DEFINE Inv == GameInv /\ TimesFresh /\ ResultsPlayed
<1>1. GameInit => Inv
  BY BetInitType, InitInv
  DEF GameInit, GameInv, TimesFresh, ResultsPlayed, BetInit, SettleInit, EmptyPage
<1>2. Inv /\ [GameNext]_gameVars => Inv'
  BY GameStepInv, GameFreshStep, PlayedStep
<1>3. Inv /\ [GameNext]_gameVars =>
        [\A b \in Requests :
           call[b].pc = "new" /\ call'[b].pc = "check" =>
               LET r == results[call'[b].bet.match] IN r = NoResult \/ ~r.valid]_gameVars
  <2> SUFFICES ASSUME Inv, [GameNext]_gameVars, NEW b \in Requests,
                      call[b].pc = "new", call'[b].pc = "check"
               PROVE  results[call'[b].bet.match] = NoResult
    OBVIOUS
  <2>1. PICK m \in Matches, st \in SubTypes, c \in Codes :
            call'[b].bet.match = m /\ Open(matches[m], clock, st, c)
    BY GamePassesOpen
  <2>2. matches[m] \in MatchRow /\ clock \in Nat
    BY <2>1 DEF GameInv, BetTypeOK, Open, Times
  <2>3. ~Played(m)
    BY <2>1, <2>2, BetAssumption DEF TimesFresh, Open, Played, MatchRow, Times
  <2> QED
    BY <2>1, <2>3 DEF ResultsPlayed
<1> QED
  BY <1>1, <1>2, <1>3, PTL DEF GameSpec, AcceptedBeforeResult

-----------------------------------------------------------------------------
(* One bet until the match is played                                       *)

\* No two pending rows are of one selection: the unique index.
PendingUnique == \A b, k \in Pending : /\ predictions[b].user = predictions[k].user
                                       /\ predictions[b].match = predictions[k].match
                                       /\ predictions[b].subType = predictions[k].subType
                                       => b = k

\* The draws ever stored as valid are draws of matches that were played.
DrawsPlayed == \A m \in Matches : published[m] # {} => Played(m)

\* Only an insert makes a row pending, and it collides with none.
LEMMA PendingStep ==
    ASSUME GameInv, PendingUnique, [GameNext]_gameVars
    PROVE  PendingUnique'
<1>1. CASE predictions' = predictions
  BY <1>1 DEF PendingUnique, Pending, Placed
<1>2. ASSUME NEW b \in BetIds, NEW u \in Users, NEW m \in Matches, NEW st \in SubTypes,
             NEW c \in Codes, InsertRow(b, u, m, st, c)
      PROVE  PendingUnique'
  <2>1. /\ predictions'[b].user = u /\ predictions'[b].match = m
        /\ predictions'[b].subType = st
        /\ \A k \in BetIds \ {b} : predictions'[k] = predictions[k]
        /\ Collisions(u, m, st) = {}
    BY <1>2, InsertRowType DEF GameInv, BetTypeOK
  <2>2. Pending' \subseteq Pending \cup {b}
    BY <2>1 DEF Pending, Placed
  <2>3. \A k \in Pending : ~(/\ predictions[k].user = u /\ predictions[k].match = m
                             /\ predictions[k].subType = st)
    BY <2>1 DEF Collisions
  <2>4. \A k \in Pending \ {b} : predictions'[k] = predictions[k]
    BY <2>1 DEF Pending, Placed
  <2> QED
    BY <2>1, <2>2, <2>3, <2>4 DEF PendingUnique
<1>3. CASE News \/ Settle
  <2>1. /\ Pending' \subseteq Pending
        /\ \A k \in Pending' : predictions'[k] = predictions[k]
    BY <1>3, SettlePending
  <2> QED
    BY <2>1 DEF PendingUnique
<1>4. CASE Serve \/ Crawled
  BY <1>1, <1>2, <1>4, ServeBets, RowSteps DEF GameInv
<1>5. CASE Restart \/ UNCHANGED gameVars
  BY <1>1, <1>5 DEF Restart, RestartServer, gameVars, dbVars
<1> QED
  BY <1>3, <1>4, <1>5 DEF GameNext

\* A draw is stored from a crawled page, and a page holds results of played matches.
LEMMA DrawsStep ==
    ASSUME MaxMoves = 0, GameInv, ResultsPlayed, DrawsPlayed, [GameNext]_gameVars
    PROVE  DrawsPlayed'
<1> SUFFICES ASSUME NEW m \in Matches, published'[m] # {} PROVE Played(m)'
  BY DEF DrawsPlayed
<1>1. Played(m)
  <2>1. CASE published' = published
    BY <2>1 DEF DrawsPlayed
  <2>2. ASSUME NEW s \in Spiders, NEW k \in Matches, UpsertResult(s, k) \/ UpsertFails(s, k)
        PROVE  Played(m)
    <3>1. /\ page[s][k] # NoResult
          /\ \/ published' = published
             \/ published' = [published EXCEPT ![k] = IF page[s][k].valid THEN @ \cup {page[s][k].draw} ELSE @]
      BY <2>2 DEF UpsertResult, UpsertFails, StoreResult
    <3>2. published[m] # {} \/ m = k
      BY <3>1 DEF GameInv, SettleInv, SettleTypeOK
    <3> QED
      BY <3>1, <3>2 DEF DrawsPlayed, ResultsPlayed
  <2>3. ASSUME NEW s \in Settlers, SettleCall(s) \/ CallFault(s) PROVE published' = published
    BY <2>3 DEF SettleCall, ReadResult, QueryPending, UpdateRow, Credit, RowsEnd, GradeExperts, GradeAis,
       CallFault, CallFails, CreditReplyLost, UpdateFails, UpdateReplyLost, RowsCut, GradeFails
  <2>4. CASE Settle
    BY <2>1, <2>2, <2>3, <2>4 DEF Settle, SpiderStep, SpiderFault, ApiStep, ApiCall, Crawl, CrawlCut,
       PageDone, SpiderCrash, BackfillWins, Settlers
  <2>5. CASE Serve \/ Crawled
    BY <2>1, <2>5, ServeBets DEF settleOnlyVars
  <2>6. CASE News \/ Restart \/ UNCHANGED gameVars
    BY <2>1, <2>6 DEF News, Publish, Restart, RestartServer, gameVars, settleOnlyVars
  <2> QED
    BY <2>4, <2>5, <2>6 DEF GameNext
<1>2. CASE Serve \/ Crawled
  BY <1>1, <1>2, ServeBets, PlayedStays DEF GameInv
<1>3. CASE ~(Serve \/ Crawled)
  <2>1. UNCHANGED <<matches, clock>>
    BY <1>3, RestSettles DEF GameNext, Restart, gameVars, betOnlyVars
  <2> QED
    BY <1>1, <2>1 DEF Played
<1> QED
  BY <1>2, <1>3

LEMMA UnplayedInvariant ==
    ASSUME MaxMoves = 0
    PROVE  GameSpec => [](GameInv /\ ResultsPlayed /\ DrawsPlayed /\ PendingUnique)
<1> DEFINE Inv == GameInv /\ ResultsPlayed /\ DrawsPlayed /\ PendingUnique
<1>1. GameInit => Inv
  BY BetInitType, InitInv
  DEF GameInit, GameInv, ResultsPlayed, DrawsPlayed, PendingUnique, Pending, Placed, BetInit,
      StoreInit, SettleInit, EmptyPage
<1>2. Inv /\ [GameNext]_gameVars => Inv'
  BY GameStepInv, PlayedStep, DrawsStep, PendingStep
<1> QED
  BY <1>1, <1>2, PTL DEF GameSpec

\* A row is closed by a draw, and a draw is of a match that was played.
LEMMA UnplayedPending ==
    ASSUME GameInv, DrawsPlayed, NEW b \in Placed, ~Played(predictions[b].match)
    PROVE  b \in Pending
<1>1. predictions[b].match \in Matches
  BY DEF GameInv, SettleInv, SettleTypeOK, StoreTypeOK, Placed, Row
<1>2. published[predictions[b].match] = {}
  BY <1>1 DEF DrawsPlayed
<1> QED
  BY <1>2 DEF GameInv, SettleInv, VerdictsJustified

\* While the site moves no match: a row is closed only after the kickoff of its match,
\* by whichever settler, from whichever draw.  Boards takes that for granted of the
\* results and the rows it reads.
THEOREM ClosedAfterKickoff ==
    ASSUME MaxMoves = 0
    PROVE  GameSpec => [](\A b \in Placed \ Pending : Played(predictions[b].match))
<1>1. GameInv /\ DrawsPlayed => \A b \in Placed \ Pending : Played(predictions[b].match)
  BY UnplayedPending
<1> QED
  BY <1>1, UnplayedInvariant, PTL

\* While the site moves no match: the gap in "one bet per user, match and wager" opens
\* no earlier than the kickoff, for the index covers the rows that are pending, and the
\* rows of a match that was not played are.
THEOREM OneBetUntilKickoff ==
    ASSUME MaxMoves = 0
    PROVE  GameSpec => []OneBetUntilPlayed
<1>1. GameInv /\ DrawsPlayed /\ PendingUnique => OneBetUntilPlayed
  <2> SUFFICES ASSUME GameInv, DrawsPlayed, PendingUnique,
                      NEW b \in Placed, ~Played(predictions[b].match),
                      NEW k \in Earlier(predictions[b])
               PROVE  k = b /\ b \in Earlier(predictions[b])
    BY DEF OneBetUntilPlayed, Earlier
  <2>1. k \in Placed /\ predictions[k].match = predictions[b].match
    BY DEF Earlier
  <2>2. b \in Pending /\ k \in Pending
    BY <2>1, UnplayedPending
  <2> QED
    BY <2>2 DEF PendingUnique, Earlier
<1> QED
  BY <1>1, UnplayedInvariant, PTL
=============================================================================
