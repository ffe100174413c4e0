------------------------------ MODULE GameCore ------------------------------
(***************************************************************************)
(* The server, the spider and the database together: Betting inserts the   *)
(* rows of predictions that Settlement settles.  The server's calls, its   *)
(* robots and its settle requests end together when it restarts, and wait  *)
(* until the migrations have run; the spider is a program of its own and   *)
(* goes on.  A match has a result only after it has been played: after the *)
(* kickoff the crawler saw last.                                           *)
(***************************************************************************)
EXTENDS Betting, Settlement

betOnlyVars    == <<matches, totalBets, call, robot, clock, robotRuns, moves, betFaults>>
settleOnlyVars == <<wins, results, picks, serverVars, feedVars, page, proc, published, lossVars>>
gameVars       == <<predictions, betOnlyVars, settleOnlyVars>>

GameInit == BetInit /\ SettleInit

Serve ==
    /\ server = "up"
    /\ \/ \E b \in Requests : CallStep(b)
       \/ RobotStep
       \/ BetFaultStep
    /\ UNCHANGED settleOnlyVars

Crawled ==
    /\ Tick \/ CrawlStep
    /\ UNCHANGED settleOnlyVars

Played(m) == /\ matches[m] # NoMatchRow
             /\ matches[m].rawKickoff # NoTime
             /\ matches[m].rawKickoff < clock

News ==
    /\ \E m \in Matches, r \in Result \cup {NoResult} :
           /\ r # NoResult => Played(m)
           /\ Publish(m, r)
    /\ UNCHANGED betOnlyVars

Settle ==
    /\ \/ \E s \in Spiders : SpiderStep(s) \/ SpiderFault(s)
       \/ \E s \in Apis : ApiStep(s)
       \/ \E s \in Settlers : CallFault(s)
       \/ BackfillWins
    /\ UNCHANGED betOnlyVars

Restart ==
    /\ RestartServer
    /\ StopServer
    /\ UNCHANGED <<matches, totalBets, clock, robotRuns, moves, betFaults>>

GameNext == Serve \/ Crawled \/ News \/ Settle \/ Restart

GameSpec == GameInit /\ [][GameNext]_gameVars

-----------------------------------------------------------------------------
(* Properties.  SettleSpec is one of them: CreateBet and the robots are an *)
(* environment Settlement allows for, so what holds of Settlement holds of *)
(* the game.  NoPhantomCount holds although rows are settled meanwhile;    *)
(* OneBetPerSelection does not; OneBetUntilPlayed says what is left of it. *)

\* No call passes the checks of a match whose result is already stored as valid,
\* while the site moves no match and gives every match a kickoff.
AcceptedBeforeResult ==
    [][\A b \in Requests :
         call[b].pc = "new" /\ call'[b].pc = "check" =>
             LET r == results[call'[b].bet.match] IN r = NoResult \/ ~r.valid]_gameVars

\* What is left of "one bet per user, match and wager" (openapi.yaml:498) when rows are
\* settled between the duplicate check and the insert: the index sees pending rows
\* only, but a row is closed by a result, and a match has a result after its kickoff.
\* So no selection has two rows while its match has not been played, however calls,
\* robots, settlers, failures and restarts come together.  True while the site moves
\* no match.
OneBetUntilPlayed ==
    \A b \in Placed : ~Played(predictions[b].match) => Earlier(predictions[b]) = {b}
=============================================================================
