------------------------------ MODULE Betting ------------------------------
(***************************************************************************)
(* Predictions come in two ways: users call POST /lottery/bet              *)
(* (service/bet/bet.go CreateBet), and once a day the server bets for its  *)
(* two robots (cmd/server/main.go runRobotPredict).  CreateBet is four     *)
(* separate statements without a transaction: it reads the match and       *)
(* checks it, looks for an earlier bet, inserts the row, increments        *)
(* users.total_bets.  Concurrent calls, the crawler's writes and the clock *)
(* come in between.                                                        *)
(*                                                                         *)
(* Bounds of the model: the calls (BetIds, of which RobotIds are the       *)
(* robots' inserts), MaxTime, MaxRobotRuns, MaxMoves (how often the site   *)
(* moves the times of a match) and MaxBetFaults.                           *)
(***************************************************************************)
EXTENDS Store

CONSTANTS Robots,       \* users robot_expert and robot_ai
          RobotIds,     \* inserts of the robots, the other BetIds are calls
          Listings,     \* what the crawler may find for a match
          Lock,         \* bet.lock_minutes_before, 0 for no lock
          NoTime,       \* a blank time column
          NoMatchRow,   \* no row of matches
          NoCall,
          MaxTime, MaxRobotRuns, MaxMoves, MaxBetFaults

Humans   == Users \ Robots
Requests == BetIds \ RobotIds
Times    == 0 .. MaxTime

\* bet_infos: the wagers offered and the codes of each.
BetInfos == UNION {[S -> SUBSET Codes] : S \in SUBSET SubTypes}

Listing == [stopSell : BOOLEAN, options : BetInfos,
            kickoff : Times \cup {NoTime}, betEnd : Times \cup {NoTime}]

\* The columns of matches: kickoff and betEnd are match_time_str and
\* bet_end_time_str, rawKickoff and rawBetEnd the same times in raw_data.
MatchRow == [stopSell : BOOLEAN, options : BetInfos,
             kickoff : Times \cup {NoTime}, betEnd : Times \cup {NoTime},
             rawKickoff : Times \cup {NoTime}, rawBetEnd : Times \cup {NoTime}]

ASSUME BetAssumption ==
    /\ Robots \subseteq Users /\ RobotIds \subseteq BetIds
    /\ Listings \subseteq Listing
    /\ Lock \in Nat
    /\ MaxTime \in Nat /\ MaxRobotRuns \in Nat /\ MaxMoves \in Nat /\ MaxBetFaults \in Nat
    /\ NoTime \notin Int
    /\ NoMatchRow \notin MatchRow

VARIABLES matches,    \* table matches
          totalBets,  \* users.total_bets
          call,       \* per request: where it is in CreateBet, what it was asked
          robot,      \* the robots' run: the matches it read, what it has left
          clock,
          robotRuns, moves, betFaults

betVars == <<predictions, matches, totalBets, call, robot, clock, robotRuns, moves, betFaults>>

\* A request not made yet, and the run of the robots when there is none.
NewCall   == [pc |-> "new", bet |-> NoCall]
NoRun     == [list |-> [m \in Matches |-> NoMatchRow], todo |-> {}]
Selection == [user : Humans, match : Matches, subType : SubTypes, code : Codes]

BetInit ==
    /\ StoreInit
    /\ matches = [m \in Matches |-> NoMatchRow]
    /\ totalBets = [u \in Users |-> 0]
    /\ call = [b \in Requests |-> NewCall]
    /\ robot = NoRun
    /\ clock = 0
    /\ robotRuns = 0 /\ moves = 0 /\ betFaults = 0

-----------------------------------------------------------------------------
(* The clock and the crawler.                                              *)

Tick ==
    /\ clock < MaxTime
    /\ clock' = clock + 1
    /\ UNCHANGED <<predictions, matches, totalBets, call, robot, robotRuns, moves, betFaults>>

Inserted(l) == [stopSell |-> l.stopSell, options |-> l.options,
                kickoff |-> l.kickoff, betEnd |-> l.betEnd,
                rawKickoff |-> l.kickoff, rawBetEnd |-> l.betEnd]

\* ON CONFLICT DO UPDATE: match_time_str and bet_end_time_str stay as they are.
Refreshed(row, l) == [row EXCEPT !.stopSell = l.stopSell, !.options = l.options,
                                 !.rawKickoff = l.kickoff, !.rawBetEnd = l.betEnd]

Moved(m, l) == /\ matches[m] # NoMatchRow
               /\ \/ l.kickoff # matches[m].rawKickoff
                  \/ l.betEnd # matches[m].rawBetEnd

UpsertMatch(m, l) ==
    /\ Moved(m, l) => moves < MaxMoves
    /\ moves' = IF Moved(m, l) THEN moves + 1 ELSE moves
    /\ matches' = [matches EXCEPT ![m] = IF @ = NoMatchRow THEN Inserted(l) ELSE Refreshed(@, l)]
    /\ UNCHANGED <<predictions, totalBets, call, robot, clock, robotRuns, betFaults>>

-----------------------------------------------------------------------------
(* CreateBet                                                               *)

\* Mutant: the lock is not checked.
Open_NoLock(row, now, st, c) ==
    /\ row # NoMatchRow
    /\ ~row.stopSell
    /\ row.kickoff # NoTime => now <= row.kickoff
    /\ st \in DOMAIN row.options /\ c \in row.options[st]

\* Mutant: the kickoff is not checked.
Open_NoKickoff(row, now, st, c) ==
    /\ row # NoMatchRow
    /\ ~row.stopSell
    /\ Lock > 0 /\ row.betEnd # NoTime => now <= row.betEnd - Lock
    /\ st \in DOMAIN row.options /\ c \in row.options[st]

\* The checks of the match row: sold, not started, not locked, option offered.
\* A blank time is not checked.
Open(row, now, st, c) ==
    /\ row # NoMatchRow
    /\ ~row.stopSell
    /\ row.kickoff # NoTime => now <= row.kickoff
    /\ Lock > 0 /\ row.betEnd # NoTime => now <= row.betEnd - Lock
    /\ st \in DOMAIN row.options /\ c \in row.options[st]

\* GetMatchById and the checks of what it returned.
Request(b, u, m, st, c) ==
    /\ call[b] = NewCall
    /\ call' = [call EXCEPT ![b] =
           [pc  |-> IF Open(matches[m], clock, st, c) THEN "check" ELSE "refused",
            bet |-> [user |-> u, match |-> m, subType |-> st, code |-> c]]]
    /\ UNCHANGED <<predictions, matches, totalBets, robot, clock, robotRuns, moves, betFaults>>

\* Rows of any status for this selection.
Earlier(r) == {k \in Placed : /\ predictions[k].user = r.user
                              /\ predictions[k].match = r.match
                              /\ predictions[k].subType = r.subType}

\* CheckDuplicatePrediction
CheckDuplicate(b) ==
    /\ call[b].pc = "check"
    /\ call' = [call EXCEPT ![b].pc = IF Earlier(call[b].bet) # {} THEN "refused" ELSE "insert"]
    /\ UNCHANGED <<predictions, matches, totalBets, robot, clock, robotRuns, moves, betFaults>>

InsertBet(b) == LET r == call[b].bet IN InsertRow(b, r.user, r.match, r.subType, r.code)

\* Mutant: the table has no unique index.
Insert_NoIndex(b) ==
    LET r == call[b].bet IN
    /\ call[b].pc = "insert"
    /\ predictions' = [predictions EXCEPT ![b] =
           [user |-> r.user, match |-> r.match, subType |-> r.subType, code |-> r.code,
            status |-> "pending"]]
    /\ call' = [call EXCEPT ![b].pc = "count"]
    /\ UNCHANGED <<matches, totalBets, robot, clock, robotRuns, moves, betFaults>>

\* Mutant: the count is incremented before the row is inserted.
Insert_CountFirst(b) ==
    LET r == call[b].bet IN
    /\ call[b].pc = "insert"
    /\ totalBets' = [totalBets EXCEPT ![r.user] = @ + 1]
    /\ \/ /\ InsertBet(b)
          /\ call' = [call EXCEPT ![b].pc = "done"]
       \/ /\ Collisions(r.user, r.match, r.subType) # {}
          /\ call' = [call EXCEPT ![b].pc = "failed"]
          /\ UNCHANGED predictions
    /\ UNCHANGED <<matches, robot, clock, robotRuns, moves, betFaults>>

\* CreatePrediction: a row, or the error of the unique index.
Insert(b) ==
    LET r == call[b].bet IN
    /\ call[b].pc = "insert"
    /\ \/ /\ InsertBet(b)
          /\ call' = [call EXCEPT ![b].pc = "count"]
       \/ /\ Collisions(r.user, r.match, r.subType) # {}
          /\ call' = [call EXCEPT ![b].pc = "failed"]
          /\ UNCHANGED predictions
    /\ UNCHANGED <<matches, totalBets, robot, clock, robotRuns, moves, betFaults>>

\* Mutant: the sign of the increment is wrong.
Count_Minus(b) ==
    /\ call[b].pc = "count"
    /\ totalBets' = [totalBets EXCEPT ![call[b].bet.user] = @ - 1]
    /\ call' = [call EXCEPT ![b].pc = "done"]
    /\ UNCHANGED <<predictions, matches, robot, clock, robotRuns, moves, betFaults>>

\* Mutant: the call returns without the increment.
Count_Skipped(b) ==
    /\ call[b].pc = "count"
    /\ call' = [call EXCEPT ![b].pc = "done"]
    /\ UNCHANGED <<predictions, matches, totalBets, robot, clock, robotRuns, moves, betFaults>>

\* IncrementTotalBets
Count(b) ==
    /\ call[b].pc = "count"
    /\ totalBets' = [totalBets EXCEPT ![call[b].bet.user] = @ + 1]
    /\ call' = [call EXCEPT ![b].pc = "done"]
    /\ UNCHANGED <<predictions, matches, robot, clock, robotRuns, moves, betFaults>>

-----------------------------------------------------------------------------
(* runRobotPredict                                                         *)

\* pickBetInfo: sub type "6" when the match offers it, else "1".
Picks(row) == IF "6" \in DOMAIN row.options THEN {"6"} ELSE DOMAIN row.options \cap {"1"}

\* Mutant: the robots bet on every match there is.
Upcoming_Started == matches

\* GetMatchBetList: the matches not started; a blank time sorts before every time.
Upcoming == [m \in Matches |->
                IF /\ matches[m] # NoMatchRow
                   /\ matches[m].kickoff # NoTime
                   /\ matches[m].kickoff > clock
                THEN matches[m] ELSE NoMatchRow]

\* What a run has to do, and its end: it forgets what it read.
RobotRun(list, todo) == robot' = IF todo = {} THEN NoRun ELSE [list |-> list, todo |-> todo]

RobotStart ==
    /\ robot = NoRun
    /\ robotRuns < MaxRobotRuns
    /\ robotRuns' = robotRuns + 1
    /\ RobotRun(Upcoming, {t \in Matches \X Robots :
                               LET row == Upcoming[t[1]] IN
                               /\ row # NoMatchRow
                               /\ ~row.stopSell
                               /\ \E st \in Picks(row) : row.options[st] # {}})
    /\ UNCHANGED <<predictions, matches, totalBets, call, clock, moves, betFaults>>

\* RobotCreatePrediction: ON CONFLICT ... DO NOTHING.  No count is incremented.
RobotBet(b, t, st, c) ==
    /\ t \in robot.todo
    /\ st \in Picks(robot.list[t[1]])
    /\ c \in robot.list[t[1]].options[st]
    /\ \/ InsertRow(b, t[2], t[1], st, c)
       \/ /\ predictions[b] = NoRow
          /\ Collisions(t[2], t[1], st) # {}
          /\ UNCHANGED predictions
    /\ RobotRun(robot.list, robot.todo \ {t})
    /\ UNCHANGED <<matches, totalBets, call, clock, robotRuns, moves, betFaults>>

-----------------------------------------------------------------------------
(* Faults                                                                  *)

BetFault == betFaults < MaxBetFaults /\ betFaults' = betFaults + 1

\* A statement of CreateBet fails.
CallError(b) ==
    /\ BetFault
    /\ call[b].pc \in {"check", "insert", "count"}
    /\ call' = [call EXCEPT ![b].pc = "failed"]
    /\ UNCHANGED <<predictions, matches, totalBets, robot, clock, robotRuns, moves>>

\* The row is inserted, but the connection breaks before the reply.
ReplyLost(b) ==
    /\ BetFault
    /\ call[b].pc = "insert"
    /\ InsertBet(b)
    /\ call' = [call EXCEPT ![b].pc = "failed"]
    /\ UNCHANGED <<matches, totalBets, robot, clock, robotRuns, moves>>

\* An insert of the robots fails and is skipped.
RobotError(t) ==
    /\ BetFault
    /\ t \in robot.todo
    /\ RobotRun(robot.list, robot.todo \ {t})
    /\ UNCHANGED <<predictions, matches, totalBets, call, clock, robotRuns, moves>>

\* The server dies: its calls and the robots' run end where they are.
StopServer ==
    /\ call' = [b \in Requests |->
           IF call[b].pc \in {"check", "insert", "count"}
           THEN [call[b] EXCEPT !.pc = "failed"] ELSE call[b]]
    /\ robot' = NoRun

BetCrash ==
    /\ BetFault
    /\ StopServer
    /\ UNCHANGED <<predictions, matches, totalBets, clock, robotRuns, moves>>

-----------------------------------------------------------------------------
CallStep(b) ==
    \/ \E u \in Humans, m \in Matches, st \in SubTypes, c \in Codes : Request(b, u, m, st, c)
    \/ CheckDuplicate(b)
    \/ Insert(b)
    \/ Count(b)

RobotStep ==
    \/ RobotStart
    \/ \E b \in RobotIds, t \in Matches \X Robots, st \in SubTypes, c \in Codes :
           RobotBet(b, t, st, c)

CrawlStep == \E m \in Matches, l \in Listings : UpsertMatch(m, l)

BetFaultStep ==
    \/ \E b \in Requests : CallError(b) \/ ReplyLost(b)
    \/ \E t \in Matches \X Robots : RobotError(t)

BetNext ==
    \/ CrawlStep
    \/ Tick
    \/ \E b \in Requests : CallStep(b)
    \/ RobotStep
    \/ BetFaultStep
    \/ BetCrash

BetSpec == BetInit /\ [][BetNext]_betVars

-----------------------------------------------------------------------------
(* Properties                                                              *)

CallState == [pc : {"check", "insert", "count", "done", "refused", "failed"}, bet : Selection]
             \cup {NewCall}

BetTypeOK ==
    /\ StoreTypeOK
    /\ matches \in [Matches -> MatchRow \cup {NoMatchRow}]
    /\ totalBets \in [Users -> Nat]
    /\ call \in [Requests -> CallState]
    /\ robot \in [list : [Matches -> MatchRow \cup {NoMatchRow}], todo : SUBSET (Matches \X Robots)]
    /\ clock \in Times
    /\ robotRuns \in Nat /\ moves \in Nat /\ betFaults \in Nat

\* "One bet per user, match and wager" (openapi.yaml:498): two calls that both pass
\* the duplicate check before either inserts are told apart by the unique index.
\* True as long as no row is settled between the check and the insert.
OneBetPerSelection ==
    \A b \in Placed : Earlier(predictions[b]) = {b}

RowsOf(u) == {b \in Placed : predictions[b].user = u}

\* The calls whose row is in and whose count is not yet incremented.
Counting(u) == {b \in Requests : call[b].pc = "count" /\ call[b].bet.user = u}

\* "Only increment total_bets on success, to avoid leaving a phantom count when the
\* insert fails" (bet.go:186): total_bets and the increments under way never exceed
\* the user's rows, whatever fails.
NoPhantomCount ==
    \A u \in Users : totalBets[u] + Cardinality(Counting(u)) <= Cardinality(RowsOf(u))

\* The calls that reported an error: some of them have inserted their row.
Failed(u) == {b \in Requests : call[b].pc = "failed" /\ call[b].bet.user = u}

\* A user's row is counted, or about to be, unless its call reported an error: no
\* failure, crash or lost reply of one call loses the count of another.  The robots'
\* rows are never counted.
EveryBetCounted ==
    \A u \in Humans : Cardinality(RowsOf(u)) <=
                          totalBets[u] + Cardinality(Counting(u)) + Cardinality(Failed(u))

\* By the times the table holds; those of the site may have changed since.
Started(m) == matches[m].kickoff # NoTime /\ clock > matches[m].kickoff
Locked(m)  == Lock > 0 /\ matches[m].betEnd # NoTime /\ clock > matches[m].betEnd - Lock

\* The calls and the robots that have a row on a match, or may insert one without
\* another check.
Callers(m) ==
    {b \in Requests : \/ call[b].pc \in {"check", "insert"} /\ call[b].bet.match = m
                      \/ b \in Placed /\ predictions[b].match = m}
RobotsOn(m) ==
    {u \in Robots : \/ <<m, u>> \in robot.todo
                    \/ \E b \in Placed : predictions[b].user = u /\ predictions[b].match = m}

\* A match that is stopped, locked or started takes no one new ("403: stopped, locked or
\* started", openapi.yaml:494): nothing looks at the match again between the checks and
\* the insert, so rows still come in after the closing, but only those of calls and
\* robots that were past the checks by then; whatever fails, and however the crawler
\* changes the match meanwhile.  Robots know no lock.
ClosedTakesNoOneNew ==
    [][\A m \in Matches : matches[m] # NoMatchRow =>
         /\ matches[m].stopSell \/ Started(m) \/ Locked(m) => Callers(m)' \subseteq Callers(m)
         /\ matches[m].stopSell \/ Started(m) => RobotsOn(m)' \subseteq RobotsOn(m)]_betVars

\* No bet is accepted on a match that has started, as the last crawl saw it: "403:
\* stopped, locked or started" (openapi.yaml:494).  The code checks the kickoff of the
\* first crawl.
AcceptedBeforeKickoff ==
    [][\A b \in Requests :
         call[b].pc = "new" /\ call'[b].pc = "check" =>
             LET kickoff == matches[call'[b].bet.match].rawKickoff IN
             kickoff # NoTime => clock <= kickoff]_betVars
=============================================================================
