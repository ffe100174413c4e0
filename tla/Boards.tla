------------------------------- MODULE Boards -------------------------------
(***************************************************************************)
(* What players are shown of settlement: the daily comparison of a user    *)
(* with the two robots (service/bet/bet.go GetPK), the user's list with a  *)
(* winner per bet (GetUserPredictionsEnriched), the leaderboard            *)
(* (service/leaderboard) and the server's check of whether a day is        *)
(* complete (cmd/server/main.go schedulePKReadyChecker).                   *)
(*                                                                         *)
(* Each is a sequence of separate queries, and rows come in and are closed *)
(* in between.  Rows says how; the clock counts hours, a kickoff is        *)
(* matches.match_time_str, which the crawler writes once.  A betting day   *)
(* runs from 11:00 to 11:00.                                               *)
(*                                                                         *)
(* Bounds of the model: the hours at which something happens, one answer   *)
(* per call, MaxStores results stored, MaxLate late bets, MaxReadFaults.   *)
(***************************************************************************)
EXTENDS Rows, Sequences

CONSTANTS ExpertRobot, AiRobot,  \* the users robot_expert and robot_ai
          Experts,               \* rows of experts
          ExpertTip, AiTip,      \* expert_predictions, ai_predictions: code per match and wager
          NoTip,
          Kickoff,               \* match_time_str, in hours
          Hours,                 \* values of the clock
          Calls, NoEntry,
          MaxStores, MaxLate, MaxReadFaults

Wagers  == Matches \X SubTypes
Players == Users \ {ExpertRobot, AiRobot}
Roles   == {"user", "expert", "ai"}

ASSUME BoardsAssumption ==
    /\ ExpertRobot \in Users /\ AiRobot \in Users
    /\ IsFiniteSet(Experts)
    /\ AiTip \in [Wagers -> Codes \cup {NoTip}]
    /\ ExpertTip \in [Experts -> [Wagers -> Codes \cup {NoTip}]]
    /\ NoTip \notin Codes \cup {NoCode}
    /\ Hours \subseteq Nat
    /\ Kickoff \in [Matches -> Nat]
    /\ MaxStores \in Nat /\ MaxLate \in Nat /\ MaxReadFaults \in Nat

VARIABLES clock,
          late,        \* history: bets inserted after their kickoff
          announced,   \* history: the days the checker logged as complete
          guessed,     \* history: those it logged from a part of their rows
          call,        \* per request: where it is, what it has read
          stores, readFaults

NewCall == [op |-> "new"]
Failed  == [op |-> "failed"]

boardVars == <<rowsVars, clock, late, announced, guessed, call, stores, readFaults>>

BoardsInit ==
    /\ RowsInit
    /\ clock \in Hours
    /\ late = {} /\ announced = {} /\ guessed = {}
    /\ call = [r \in Calls |-> NewCall]
    /\ stores = 0 /\ readFaults = 0

-----------------------------------------------------------------------------
(* The rest of the system.                                                 *)

Tick ==
    /\ \E h \in Hours : h > clock /\ clock' = h
    /\ UNCHANGED <<rowsVars, late, announced, guessed, call, stores, readFaults>>

\* CreateBet and the robots look at the kickoff before they insert: a bet that
\* passed the check in time may be inserted late.
Bet(b, u, m, st, c) ==
    /\ AddRow(b, u, m, st, c)
    /\ \/ clock <= Kickoff[m] /\ UNCHANGED late
       \/ clock > Kickoff[m] /\ Cardinality(late) < MaxLate /\ late' = late \cup {b}
    /\ UNCHANGED <<clock, announced, guessed, call, stores, readFaults>>

\* A match has a result only after it began.
News(m, r) ==
    /\ clock > Kickoff[m]
    /\ stores < MaxStores
    /\ stores' = stores + 1
    /\ StoreResult(m, r)
    /\ UNCHANGED <<clock, late, announced, guessed, call, readFaults>>

Close(b) ==
    /\ CloseRow(b)
    /\ UNCHANGED <<clock, late, announced, guessed, call, stores, readFaults>>

-----------------------------------------------------------------------------
(* Betting days                                                            *)

\* Mutant: before eleven the day that still runs is taken.
LastDay_NoEleven(now) == (now \div 24) - 1

\* The last day that has ended at the hour now.
LastDay(now) == (now \div 24) - (IF now % 24 < 11 THEN 2 ELSE 1)

InDay(m, d) == d * 24 + 11 <= Kickoff[m] /\ Kickoff[m] < (d + 1) * 24 + 11

RowsOn(d) == {b \in Placed : InDay(predictions[b].match, d)}

RowsIn(u, d) == {b \in RowsOn(d) : predictions[b].user = u}

\* The connection may be lost while the rows of a reply are fetched; some readers do
\* not ask for that error and take the rows they have for all.
Fetched(all) ==
    \/ all /\ UNCHANGED readFaults
    \/ ~all /\ readFaults < MaxReadFaults /\ readFaults' = readFaults + 1

\* Mutant: the rows of the robots are not looked at.
ReadyCheck_Players ==
    LET d == LastDay(clock) IN
    \E seen \in SUBSET RowsOn(d) \ {{}} :
        /\ {b \in seen \cap Pending : predictions[b].user \in Players} = {}
        /\ Fetched(seen = RowsOn(d))
        /\ announced' = announced \cup {d}
        /\ guessed' = IF seen = RowsOn(d) THEN guessed ELSE guessed \cup {d}
        /\ UNCHANGED <<rowsVars, clock, late, call, stores>>

\* A failed check, or one that finds pending rows, changes nothing.
ReadyCheck ==
    LET d == LastDay(clock) IN
    \E seen \in SUBSET RowsOn(d) \ {{}} :
        /\ seen \cap Pending = {}
        /\ Fetched(seen = RowsOn(d))
        /\ announced' = announced \cup {d}
        /\ guessed' = IF seen = RowsOn(d) THEN guessed ELSE guessed \cup {d}
        /\ UNCHANGED <<rowsVars, clock, late, call, stores>>

Start(r) ==
    /\ call[r] = NewCall
    /\ UNCHANGED <<rowsVars, clock, late, announced, guessed, stores, readFaults>>

-----------------------------------------------------------------------------
(* GetPK                                                                   *)

Tally   == [rows : SUBSET BetIds, open : SUBSET BetIds, won : SUBSET BetIds]
NoTally == [rows |-> {}, open |-> {}, won |-> {}]

\* One query of a role's rows of the day, as the caller sees them for ever after.
Read(u, d) == [rows |-> RowsIn(u, d), open |-> RowsIn(u, d) \cap Pending,
               won |-> RowsIn(u, d) \cap WonRows(u)]

\* Mutant: only the user's own rows are looked at.
HasPending_Own(tally) == tally["user"].open # {}

HasPending(tally) == \E role \in Roles : tally[role].open # {}

\* Mutant: two leaders of three are no tie.
DecidePKWinner_AllTie(w) ==
    LET top == CHOOSE n \in {w[role] : role \in Roles} : \A role \in Roles : w[role] <= n
    IN  CASE \A role \in Roles : w[role] = top -> "tie"
          [] OTHER -> CASE top = w["user"] -> "user" [] top = w["expert"] -> "expert" [] OTHER -> "ai"

DecidePKWinner(w) ==
    LET top     == CHOOSE n \in {w[role] : role \in Roles} : \A role \in Roles : w[role] <= n
        leaders == {role \in Roles : w[role] = top}
    IN  IF Cardinality(leaders) > 1 THEN "tie" ELSE CHOOSE role \in Roles : role \in leaders

Wins(tally) == [role \in Roles |-> Cardinality(tally[role].won)]

\* The user's rows come first; without any there is nothing to compare.
PkUser(r, u) ==
    LET d == LastDay(clock)
        t == Read(u, d)
    IN  /\ Start(r)
        /\ call' = [call EXCEPT ![r] =
               [op |-> "pk", pc |-> IF t.rows = {} THEN "norows" ELSE "expert",
                user |-> u, day |-> d, told |-> d \in announced, winner |-> "none",
                tally |-> [role \in Roles |-> IF role = "user" THEN t ELSE NoTally]]]

AtPk(r, pc) ==
    /\ call[r].op = "pk" /\ call[r].pc = pc
    /\ UNCHANGED <<rowsVars, clock, late, announced, guessed, stores, readFaults>>

PkExpert(r) ==
    /\ AtPk(r, "expert")
    /\ call' = [call EXCEPT ![r].pc = "ai", ![r].tally["expert"] = Read(ExpertRobot, call[r].day)]

PkAi(r) ==
    LET tally == [call[r].tally EXCEPT !["ai"] = Read(AiRobot, call[r].day)] IN
    /\ AtPk(r, "ai")
    /\ call' = [call EXCEPT ![r].pc = IF HasPending(tally) THEN "waiting" ELSE "decided",
                            ![r].tally = tally,
                            ![r].winner = IF HasPending(tally) THEN "none"
                                          ELSE DecidePKWinner(Wins(tally))]

\* A query fails: the call ends with an error.
PkFails(r) ==
    /\ \/ Start(r) /\ call' = [call EXCEPT ![r] = Failed]
       \/ /\ AtPk(r, "expert") \/ AtPk(r, "ai")
          /\ call' = [call EXCEPT ![r] = Failed]

-----------------------------------------------------------------------------
(* GetUserPredictionsEnriched: what it does for one row of the list.  The  *)
(* rows come first, then, row by row, the result and the tips as they are  *)
(* by then; an error of a later query counts as nothing found.             *)

ListRow(r, b) ==
    /\ Start(r)
    /\ b \in Placed
    /\ call' = [call EXCEPT ![r] =
           [op |-> "list", pc |-> IF b \in Pending THEN "listed" ELSE "result",
            bet |-> b, right |-> [role \in Roles |-> FALSE], winner |-> "none"]]

RightExperts(w, code) == {x \in Experts : ExpertTip[x][w] = code}

\* Mutant: a tie of the robots stays a tie when the user is right.
ListWinner_TieStays(user, ai, experts) ==
    IF user \/ (experts = 1 /\ ai) THEN "tie"
    ELSE IF experts > 0 THEN "expert"
    ELSE IF ai THEN "ai" ELSE "tie"

\* The loop over the experts turns "ai" into "tie", anything else into "expert";
\* the user turns "ai" and "expert" into "tie", and "tie" into "user".
ListWinner(user, ai, experts) ==
    LET robots == IF experts = 1 /\ ai THEN "tie"
                  ELSE IF experts > 0 THEN "expert"
                  ELSE IF ai THEN "ai" ELSE "tie"
    IN  IF ~user THEN robots ELSE IF robots = "tie" THEN "user" ELSE "tie"

\* The answer from the result d (NoResult: none, or not valid), with or without the
\* AI's tip, and from the tips of the experts xs; the
\* row itself, closed when it was listed, is what it was.  right["expert"]: one of the
\* experts guessed it (the reply names the last expert read).
Listed(r, d, ais, xs) ==
    LET row  == predictions[call[r].bet]
        w    == <<row.match, row.subType>>
        user == row.status = "won"
        code == d.draw[row.subType]
        ai   == ais /\ AiTip[w] = code
        n    == Cardinality(RightExperts(w, code) \cap xs)
    IN  call' = [call EXCEPT ![r] =
            IF d # NoResult /\ d.valid
            THEN [@ EXCEPT !.pc = "compared",
                           !.right = [role \in Roles |-> CASE role = "user" -> user
                                                           [] role = "ai" -> ai
                                                           [] OTHER -> n > 0],
                           !.winner = ListWinner(user, ai, n)]
            ELSE [@ EXCEPT !.pc = "listed", !.winner = "tie"]]

AtList(r) ==
    /\ call[r].op = "list" /\ call[r].pc = "result"
    /\ UNCHANGED <<rowsVars, clock, late, announced, guessed, stores>>

ListResult(r) ==
    /\ AtList(r)
    /\ Listed(r, results[predictions[call[r].bet].match], TRUE, Experts)
    /\ UNCHANGED readFaults

ListFails(r) ==
    /\ AtList(r)
    /\ readFaults < MaxReadFaults
    /\ readFaults' = readFaults + 1
    /\ \E d \in {results[predictions[call[r].bet].match], NoResult}, ais \in BOOLEAN,
          xs \in SUBSET Experts :
           Listed(r, d, ais, xs)

-----------------------------------------------------------------------------
(* GetLeaderboard                                                          *)

\* cur after each element of the loop of calcStreak.
Cur(v) == LET cur[i \in 0 .. Len(v)] == IF i = 0 THEN 0 ELSE IF v[i] THEN cur[i-1] + 1 ELSE 0
          IN  cur

Streaks(v) == {Cur(v)[i] : i \in 0 .. Len(v)}

\* Mutant: the streak that still runs at the end, not the longest.
CalcStreak_Last(v) == Cur(v)[Len(v)]

CalcStreak(v) == CHOOSE n \in Streaks(v) : \A k \in Streaks(v) : k <= n

\* The user's closed rows by kickoff; the order of equal kickoffs is the database's.
Verdicts(u) ==
    LET n     == Cardinality(Closed(u))
        order == {s \in [1 .. n -> Closed(u)] :
                     /\ Closed(u) = {s[i] : i \in 1 .. n}
                     /\ \A i, j \in 1 .. n : i < j => Kickoff[predictions[s[i]].match]
                                                   <= Kickoff[predictions[s[j]].match]}
    IN  {[i \in 1 .. n |-> predictions[s[i]].status = "won"] : s \in order}

UserEntry(v) == [verdicts |-> v, wins |-> Cardinality({i \in 1 .. Len(v) : v[i]}),
                 streak |-> CalcStreak(v)]

Board(r, u) ==
    /\ Start(r)
    /\ call' = [call EXCEPT ![r] = [op |-> "board", user |-> u, todo |-> Roles,
                                    entry |-> [role \in Roles |-> NoEntry]]]

Shown(u, role) == CASE role = "user" -> u [] role = "expert" -> ExpertRobot [] OTHER -> AiRobot

\* The expert first, then the AI, then the user.
Turn(r, role) == /\ role \in call[r].todo
                 /\ role = "ai" => "expert" \notin call[r].todo
                 /\ role = "user" => call[r].todo = {"user"}

\* A robot that never played may be no user yet, and has no entry.
Unknown(u, role) == role # "user" /\ \A b \in Placed : predictions[b].user # u

\* The verdicts are those fetched, the first ones.
BoardEntry(r, role) ==
    LET u == Shown(call[r].user, role) IN
    /\ call[r].op = "board" /\ Turn(r, role)
    /\ \E v \in Verdicts(u), n \in 0 .. Cardinality(Closed(u)) :
         \E e \in {UserEntry(SubSeq(v, 1, n))} \cup (IF Unknown(u, role) THEN {NoEntry} ELSE {}) :
             /\ Fetched(n = Len(v))
             /\ call' = [call EXCEPT ![r] = [op |-> "board", user |-> @.user, todo |-> @.todo \ {role},
                                             entry |-> [@.entry EXCEPT ![role] = e]]]
    /\ UNCHANGED <<rowsVars, clock, late, announced, guessed, stores>>

\* A query fails: the request ends with an error.
BoardFails(r) ==
    /\ call[r].op = "board" /\ call[r].todo # {}
    /\ call' = [call EXCEPT ![r] = Failed]
    /\ UNCHANGED <<rowsVars, clock, late, announced, guessed, stores, readFaults>>

-----------------------------------------------------------------------------
PkStep(r) == (\E u \in Players : PkUser(r, u)) \/ PkExpert(r) \/ PkAi(r) \/ PkFails(r)

ListStep(r) == (\E b \in BetIds : ListRow(r, b)) \/ ListResult(r) \/ ListFails(r)

BoardStep(r) ==
    \/ \E u \in Players : Board(r, u)
    \/ \E role \in Roles : BoardEntry(r, role)
    \/ BoardFails(r)

Play ==
    \/ \E b \in BetIds, u \in Users, m \in Matches, st \in SubTypes, c \in Codes : Bet(b, u, m, st, c)
    \/ \E m \in Matches, d \in Result : News(m, d)
    \/ \E b \in BetIds : Close(b)

BoardsNext ==
    \/ Tick
    \/ Play
    \/ ReadyCheck
    \/ \E r \in Calls : PkStep(r) \/ ListStep(r) \/ BoardStep(r)

BoardsSpec == BoardsInit /\ [][BoardsNext]_boardVars

-----------------------------------------------------------------------------
(* Properties                                                              *)

PkState    == [op : {"pk"}, pc : {"norows", "expert", "ai", "waiting", "decided"},
               user : Players, day : Int, told : BOOLEAN, tally : [Roles -> Tally],
               winner : Roles \cup {"tie", "none"}]
ListState  == [op : {"list"}, pc : {"result", "listed", "compared"}, bet : BetIds,
               right : [Roles -> BOOLEAN], winner : Roles \cup {"tie", "none"}]

\* What a call holds; an entry of the leaderboard is EntriesHold's matter.
CallOK(c) ==
    \/ c \in {NewCall, Failed} \cup PkState \cup ListState
    \/ /\ c.op = "board" /\ c.user \in Players /\ c.todo \subseteq Roles
       /\ c = [op |-> "board", user |-> c.user, todo |-> c.todo, entry |-> c.entry]
       /\ DOMAIN c.entry = Roles

BoardsTypeOK ==
    /\ StoreTypeOK
    /\ results \in [Matches -> Result \cup {NoResult}]
    /\ published \in [Matches -> SUBSET Draws]
    /\ clock \in Hours
    /\ late \subseteq BetIds
    /\ announced \subseteq Int /\ guessed \subseteq announced
    /\ call = [r \in Calls |-> call[r]] /\ \A r \in Calls : CallOK(call[r])
    /\ stores \in Nat /\ readFaults \in Nat

Pk(r) == call[r].op = "pk"

Decided(r) == Pk(r) /\ call[r].pc = "decided"

\* A decided comparison is about a day that is over and stays what it was: although
\* its three queries see the table at three moments, no later step changes a row it
\* counted, and only bets inserted after their kickoff can be missing from it.
PKStands ==
    \A r \in Calls : Decided(r) =>
        \A role \in Roles :
            LET t == call[r].tally[role]
                u == Shown(call[r].user, role)
            IN  /\ t.rows \subseteq RowsIn(u, call[r].day)
                /\ RowsIn(u, call[r].day) \ t.rows \subseteq late
                /\ t.rows \cap Pending = {}
                /\ t.won = t.rows \cap WonRows(u)

\* A role is named the winner exactly when it has more wins than both others.
WinnerLeads ==
    \A r \in Calls : Decided(r) =>
        \A role \in Roles :
            (call[r].winner = role) <=>
                \A other \in Roles \ {role} :
                    Cardinality(call[r].tally[role].won) > Cardinality(call[r].tally[other].won)

\* Once the server has found a day complete (main.go:341 "PK cycle ready"), and did not
\* guess it from a part of the rows, a user who asks is told to wait for bets inserted
\* after their kickoff only.
ReadyHolds ==
    \A r \in Calls : Pk(r) /\ call[r].told /\ call[r].day \notin guessed =>
        \A role \in Roles : call[r].tally[role].open \subseteq late

\* Who is named the winner of a bet did guess it, and who alone guessed it is named,
\* whatever became of the result since the row was closed.
SoleWinnerNamed ==
    \A r \in Calls : call[r].op = "list" /\ call[r].pc = "compared" =>
        LET right == {role \in Roles : call[r].right[role]} IN
        /\ call[r].winner \in Roles => call[r].winner \in right
        /\ Cardinality(right) = 1 => call[r].winner \in right

\* The length of the longest run of wins, by definition.
LongestRun(v) ==
    LET runs == {p \in (1 .. Len(v)) \X (1 .. Len(v)) : \A i \in p[1] .. p[2] : v[i]}
    IN  CHOOSE n \in 0 .. Len(v) :
            /\ n = 0 \/ \E p \in runs : p[2] - p[1] + 1 = n
            /\ \A p \in runs : p[2] - p[1] + 1 <= n

\* The leaderboard's entries, read one after the other, never show a verdict that is
\* not, or no longer, in the table, and the streak is the longest run of wins.
EntriesHold ==
    \A r \in Calls : call[r].op = "board" =>
        \A role \in Roles : call[r].entry[role] # NoEntry =>
            LET e == call[r].entry[role]
                u == Shown(call[r].user, role)
            IN  /\ e.wins <= Cardinality(WonRows(u))
                /\ Len(e.verdicts) - e.wins <= Cardinality(Closed(u) \ WonRows(u))
                /\ e.streak = LongestRun(e.verdicts)
=============================================================================
