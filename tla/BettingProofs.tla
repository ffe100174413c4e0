--------------------------- MODULE BettingProofs ---------------------------
(***************************************************************************)
(* Proofs about Betting, for any numbers of users, matches, calls, robots  *)
(* and failures.                                                           *)
(***************************************************************************)
EXTENDS Betting, FiniteSetTheorems, TLAPS

\* Nothing settles here: every row is pending.
AllPending == Placed = Pending

BetInv == BetTypeOK /\ AllPending /\ OneBetPerSelection

\* The cardinalities the properties compare are those of finite sets.
LEMMA BetCountsFinite ==
    ASSUME NEW u \in Users
    PROVE  /\ IsFiniteSet(RowsOf(u)) /\ Cardinality(RowsOf(u)) \in Nat
           /\ IsFiniteSet(Counting(u)) /\ Cardinality(Counting(u)) \in Nat
<1>1. IsFiniteSet(RowsOf(u)) /\ IsFiniteSet(Counting(u))
  BY StoreAssumption, FS_Subset DEF RowsOf, Counting, Placed, Requests
<1> QED
  BY <1>1, FS_CardinalityType

LEMMA BetCardStep ==
    ASSUME NEW S, NEW x, IsFiniteSet(S)
    PROVE  /\ Cardinality(S \cup {x}) \in Nat /\ Cardinality(S \ {x}) \in Nat
           /\ Cardinality(S) <= Cardinality(S \cup {x})
           /\ Cardinality(S \cup {x}) <= Cardinality(S) + 1
           /\ x \notin S => Cardinality(S \cup {x}) = Cardinality(S) + 1
           /\ x \in S => Cardinality(S \ {x}) = Cardinality(S) - 1
<1>1. /\ Cardinality(S) \in Nat
      /\ Cardinality(S \cup {x}) \in Nat /\ Cardinality(S \ {x}) \in Nat
  BY FS_AddElement, FS_RemoveElement, FS_CardinalityType
<1>2. Cardinality(S \cup {x}) = IF x \in S THEN Cardinality(S) ELSE Cardinality(S) + 1
  BY FS_AddElement
<1>3. Cardinality(S \ {x}) = IF x \in S THEN Cardinality(S) - 1 ELSE Cardinality(S)
  BY FS_RemoveElement
<1> QED
  BY <1>1, <1>2, <1>3

-----------------------------------------------------------------------------
(* Types                                                                   *)

\* An insert puts one pending row where there was none.
LEMMA InsertRowType ==
    ASSUME StoreTypeOK, NEW b \in BetIds, NEW u \in Users, NEW m \in Matches,
           NEW st \in SubTypes, NEW c \in Codes, InsertRow(b, u, m, st, c)
    PROVE  /\ StoreTypeOK'
           /\ predictions[b] = NoRow /\ predictions'[b] # NoRow
           /\ predictions'[b].user = u /\ predictions'[b].match = m
           /\ predictions'[b].subType = st /\ predictions'[b].status = "pending"
           /\ \A k \in BetIds \ {b} : predictions'[k] = predictions[k]
           /\ Collisions(u, m, st) = {}
<1> DEFINE r == [user |-> u, match |-> m, subType |-> st, code |-> c, status |-> "pending"]
<1>1. r \in Row /\ r # NoRow
  BY NoRowAssumption DEF Row
<1>2. predictions \in [BetIds -> Row \cup {NoRow}] /\ predictions' = [predictions EXCEPT ![b] = r]
  BY DEF StoreTypeOK, InsertRow
<1>3. predictions[b] = NoRow /\ Collisions(u, m, st) = {}
  BY DEF InsertRow
<1> QED
  BY <1>1, <1>2, <1>3 DEF StoreTypeOK

\* The selection of a call that has been made.
LEMMA CallBet ==
    ASSUME BetTypeOK, NEW b \in Requests, call[b].pc # "new"
    PROVE  /\ b \in BetIds /\ call[b].bet.user \in Users /\ call[b].bet.user \in Humans
           /\ call[b].bet.match \in Matches
           /\ call[b].bet.subType \in SubTypes /\ call[b].bet.code \in Codes
           /\ call[b] \in [pc : {"check", "insert", "count", "done", "refused", "failed"},
                           bet : Selection]
  BY DEF BetTypeOK, CallState, NewCall, Selection, Humans, Requests

\* A call only moves on to its next statement.
LEMMA CallType ==
    ASSUME BetTypeOK, NEW b \in Requests, call[b].pc # "new",
           NEW l \in {"check", "insert", "count", "done", "refused", "failed"}
    PROVE  [call EXCEPT ![b].pc = l] \in [Requests -> CallState]
<1>1. call \in [Requests -> CallState]
  BY DEF BetTypeOK
<1>2. [call[b] EXCEPT !.pc = l] \in CallState
  BY CallBet DEF CallState
<1> QED
  BY <1>1, <1>2

LEMMA BetInitType == BetInit => BetTypeOK
  BY BetAssumption, NoRowAssumption DEF BetInit, StoreInit, BetTypeOK, StoreTypeOK, CallState,
     NoRun, Times

LEMMA TypeCrawl ==
    ASSUME BetTypeOK, NEW m \in Matches, NEW l \in Listings, UpsertMatch(m, l)
    PROVE  BetTypeOK'
<1>1. l \in Listing
  BY BetAssumption
<1>2. Inserted(l) \in MatchRow
  BY <1>1 DEF Inserted, Listing, MatchRow
<1>3. ASSUME NEW row \in MatchRow PROVE Refreshed(row, l) \in MatchRow
  BY <1>1 DEF Refreshed, Listing, MatchRow
<1>4. matches' \in [Matches -> MatchRow \cup {NoMatchRow}]
  BY <1>2, <1>3 DEF UpsertMatch, BetTypeOK
<1> QED
  BY <1>4 DEF BetTypeOK, StoreTypeOK, UpsertMatch

LEMMA TypeRequest ==
    ASSUME BetTypeOK, NEW b \in Requests, NEW u \in Humans, NEW m \in Matches,
           NEW st \in SubTypes, NEW c \in Codes, Request(b, u, m, st, c)
    PROVE  BetTypeOK'
<1>1. [pc  |-> IF Open(matches[m], clock, st, c) THEN "check" ELSE "refused",
       bet |-> [user |-> u, match |-> m, subType |-> st, code |-> c]] \in CallState
  BY DEF CallState, Selection
<1>2. call' \in [Requests -> CallState]
  BY <1>1 DEF Request, BetTypeOK
<1> QED
  BY <1>2 DEF BetTypeOK, StoreTypeOK, Request

LEMMA TypeCheckDuplicate ==
    ASSUME BetTypeOK, NEW b \in Requests, CheckDuplicate(b)
    PROVE  BetTypeOK'
<1>1. call' \in [Requests -> CallState]
  BY CallType DEF CheckDuplicate
<1> QED
  BY <1>1 DEF BetTypeOK, StoreTypeOK, CheckDuplicate

LEMMA TypeInsert ==
    ASSUME BetTypeOK, NEW b \in Requests, Insert(b)
    PROVE  BetTypeOK'
<1>1. call' \in [Requests -> CallState]
  BY CallType DEF Insert
<1>2. StoreTypeOK'
  BY CallBet, InsertRowType DEF Insert, InsertBet, BetTypeOK, StoreTypeOK
<1> QED
  BY <1>1, <1>2 DEF BetTypeOK, Insert

LEMMA TypeCount ==
    ASSUME BetTypeOK, NEW b \in Requests, Count(b)
    PROVE  BetTypeOK'
<1>1. call' \in [Requests -> CallState]
  BY CallType DEF Count
<1>2. totalBets' \in [Users -> Nat]
  BY CallBet DEF Count, BetTypeOK
<1> QED
  BY <1>1, <1>2 DEF BetTypeOK, StoreTypeOK, Count

LEMMA RobotRunType ==
    ASSUME NEW list \in [Matches -> MatchRow \cup {NoMatchRow}],
           NEW todo \in SUBSET (Matches \X Robots), RobotRun(list, todo)
    PROVE  robot' \in [list : [Matches -> MatchRow \cup {NoMatchRow}], todo : SUBSET (Matches \X Robots)]
  BY DEF RobotRun, NoRun

LEMMA TypeRobotStart ==
    ASSUME BetTypeOK, RobotStart
    PROVE  BetTypeOK'
<1>1. Upcoming \in [Matches -> MatchRow \cup {NoMatchRow}]
  BY DEF BetTypeOK, Upcoming
<1>2. PICK todo \in SUBSET (Matches \X Robots) : RobotRun(Upcoming, todo)
  BY DEF RobotStart
<1>3. robot' \in [list : [Matches -> MatchRow \cup {NoMatchRow}], todo : SUBSET (Matches \X Robots)]
  BY <1>1, <1>2, RobotRunType
<1> QED
  BY <1>3 DEF BetTypeOK, StoreTypeOK, RobotStart

LEMMA TypeRobotRest ==
    ASSUME BetTypeOK, NEW t, RobotRun(robot.list, robot.todo \ {t})
    PROVE  robot' \in [list : [Matches -> MatchRow \cup {NoMatchRow}], todo : SUBSET (Matches \X Robots)]
  BY RobotRunType DEF BetTypeOK

LEMMA TypeRobotBet ==
    ASSUME BetTypeOK, NEW b \in RobotIds, NEW t \in Matches \X Robots, NEW st \in SubTypes,
           NEW c \in Codes, RobotBet(b, t, st, c)
    PROVE  BetTypeOK'
<1>1. StoreTypeOK'
  BY BetAssumption, InsertRowType DEF RobotBet, BetTypeOK, StoreTypeOK
<1> QED
  BY <1>1, TypeRobotRest DEF BetTypeOK, RobotBet

LEMMA TypeFaults ==
    ASSUME BetTypeOK, BetFaultStep \/ BetCrash
    PROVE  BetTypeOK'
<1>1. ASSUME NEW b \in Requests, CallError(b) PROVE BetTypeOK'
  <2>1. call' \in [Requests -> CallState]
    BY <1>1, CallType DEF CallError
  <2> QED
    BY <1>1, <2>1 DEF BetTypeOK, StoreTypeOK, CallError, BetFault
<1>2. ASSUME NEW b \in Requests, ReplyLost(b) PROVE BetTypeOK'
  <2>1. call' \in [Requests -> CallState]
    BY <1>2, CallType DEF ReplyLost
  <2>2. StoreTypeOK'
    BY <1>2, CallBet, InsertRowType DEF ReplyLost, InsertBet, BetTypeOK
  <2> QED
    BY <1>2, <2>1, <2>2 DEF BetTypeOK, ReplyLost, BetFault
<1>3. ASSUME NEW t \in Matches \X Robots, RobotError(t) PROVE BetTypeOK'
  <2>1. robot' \in [list : [Matches -> MatchRow \cup {NoMatchRow}], todo : SUBSET (Matches \X Robots)]
    BY <1>3, TypeRobotRest DEF RobotError
  <2>2. UNCHANGED <<predictions, matches, totalBets, call, clock, robotRuns, moves>> /\ betFaults' \in Nat
    BY <1>3 DEF RobotError, BetFault, BetTypeOK
  <2> QED
    BY <2>1, <2>2 DEF BetTypeOK, StoreTypeOK
<1>4. CASE BetCrash
  <2>1. \A b \in Requests : call[b].pc \in {"check", "insert", "count"} =>
            [call[b] EXCEPT !.pc = "failed"] \in CallState
    BY CallBet DEF CallState
  <2>2. call' \in [Requests -> CallState]
    BY <1>4, <2>1 DEF BetCrash, StopServer, BetTypeOK
  <2> QED
    BY <1>4, <2>2 DEF BetTypeOK, StoreTypeOK, BetCrash, StopServer, BetFault, NoRun
<1> QED
  BY <1>1, <1>2, <1>3, <1>4 DEF BetFaultStep

LEMMA BetNextType == BetTypeOK /\ [BetNext]_betVars => BetTypeOK'
<1> SUFFICES ASSUME BetTypeOK, [BetNext]_betVars PROVE BetTypeOK'
  OBVIOUS
<1>1. CASE Tick
  BY <1>1, BetAssumption DEF Tick, BetTypeOK, StoreTypeOK, Times
<1>2. CASE CrawlStep
  BY <1>2, TypeCrawl DEF CrawlStep
<1>3. CASE \E b \in Requests : CallStep(b)
  BY <1>3, TypeRequest, TypeCheckDuplicate, TypeInsert, TypeCount DEF CallStep
<1>4. CASE RobotStep
  BY <1>4, TypeRobotStart, TypeRobotBet DEF RobotStep
<1>5. CASE BetFaultStep \/ BetCrash
  BY <1>5, TypeFaults
<1>6. CASE UNCHANGED betVars
  BY <1>6 DEF betVars, BetTypeOK, StoreTypeOK
<1> QED
  BY <1>1, <1>2, <1>3, <1>4, <1>5, <1>6 DEF BetNext

\* Every variable of Betting keeps its type.
THEOREM BetTypeCorrect == BetSpec => []BetTypeOK
  BY BetInitType, BetNextType, PTL DEF BetSpec

-----------------------------------------------------------------------------
(* One bet per selection                                                   *)

\* As far as the rows are concerned, a step either leaves them or inserts one.
LEMMA RowSteps ==
    ASSUME BetTypeOK, [BetNext]_betVars
    PROVE  \/ predictions' = predictions
           \/ \E b \in BetIds, u \in Users, m \in Matches, st \in SubTypes, c \in Codes :
                  InsertRow(b, u, m, st, c)
<1>1. CASE \E b \in Requests : CallStep(b)
  BY <1>1, CallBet DEF CallStep, Request, CheckDuplicate, Insert, InsertBet, Count
<1>2. CASE RobotStep
  <2>1. CASE RobotStart
    BY <2>1 DEF RobotStart
  <2>2. ASSUME NEW b \in RobotIds, NEW t \in Matches \X Robots, NEW st \in SubTypes, NEW c \in Codes,
               RobotBet(b, t, st, c)
        PROVE  \/ predictions' = predictions
               \/ InsertRow(b, t[2], t[1], st, c)
    BY <2>2 DEF RobotBet
  <2> QED
    BY <1>2, <2>1, <2>2, BetAssumption DEF RobotStep
<1>3. CASE BetFaultStep
  BY <1>3, CallBet DEF BetFaultStep, CallError, ReplyLost, InsertBet, RobotError
<1> QED
  BY <1>1, <1>2, <1>3 DEF BetNext, betVars, Tick, CrawlStep, UpsertMatch, BetCrash

LEMMA OneBetStep ==
    ASSUME BetInv, NEW b \in BetIds, NEW u \in Users, NEW m \in Matches, NEW st \in SubTypes,
           NEW c \in Codes, InsertRow(b, u, m, st, c)
    PROVE  AllPending' /\ OneBetPerSelection'
<1>1. /\ predictions[b] = NoRow /\ predictions'[b] # NoRow
      /\ predictions'[b].user = u /\ predictions'[b].match = m
      /\ predictions'[b].subType = st /\ predictions'[b].status = "pending"
      /\ \A k \in BetIds \ {b} : predictions'[k] = predictions[k]
      /\ Collisions(u, m, st) = {}
  BY InsertRowType DEF BetInv, BetTypeOK
<1>2. Placed' = Placed \cup {b} /\ b \notin Placed
  BY <1>1 DEF Placed
<1>3. AllPending'
  BY <1>1, <1>2 DEF BetInv, AllPending, Pending, Placed
<1>4. \A k \in Placed : ~(/\ predictions[k].user = u /\ predictions[k].match = m
                          /\ predictions[k].subType = st)
  BY <1>1 DEF BetInv, AllPending, Collisions
<1>5. ASSUME NEW k \in Placed'
      PROVE  Earlier(predictions[k])' = {k}
  <2>1. CASE k = b
    BY <1>1, <1>2, <1>4, <2>1 DEF Earlier, Placed
  <2>2. CASE k # b
    BY <1>1, <1>2, <1>4, <2>2 DEF Earlier, Placed, BetInv, OneBetPerSelection
  <2> QED
    BY <2>1, <2>2
<1> QED
  BY <1>3, <1>5 DEF OneBetPerSelection

\* However many calls and robots race for a selection, and whatever fails, at most one
\* row is ever inserted for it, as long as nothing settles rows meanwhile: the partial
\* unique index closes the gap between CreateBet's check and its insert.
THEOREM OneBet == BetSpec => []OneBetPerSelection
<1>1. BetInit => BetInv
  <2>1. BetInit => AllPending /\ OneBetPerSelection
    BY DEF BetInit, StoreInit, AllPending, OneBetPerSelection, Placed, Pending
  <2> QED
    BY <2>1, BetInitType DEF BetInv
<1>2. BetInv /\ [BetNext]_betVars => BetInv'
  <2> SUFFICES ASSUME BetInv, [BetNext]_betVars PROVE BetInv'
    OBVIOUS
  <2>1. BetTypeOK /\ BetTypeOK'
    BY BetNextType DEF BetInv
  <2>2. CASE predictions' = predictions
    BY <2>1, <2>2 DEF BetInv, AllPending, OneBetPerSelection, Placed, Pending, Earlier
  <2>3. CASE \E b \in BetIds, u \in Users, m \in Matches, st \in SubTypes, c \in Codes :
                 InsertRow(b, u, m, st, c)
    BY <2>1, <2>3, OneBetStep DEF BetInv
  <2> QED
    BY <2>1, <2>2, <2>3, RowSteps
<1>3. BetInv => OneBetPerSelection
  BY DEF BetInv
<1> QED
  BY <1>1, <1>2, <1>3, PTL DEF BetSpec

-----------------------------------------------------------------------------
(* No phantom count                                                        *)

\* What a step does to the rows of a user, to its count and to the calls between
\* the two: nothing, a call's insert, its increment, a row that is never counted
\* (a robot's, or one whose reply is lost), increments given up.
CountStep(u) ==
    \/ /\ totalBets'[u] = totalBets[u]
       /\ RowsOf(u)' = RowsOf(u) /\ Counting(u)' = Counting(u)
    \/ \E b \in BetIds : /\ totalBets'[u] = totalBets[u]
                         /\ b \notin RowsOf(u) /\ RowsOf(u)' = RowsOf(u) \cup {b}
                         /\ Counting(u)' = Counting(u) \cup {b}
    \/ \E b \in Counting(u) : /\ totalBets'[u] = totalBets[u] + 1
                              /\ RowsOf(u)' = RowsOf(u)
                              /\ Counting(u)' = Counting(u) \ {b}
    \/ \E b \in BetIds : /\ totalBets'[u] = totalBets[u]
                         /\ b \notin RowsOf(u) /\ RowsOf(u)' = RowsOf(u) \cup {b}
                         /\ Counting(u)' = Counting(u)
    \/ /\ totalBets'[u] = totalBets[u]
       /\ RowsOf(u)' = RowsOf(u) /\ Counting(u)' \subseteq Counting(u)

LEMMA InsertRowsOf ==
    ASSUME BetTypeOK, NEW u \in Users, NEW b \in BetIds, NEW v \in Users, NEW m \in Matches,
           NEW st \in SubTypes, NEW c \in Codes, InsertRow(b, v, m, st, c)
    PROVE  b \notin RowsOf(u) /\ RowsOf(u)' = IF u = v THEN RowsOf(u) \cup {b} ELSE RowsOf(u)
  BY InsertRowType DEF BetTypeOK, RowsOf, Placed

\* A call that moves on to l.
LEMMA CallMoves ==
    ASSUME BetTypeOK, NEW b \in Requests, call[b].pc # "new", NEW l,
           call' = [call EXCEPT ![b].pc = l]
    PROVE  /\ \A k \in Requests \ {b} : call'[k] = call[k]
           /\ call'[b].pc = l /\ call'[b].bet = call[b].bet
<1>1. call \in [Requests -> CallState]
  BY DEF BetTypeOK
<1> QED
  BY <1>1, CallBet

LEMMA CountStepCall ==
    ASSUME BetTypeOK, NEW u \in Users, NEW b \in Requests, CallStep(b)
    PROVE  CountStep(u)
<1>t. call \in [Requests -> CallState] /\ totalBets \in [Users -> Nat] /\ b \in BetIds
  BY DEF BetTypeOK, Requests
<1>1. CASE \E v \in Humans, m \in Matches, st \in SubTypes, c \in Codes : Request(b, v, m, st, c)
  <2>1. /\ call[b].pc = "new" /\ call'[b].pc \in {"check", "refused"}
        /\ \A k \in Requests \ {b} : call'[k] = call[k]
        /\ predictions' = predictions /\ totalBets' = totalBets
    BY <1>t, <1>1 DEF Request, NewCall
  <2> QED
    BY <2>1 DEF CountStep, RowsOf, Placed, Counting
<1>2. CASE CheckDuplicate(b)
  <2>1. /\ call[b].pc = "check" /\ call'[b].pc # "count"
        /\ \A k \in Requests \ {b} : call'[k] = call[k]
        /\ predictions' = predictions /\ totalBets' = totalBets
    BY <1>2, CallMoves DEF CheckDuplicate
  <2> QED
    BY <2>1 DEF CountStep, RowsOf, Placed, Counting
<1>3. CASE Insert(b)
  <2>1. call[b].pc = "insert" /\ totalBets' = totalBets
    BY <1>3 DEF Insert
  <2>2. CASE InsertBet(b) /\ call' = [call EXCEPT ![b].pc = "count"]
    <3>1. /\ b \notin RowsOf(u)
          /\ RowsOf(u)' = IF u = call[b].bet.user THEN RowsOf(u) \cup {b} ELSE RowsOf(u)
      BY <2>1, <2>2, CallBet, InsertRowsOf DEF InsertBet
    <3>2. Counting(u)' = IF u = call[b].bet.user THEN Counting(u) \cup {b} ELSE Counting(u)
      <4>1. /\ call'[b].pc = "count" /\ call'[b].bet = call[b].bet
            /\ \A k \in Requests \ {b} : call'[k] = call[k]
        BY <2>1, <2>2, CallMoves
      <4> QED
        BY <2>1, <4>1 DEF Counting
    <3> QED
      BY <1>t, <2>1, <3>1, <3>2 DEF CountStep
  <2>3. CASE predictions' = predictions /\ call' = [call EXCEPT ![b].pc = "failed"]
    <3>1. call'[b].pc = "failed" /\ \A k \in Requests \ {b} : call'[k] = call[k]
      BY <2>1, <2>3, CallMoves
    <3> QED
      BY <2>1, <2>3, <3>1 DEF CountStep, RowsOf, Placed, Counting
  <2> QED
    BY <1>3, <2>2, <2>3 DEF Insert
<1>4. CASE Count(b)
  <2>1. /\ call[b].pc = "count" /\ predictions' = predictions
        /\ totalBets' = [totalBets EXCEPT ![call[b].bet.user] = @ + 1]
        /\ call'[b].pc = "done" /\ \A k \in Requests \ {b} : call'[k] = call[k]
    BY <1>4, CallMoves DEF Count
  <2>2. RowsOf(u)' = RowsOf(u)
    BY <2>1 DEF RowsOf, Placed
  <2>3. CASE u = call[b].bet.user
    <3>1. b \in Counting(u) /\ Counting(u)' = Counting(u) \ {b} /\ totalBets'[u] = totalBets[u] + 1
      BY <1>t, <2>1, <2>3 DEF Counting
    <3> QED
      BY <2>2, <3>1 DEF CountStep
  <2>4. CASE u # call[b].bet.user
    <3>1. Counting(u)' = Counting(u) /\ totalBets'[u] = totalBets[u]
      BY <1>t, <2>1, <2>4 DEF Counting
    <3> QED
      BY <2>2, <3>1 DEF CountStep
  <2> QED
    BY <2>3, <2>4
<1> QED
  BY <1>1, <1>2, <1>3, <1>4 DEF CallStep

LEMMA CountStepRobot ==
    ASSUME BetTypeOK, NEW u \in Users, RobotStep
    PROVE  CountStep(u)
<1>1. totalBets' = totalBets /\ call' = call
  BY DEF RobotStep, RobotStart, RobotBet
<1>2. Counting(u)' = Counting(u)
  BY <1>1 DEF Counting
<1>3. CASE predictions' = predictions
  BY <1>1, <1>2, <1>3 DEF CountStep, RowsOf, Placed
<1>4. ASSUME NEW b \in RobotIds, NEW t \in Matches \X Robots, NEW st \in SubTypes, NEW c \in Codes,
             InsertRow(b, t[2], t[1], st, c)
      PROVE  CountStep(u)
  <2>1. b \in BetIds /\ t[2] \in Users /\ t[1] \in Matches
    BY BetAssumption
  <2>2. b \notin RowsOf(u) /\ RowsOf(u)' = IF u = t[2] THEN RowsOf(u) \cup {b} ELSE RowsOf(u)
    BY <1>4, <2>1, InsertRowsOf
  <2> QED
    BY <1>1, <1>2, <2>1, <2>2 DEF CountStep
<1> QED
  BY <1>3, <1>4 DEF RobotStep, RobotStart, RobotBet

LEMMA CountStepFault ==
    ASSUME BetTypeOK, NEW u \in Users, BetFaultStep \/ BetCrash
    PROVE  CountStep(u)
<1>1. totalBets' = totalBets
  BY DEF BetFaultStep, CallError, ReplyLost, RobotError, BetCrash
<1>2. ASSUME NEW b \in Requests, CallError(b) PROVE CountStep(u)
  <2>1. /\ predictions' = predictions
        /\ call'[b].pc = "failed" /\ \A k \in Requests \ {b} : call'[k] = call[k]
    BY <1>2, CallMoves DEF CallError
  <2> QED
    BY <1>1, <2>1 DEF CountStep, RowsOf, Placed, Counting
<1>3. ASSUME NEW b \in Requests, ReplyLost(b) PROVE CountStep(u)
  <2>1. /\ call[b].pc = "insert" /\ InsertBet(b)
        /\ call'[b].pc = "failed" /\ \A k \in Requests \ {b} : call'[k] = call[k]
    BY <1>3, CallMoves DEF ReplyLost
  <2>2. /\ b \notin RowsOf(u)
        /\ RowsOf(u)' = IF u = call[b].bet.user THEN RowsOf(u) \cup {b} ELSE RowsOf(u)
    BY <2>1, CallBet, InsertRowsOf DEF InsertBet
  <2>3. Counting(u)' = Counting(u)
    BY <2>1 DEF Counting
  <2> QED
    BY <1>1, <2>2, <2>3 DEF CountStep, Requests
<1>4. ASSUME NEW t \in Matches \X Robots, RobotError(t) PROVE CountStep(u)
  BY <1>1, <1>4 DEF CountStep, RobotError, RowsOf, Placed, Counting
<1>5. CASE BetCrash
  <2>1. predictions' = predictions
    BY <1>5 DEF BetCrash
  <2>2. \A b \in Requests : call'[b].pc # "count"
    BY <1>5, CallBet DEF BetCrash, StopServer, NewCall, BetTypeOK, CallState
  <2> QED
    BY <1>1, <2>1, <2>2 DEF CountStep, RowsOf, Placed, Counting
<1> QED
  BY <1>2, <1>3, <1>4, <1>5 DEF BetFaultStep

LEMMA CountSteps ==
    ASSUME BetTypeOK, [BetNext]_betVars, NEW u \in Users
    PROVE  CountStep(u)
<1>1. CASE Tick \/ CrawlStep \/ UNCHANGED betVars
  BY <1>1 DEF Tick, CrawlStep, UpsertMatch, betVars, CountStep, RowsOf, Placed, Counting
<1> QED
  BY <1>1, CountStepCall, CountStepRobot, CountStepFault DEF BetNext

\* A step of that kind keeps the count below the rows.
LEMMA CountKept ==
    ASSUME NEW u \in Users, totalBets[u] \in Nat, CountStep(u),
           totalBets[u] + Cardinality(Counting(u)) <= Cardinality(RowsOf(u))
    PROVE  totalBets'[u] + Cardinality(Counting(u)') <= Cardinality(RowsOf(u)')
<1> DEFINE r == RowsOf(u)
           k == Counting(u)
<1>1. /\ IsFiniteSet(r) /\ Cardinality(r) \in Nat
      /\ IsFiniteSet(k) /\ Cardinality(k) \in Nat
  BY BetCountsFinite
<1>2. CASE totalBets'[u] = totalBets[u] /\ RowsOf(u)' = r /\ Counting(u)' \subseteq k
  <2>1. Cardinality(Counting(u)') <= Cardinality(k) /\ Cardinality(Counting(u)') \in Nat
    BY <1>1, <1>2, FS_Subset, FS_CardinalityType
  <2> QED
    BY <1>1, <1>2, <2>1
<1>3. ASSUME NEW b, totalBets'[u] = totalBets[u], b \notin r, RowsOf(u)' = r \cup {b},
             Counting(u)' = k \cup {b} \/ Counting(u)' = k
      PROVE  totalBets'[u] + Cardinality(Counting(u)') <= Cardinality(RowsOf(u)')
  <2>1. Cardinality(r \cup {b}) = Cardinality(r) + 1
    BY <1>1, <1>3, BetCardStep
  <2>2. Cardinality(k \cup {b}) <= Cardinality(k) + 1 /\ Cardinality(k \cup {b}) \in Nat
    BY <1>1, BetCardStep
  <2> QED
    BY <1>1, <1>3, <2>1, <2>2
<1>4. ASSUME NEW b \in k, totalBets'[u] = totalBets[u] + 1, RowsOf(u)' = r, Counting(u)' = k \ {b}
      PROVE  totalBets'[u] + Cardinality(Counting(u)') <= Cardinality(RowsOf(u)')
  <2>1. Cardinality(k \ {b}) = Cardinality(k) - 1
    BY <1>1, <1>4, BetCardStep
  <2> QED
    BY <1>1, <1>4, <2>1
<1> QED
  BY <1>2, <1>3, <1>4 DEF CountStep

\* total_bets never runs ahead of the rows, whatever statement fails, whatever reply
\* is lost and wherever the server dies: the insert comes first.
THEOREM NoPhantomCounts == BetSpec => []NoPhantomCount
<1>1. BetInit => BetTypeOK /\ NoPhantomCount
  <2> SUFFICES ASSUME BetInit PROVE NoPhantomCount
    BY BetInitType
  <2>1. \A u \in Users : totalBets[u] = 0 /\ Counting(u) = {}
    BY DEF BetInit, Counting, NewCall
  <2>2. \A u \in Users : Cardinality(RowsOf(u)) \in Nat
    BY BetCountsFinite
  <2> QED
    BY <2>1, <2>2, FS_EmptySet DEF NoPhantomCount
<1>2. BetTypeOK /\ NoPhantomCount /\ [BetNext]_betVars => (BetTypeOK /\ NoPhantomCount)'
  <2> SUFFICES ASSUME BetTypeOK, NoPhantomCount, [BetNext]_betVars PROVE NoPhantomCount'
    BY BetNextType
  <2>1. ASSUME NEW u \in Users
        PROVE  totalBets'[u] + Cardinality(Counting(u)') <= Cardinality(RowsOf(u)')
    <3>1. CountStep(u)
      BY CountSteps
    <3>2. totalBets[u] \in Nat
      BY DEF BetTypeOK
    <3> QED
      BY <3>1, <3>2, CountKept DEF NoPhantomCount
  <2> QED
    BY <2>1 DEF NoPhantomCount
<1> QED
  BY <1>1, <1>2, PTL DEF BetSpec

-----------------------------------------------------------------------------
(* Every bet counted                                                       *)

\* The calls that have incremented the count.
Counted(u) == {b \in Requests : call[b].pc = "done" /\ call[b].bet.user = u}

\* total_bets is the number of those calls, and a human's row is the row of a call that
\* has inserted it and got past, or failed after, its insert.
CountedInv ==
    /\ \A u \in Users : totalBets[u] = Cardinality(Counted(u))
    /\ \A u \in Humans : RowsOf(u) \subseteq Counting(u) \cup Failed(u) \cup Counted(u)

\* A step that only takes calls to other statements, and gives up none that is done.
LEMMA QuietCount ==
    ASSUME CountedInv, totalBets' = totalBets, predictions' = predictions,
           \A b \in Requests : \/ call'[b] = call[b]
                               \/ /\ call[b].pc \notin {"count", "failed", "done"}
                                  /\ call'[b].pc # "done"
                               \/ /\ call[b].pc \in {"check", "insert", "count"}
                                  /\ call'[b].pc = "failed" /\ call'[b].bet = call[b].bet
    PROVE  CountedInv'
<1>1. \A u \in Users : Counted(u)' = Counted(u) /\ RowsOf(u)' = RowsOf(u)
  BY DEF Counted, RowsOf, Placed
<1>2. \A u \in Users : Counting(u) \cup Failed(u) \subseteq Counting(u)' \cup Failed(u)'
  BY DEF Counting, Failed
<1> QED
  BY <1>1, <1>2 DEF CountedInv, Humans

LEMMA CountedCall ==
    ASSUME BetTypeOK, CountedInv, NEW b \in Requests, CallStep(b)
    PROVE  CountedInv'
<1>t. call \in [Requests -> CallState] /\ totalBets \in [Users -> Nat] /\ b \in BetIds
  BY DEF BetTypeOK, Requests
<1>1. CASE \E v \in Humans, m \in Matches, st \in SubTypes, c \in Codes : Request(b, v, m, st, c)
  <2>1. /\ call[b].pc = "new" /\ call'[b].pc \in {"check", "refused"}
        /\ \A k \in Requests \ {b} : call'[k] = call[k]
        /\ predictions' = predictions /\ totalBets' = totalBets
    BY <1>t, <1>1 DEF Request, NewCall
  <2> QED
    BY <2>1, QuietCount
<1>2. CASE CheckDuplicate(b)
  <2>1. /\ call[b].pc = "check" /\ call'[b].pc # "done"
        /\ \A k \in Requests \ {b} : call'[k] = call[k]
        /\ predictions' = predictions /\ totalBets' = totalBets
    BY <1>2, CallMoves DEF CheckDuplicate
  <2> QED
    BY <2>1, QuietCount
<1>3. CASE Insert(b)
  <2>1. call[b].pc = "insert" /\ totalBets' = totalBets
    BY <1>3 DEF Insert
  <2>2. CASE InsertBet(b) /\ call' = [call EXCEPT ![b].pc = "count"]
    <3>1. /\ call'[b].pc = "count" /\ call'[b].bet = call[b].bet
          /\ \A k \in Requests \ {b} : call'[k] = call[k]
      BY <2>1, <2>2, CallMoves
    <3>2. \A u \in Users : /\ Counted(u)' = Counted(u)
                           /\ Counting(u) \cup Failed(u) \subseteq Counting(u)' \cup Failed(u)'
      BY <2>1, <3>1 DEF Counted, Counting, Failed
    <3>3. ASSUME NEW u \in Humans, u # call[b].bet.user
          PROVE  RowsOf(u)' = RowsOf(u)
      BY <2>1, <2>2, <3>3, CallBet, InsertRowsOf DEF InsertBet, Humans
    <3>4. ASSUME NEW u \in Humans, u = call[b].bet.user
          PROVE  RowsOf(u)' = RowsOf(u) \cup {b} /\ b \in Counting(u)'
      <4>1. RowsOf(u)' = RowsOf(u) \cup {b}
        BY <2>1, <2>2, <3>4, CallBet, InsertRowsOf DEF InsertBet, Humans
      <4>2. b \in Counting(u)'
        BY <3>1, <3>4 DEF Counting
      <4> QED
        BY <4>1, <4>2
    <3> QED
      BY <2>1, <3>2, <3>3, <3>4 DEF CountedInv, Humans
  <2>3. CASE predictions' = predictions /\ call' = [call EXCEPT ![b].pc = "failed"]
    <3>1. /\ call'[b].pc = "failed" /\ call'[b].bet = call[b].bet
          /\ \A k \in Requests \ {b} : call'[k] = call[k]
      BY <2>1, <2>3, CallMoves
    <3> QED
      BY <2>1, <2>3, <3>1, QuietCount
  <2> QED
    BY <1>3, <2>2, <2>3 DEF Insert
<1>4. CASE Count(b)
  <2>1. /\ call[b].pc = "count" /\ predictions' = predictions
        /\ totalBets' = [totalBets EXCEPT ![call[b].bet.user] = @ + 1]
        /\ call'[b].pc = "done" /\ call'[b].bet = call[b].bet
        /\ \A k \in Requests \ {b} : call'[k] = call[k]
    BY <1>4, CallMoves DEF Count
  <2>2. \A u \in Users : /\ RowsOf(u)' = RowsOf(u) /\ Failed(u)' = Failed(u)
                         /\ Counting(u) \cup Counted(u) \subseteq Counting(u)' \cup Counted(u)'
    BY <2>1 DEF RowsOf, Placed, Failed, Counting, Counted
  <2>3. ASSUME NEW u \in Users PROVE totalBets'[u] = Cardinality(Counted(u)')
    <3>1. CASE u = call[b].bet.user
      <4>1. b \notin Counted(u) /\ Counted(u)' = Counted(u) \cup {b}
        BY <2>1, <3>1 DEF Counted
      <4>2. IsFiniteSet(Counted(u))
        BY StoreAssumption, FS_Subset DEF Counted, Requests
      <4>3. Cardinality(Counted(u)') = Cardinality(Counted(u)) + 1
        BY <4>1, <4>2, BetCardStep
      <4> QED
        BY <1>t, <2>1, <3>1, <4>3 DEF CountedInv
    <3>2. CASE u # call[b].bet.user
      <4>1. Counted(u)' = Counted(u)
        BY <2>1, <3>2 DEF Counted
      <4> QED
        BY <1>t, <2>1, <3>2, <4>1 DEF CountedInv
    <3> QED
      BY <3>1, <3>2
  <2> QED
    BY <2>2, <2>3 DEF CountedInv, Humans
<1> QED
  BY <1>1, <1>2, <1>3, <1>4 DEF CallStep

LEMMA CountedRest ==
    ASSUME BetTypeOK, CountedInv, RobotStep \/ BetFaultStep \/ BetCrash
    PROVE  CountedInv'
<1>1. CASE RobotStep
  <2>1. totalBets' = totalBets /\ call' = call
    BY <1>1 DEF RobotStep, RobotStart, RobotBet
  <2>2. ASSUME NEW u \in Humans PROVE RowsOf(u)' = RowsOf(u)
    <3>1. CASE predictions' = predictions
      BY <3>1 DEF RowsOf, Placed
    <3>2. ASSUME NEW b \in RobotIds, NEW t \in Matches \X Robots, NEW st \in SubTypes,
                 NEW c \in Codes, InsertRow(b, t[2], t[1], st, c)
          PROVE  RowsOf(u)' = RowsOf(u)
      <4>1. b \in BetIds /\ t[2] \in Users /\ t[1] \in Matches /\ u \in Users /\ u # t[2]
        BY BetAssumption DEF Humans
      <4> QED
        BY <3>2, <4>1, InsertRowsOf
    <3> QED
      BY <1>1, <3>1, <3>2 DEF RobotStep, RobotStart, RobotBet
  <2> QED
    BY <2>1, <2>2 DEF CountedInv, Counted, Counting, Failed, Humans
<1>2. ASSUME NEW b \in Requests, CallError(b) PROVE CountedInv'
  <2>1. /\ predictions' = predictions /\ totalBets' = totalBets
        /\ call[b].pc \in {"check", "insert", "count"}
        /\ call'[b].pc = "failed" /\ call'[b].bet = call[b].bet
        /\ \A k \in Requests \ {b} : call'[k] = call[k]
    BY <1>2, CallMoves DEF CallError
  <2> QED
    BY <2>1, QuietCount
<1>3. ASSUME NEW b \in Requests, ReplyLost(b) PROVE CountedInv'
  <2>1. /\ call[b].pc = "insert" /\ InsertBet(b) /\ totalBets' = totalBets
        /\ call'[b].pc = "failed" /\ call'[b].bet = call[b].bet
        /\ \A k \in Requests \ {b} : call'[k] = call[k]
    BY <1>3, CallMoves DEF ReplyLost
  <2>2. \A u \in Users : Counted(u)' = Counted(u) /\ Counting(u)' = Counting(u)
                         /\ Failed(u) \subseteq Failed(u)'
    BY <2>1 DEF Counted, Counting, Failed
  <2>3. ASSUME NEW u \in Humans PROVE RowsOf(u)' \subseteq RowsOf(u) \cup Failed(u)'
    <3>1. RowsOf(u)' = IF u = call[b].bet.user THEN RowsOf(u) \cup {b} ELSE RowsOf(u)
      BY <2>1, CallBet, InsertRowsOf DEF InsertBet, Humans
    <3>2. u = call[b].bet.user => b \in Failed(u)'
      BY <2>1 DEF Failed
    <3> QED
      BY <3>1, <3>2
  <2> QED
    BY <2>1, <2>2, <2>3 DEF CountedInv, Humans
<1>4. ASSUME NEW t \in Matches \X Robots, RobotError(t) PROVE CountedInv'
  BY <1>4, QuietCount DEF RobotError
<1>5. CASE BetCrash
  <2>1. /\ predictions' = predictions /\ totalBets' = totalBets
        /\ call' = [b \in Requests |->
              IF call[b].pc \in {"check", "insert", "count"}
              THEN [call[b] EXCEPT !.pc = "failed"] ELSE call[b]]
    BY <1>5 DEF BetCrash, StopServer
  <2>2. ASSUME NEW b \in Requests, call[b].pc \in {"check", "insert", "count"}
        PROVE  call'[b].pc = "failed" /\ call'[b].bet = call[b].bet
    BY <2>1, <2>2, CallBet
  <2>3. ASSUME NEW b \in Requests, call[b].pc \notin {"check", "insert", "count"}
        PROVE  call'[b] = call[b]
    BY <2>1, <2>3
  <2> QED
    BY <2>1, <2>2, <2>3, QuietCount
<1> QED
  BY <1>1, <1>2, <1>3, <1>4, <1>5 DEF BetFaultStep

\* Three sets are at least as many as their union.
LEMMA UnionOfThree ==
    ASSUME NEW A, NEW B, NEW C, NEW S, IsFiniteSet(A), IsFiniteSet(B), IsFiniteSet(C),
           S \subseteq A \cup B \cup C
    PROVE  Cardinality(S) <= Cardinality(A) + Cardinality(B) + Cardinality(C)
<1>1. /\ IsFiniteSet(A \cup B) /\ Cardinality(A \cup B) <= Cardinality(A) + Cardinality(B)
      /\ Cardinality(A) \in Nat /\ Cardinality(B) \in Nat /\ Cardinality(C) \in Nat
      /\ Cardinality(A \cup B) \in Nat
  <2>1. IsFiniteSet(A \cup B) /\ IsFiniteSet(A \cap B)
    BY FS_Union, FS_Intersection
  <2>2. Cardinality(A \cup B) = Cardinality(A) + Cardinality(B) - Cardinality(A \cap B)
    BY FS_Union
  <2>3. /\ Cardinality(A) \in Nat /\ Cardinality(B) \in Nat /\ Cardinality(C) \in Nat
        /\ Cardinality(A \cup B) \in Nat /\ Cardinality(A \cap B) \in Nat
    BY <2>1, FS_CardinalityType
  <2> QED
    BY <2>1, <2>2, <2>3
<1>2. /\ IsFiniteSet((A \cup B) \cup C)
      /\ Cardinality((A \cup B) \cup C) <= Cardinality(A \cup B) + Cardinality(C)
      /\ Cardinality((A \cup B) \cup C) \in Nat
  <2>1. IsFiniteSet((A \cup B) \cup C) /\ IsFiniteSet((A \cup B) \cap C)
    BY <1>1, FS_Union, FS_Intersection
  <2>2. Cardinality((A \cup B) \cup C)
          = Cardinality(A \cup B) + Cardinality(C) - Cardinality((A \cup B) \cap C)
    BY <1>1, FS_Union
  <2>3. /\ Cardinality((A \cup B) \cup C) \in Nat
        /\ Cardinality((A \cup B) \cap C) \in Nat
    BY <2>1, FS_CardinalityType
  <2> QED
    BY <1>1, <2>1, <2>2, <2>3
<1>3. Cardinality(S) <= Cardinality((A \cup B) \cup C) /\ Cardinality(S) \in Nat
  BY <1>2, FS_Subset, FS_CardinalityType
<1> QED
  BY <1>1, <1>2, <1>3

LEMMA CountedInit == BetInit => CountedInv
<1> SUFFICES ASSUME BetInit PROVE CountedInv
  OBVIOUS
<1>1. \A u \in Users : totalBets[u] = 0 /\ Counted(u) = {} /\ RowsOf(u) = {}
  BY DEF BetInit, StoreInit, Counted, NewCall, RowsOf, Placed
<1> QED
  BY <1>1, FS_EmptySet DEF CountedInv, Humans

LEMMA CountedStep == BetTypeOK /\ CountedInv /\ [BetNext]_betVars => CountedInv'
<1> SUFFICES ASSUME BetTypeOK, CountedInv, [BetNext]_betVars PROVE CountedInv'
  OBVIOUS
<1>1. CASE Tick \/ CrawlStep \/ UNCHANGED betVars
  BY <1>1, QuietCount DEF Tick, CrawlStep, UpsertMatch, betVars
<1> QED
  BY <1>1, CountedCall, CountedRest DEF BetNext

LEMMA CountedEnough == CountedInv => EveryBetCounted
<1> SUFFICES ASSUME CountedInv, NEW u \in Humans
             PROVE  Cardinality(RowsOf(u)) <=
                        totalBets[u] + Cardinality(Counting(u)) + Cardinality(Failed(u))
  BY DEF EveryBetCounted
<1>1. IsFiniteSet(Counting(u)) /\ IsFiniteSet(Failed(u)) /\ IsFiniteSet(Counted(u))
  BY StoreAssumption, FS_Subset DEF Counting, Failed, Counted, Requests
<1>2. /\ RowsOf(u) \subseteq Counted(u) \cup Counting(u) \cup Failed(u)
      /\ totalBets[u] = Cardinality(Counted(u))
  BY DEF CountedInv, Humans
<1> QED
  BY <1>1, <1>2, UnionOfThree

\* No failure, crash or lost reply of one call loses the count of another: a human's
\* rows are counted, about to be, or of a call that reported an error.
THEOREM EveryBetIsCounted == BetSpec => []EveryBetCounted
  BY BetInitType, BetNextType, CountedInit, CountedStep, CountedEnough, PTL DEF BetSpec

-----------------------------------------------------------------------------
(* What a call was accepted by.  As long as the site moves no match, the   *)
(* time columns agree with what the last crawl saw.                        *)

TimesFresh ==
    \A m \in Matches : matches[m] # NoMatchRow =>
        /\ matches[m].kickoff = matches[m].rawKickoff
        /\ matches[m].betEnd = matches[m].rawBetEnd

LEMMA FreshStep ==
    ASSUME MaxMoves = 0, BetTypeOK, TimesFresh, [BetNext]_betVars
    PROVE  TimesFresh'
<1>1. CASE CrawlStep
  <2>1. PICK m \in Matches, l \in Listings : UpsertMatch(m, l)
    BY <1>1 DEF CrawlStep
  <2>2. /\ matches \in [Matches -> MatchRow \cup {NoMatchRow}] /\ moves \in Nat
        /\ matches' = [matches EXCEPT ![m] = IF @ = NoMatchRow THEN Inserted(l) ELSE Refreshed(@, l)]
        /\ ~Moved(m, l)
    BY <2>1 DEF UpsertMatch, BetTypeOK
  <2>3. CASE matches[m] = NoMatchRow
    BY <2>2, <2>3 DEF TimesFresh, Inserted
  <2>4. CASE matches[m] # NoMatchRow
    <3>1. /\ matches[m] \in MatchRow /\ matches'[m] = Refreshed(matches[m], l)
          /\ l.kickoff = matches[m].rawKickoff /\ l.betEnd = matches[m].rawBetEnd
          /\ \A k \in Matches \ {m} : matches'[k] = matches[k]
      BY <2>2, <2>4 DEF Moved
    <3>2. /\ matches'[m].kickoff = matches[m].kickoff /\ matches'[m].betEnd = matches[m].betEnd
          /\ matches'[m].rawKickoff = l.kickoff /\ matches'[m].rawBetEnd = l.betEnd
      BY <3>1 DEF Refreshed, MatchRow
    <3> QED
      BY <2>4, <3>1, <3>2 DEF TimesFresh
  <2> QED
    BY <2>3, <2>4
<1>2. CASE ~CrawlStep
  <2>1. matches' = matches
    BY <1>2 DEF BetNext, Tick, CallStep, Request, CheckDuplicate, Insert, Count, RobotStep,
                RobotStart, RobotBet, BetFaultStep, CallError, ReplyLost, RobotError, BetCrash,
                betVars
  <2> QED
    BY <2>1 DEF TimesFresh
<1> QED
  BY <1>1, <1>2

\* A call that passes the checks passes them in one step, by the row as it is then.
LEMMA PassesOpen ==
    ASSUME BetTypeOK, [BetNext]_betVars, NEW b \in Requests,
           call[b].pc = "new", call'[b].pc = "check"
    PROVE  \E m \in Matches, st \in SubTypes, c \in Codes :
               call'[b].bet.match = m /\ Open(matches[m], clock, st, c)
<1>1. call \in [Requests -> CallState]
  BY DEF BetTypeOK
<1>2. CASE call' = call
  BY <1>2
<1>3. CASE BetCrash
  <2>1. call'[b] = call[b]
    BY <1>3 DEF BetCrash, StopServer
  <2> QED
    BY <2>1
<1>4. ASSUME NEW k \in Requests, CallStep(k) \/ CallError(k) \/ ReplyLost(k), k # b PROVE FALSE
  <2>1. call'[b] = call[b]
    BY <1>1, <1>4 DEF CallStep, Request, CheckDuplicate, Insert, Count, CallError, ReplyLost
  <2> QED
    BY <2>1
<1>5. CASE CheckDuplicate(b) \/ Insert(b) \/ Count(b) \/ CallError(b) \/ ReplyLost(b)
  BY <1>5 DEF CheckDuplicate, Insert, Count, CallError, ReplyLost
<1>6. CASE \E u \in Humans, m \in Matches, st \in SubTypes, c \in Codes : Request(b, u, m, st, c)
  <2>1. PICK u \in Humans, m \in Matches, st \in SubTypes, c \in Codes : Request(b, u, m, st, c)
    BY <1>6
  <2>2. /\ call'[b].bet.match = m
        /\ call'[b].pc = IF Open(matches[m], clock, st, c) THEN "check" ELSE "refused"
    BY <1>1, <2>1 DEF Request
  <2> QED
    BY <2>2
<1> QED
  BY <1>2, <1>3, <1>4, <1>5, <1>6
  DEF BetNext, CallStep, BetFaultStep, Tick, CrawlStep, UpsertMatch, RobotStep, RobotStart,
      RobotBet, RobotError, betVars

\* A row comes from a call past its checks, or from the robots' run.
LEMMA WhoInserts ==
    ASSUME BetTypeOK, [BetNext]_betVars
    PROVE  \/ predictions' = predictions
           \/ \E b \in Requests : call[b].pc = "insert" /\ InsertBet(b)
           \/ \E b \in RobotIds, t \in Matches \X Robots, st \in SubTypes, c \in Codes :
                  t \in robot.todo /\ InsertRow(b, t[2], t[1], st, c)
<1>1. CASE \E b \in Requests : CallStep(b)
  BY <1>1 DEF CallStep, Request, CheckDuplicate, Insert, Count
<1>2. CASE RobotStep
  <2>1. ASSUME NEW b \in RobotIds, NEW t \in Matches \X Robots, NEW st \in SubTypes, NEW c \in Codes,
               RobotBet(b, t, st, c)
        PROVE  \/ predictions' = predictions
               \/ t \in robot.todo /\ InsertRow(b, t[2], t[1], st, c)
    BY <2>1 DEF RobotBet
  <2> QED
    BY <1>2, <2>1 DEF RobotStep, RobotStart
<1>3. CASE BetFaultStep
  BY <1>3 DEF BetFaultStep, CallError, ReplyLost, RobotError
<1> QED
  BY <1>1, <1>2, <1>3 DEF BetNext, betVars, Tick, CrawlStep, UpsertMatch, BetCrash

\* A call between its checks and its insert was made before, or just passed the checks.
LEMMA CallersCall ==
    ASSUME BetTypeOK, [BetNext]_betVars, NEW b \in Requests, call'[b].pc \in {"check", "insert"}
    PROVE  \/ call[b].pc \in {"check", "insert"} /\ call'[b].bet = call[b].bet
           \/ call[b].pc = "new" /\ call'[b].pc = "check"
<1>1. call \in [Requests -> CallState]
  BY DEF BetTypeOK
<1>2. CASE call' = call
  BY <1>2
<1>3. CASE BetCrash
  BY <1>1, <1>3 DEF BetCrash, StopServer
<1>4. ASSUME NEW k \in Requests, CallStep(k) \/ CallError(k) \/ ReplyLost(k), k # b
      PROVE  call'[b] = call[b]
  BY <1>1, <1>4 DEF CallStep, Request, CheckDuplicate, Insert, Count, CallError, ReplyLost
<1>5. CASE CheckDuplicate(b)
  BY <1>5, CallMoves DEF CheckDuplicate
<1>6. CASE Insert(b) \/ Count(b) \/ CallError(b) \/ ReplyLost(b)
  BY <1>1, <1>6 DEF Insert, Count, CallError, ReplyLost, CallState, NewCall
<1>7. CASE \E u \in Humans, m \in Matches, st \in SubTypes, c \in Codes : Request(b, u, m, st, c)
  BY <1>1, <1>7 DEF Request, NewCall
<1> QED
  BY <1>2, <1>3, <1>4, <1>5, <1>6, <1>7
  DEF BetNext, CallStep, BetFaultStep, Tick, CrawlStep, UpsertMatch, RobotStep, RobotStart,
      RobotBet, RobotError, betVars

\* No call passes the checks of a match that is stopped, started or locked.
LEMMA ClosedToCalls ==
    ASSUME BetTypeOK, [BetNext]_betVars, NEW m \in Matches, matches[m] # NoMatchRow,
           matches[m].stopSell \/ Started(m) \/ Locked(m)
    PROVE  Callers(m)' \subseteq Callers(m)
<1> SUFFICES ASSUME NEW b \in Callers(m)' PROVE b \in Callers(m)
  OBVIOUS
<1>1. b \in Requests
  BY DEF Callers
<1>2. CASE call'[b].pc \in {"check", "insert"} /\ call'[b].bet.match = m
  <2>1. CASE call[b].pc = "new" /\ call'[b].pc = "check"
    <3>1. PICK st \in SubTypes, c \in Codes : Open(matches[m], clock, st, c)
      BY <1>1, <1>2, <2>1, PassesOpen
    <3>2. matches[m] \in MatchRow /\ clock \in Int /\ Lock \in Int
      BY BetAssumption DEF BetTypeOK, Times
    <3>3. /\ matches[m].kickoff # NoTime => matches[m].kickoff \in Int
          /\ matches[m].betEnd # NoTime => matches[m].betEnd \in Int
      BY <3>2 DEF MatchRow, Times
    <3> QED
      BY <3>1, <3>2, <3>3 DEF Open, Started, Locked
  <2> QED
    BY <1>1, <1>2, <2>1, CallersCall DEF Callers
<1>3. CASE b \in Placed' /\ predictions'[b].match = m
  <2>1. CASE predictions' = predictions
    BY <1>1, <1>3, <2>1 DEF Callers, Placed
  <2>2. ASSUME NEW k \in Requests, call[k].pc = "insert", InsertBet(k) PROVE b \in Callers(m)
    <3>1. /\ predictions'[k].match = call[k].bet.match
          /\ \A i \in BetIds \ {k} : predictions'[i] = predictions[i]
      BY <2>2, CallBet, InsertRowType DEF InsertBet, BetTypeOK
    <3> QED
      BY <1>1, <1>3, <2>2, <3>1 DEF Callers, Placed
  <2>3. ASSUME NEW k \in RobotIds, NEW t \in Matches \X Robots, NEW st \in SubTypes, NEW c \in Codes,
               InsertRow(k, t[2], t[1], st, c)
        PROVE  b \in Callers(m)
    <3>1. \A i \in BetIds \ {k} : predictions'[i] = predictions[i]
      BY <2>3, InsertRowType, BetAssumption DEF BetTypeOK
    <3>2. b # k
      BY <1>1 DEF Requests
    <3> QED
      BY <1>1, <1>3, <3>1, <3>2 DEF Callers, Placed
  <2> QED
    BY <2>1, <2>2, <2>3, WhoInserts
<1> QED
  BY <1>2, <1>3 DEF Callers

\* What the robots have left to do they read in one query, and they strike it off.
LEMMA RobotsTodo ==
    ASSUME BetTypeOK, [BetNext]_betVars, NEW t \in robot'.todo
    PROVE  \/ t \in robot.todo
           \/ Upcoming[t[1]] # NoMatchRow /\ ~Upcoming[t[1]].stopSell /\ t \in Matches \X Robots
<1>1. CASE robot' = robot \/ robot' = NoRun
  BY <1>1 DEF NoRun
<1>2. ASSUME NEW list, NEW todo, RobotRun(list, todo) PROVE robot'.todo \subseteq todo
  BY <1>2 DEF RobotRun, NoRun
<1>3. CASE RobotStart
  BY <1>2, <1>3 DEF RobotStart
<1>4. CASE \E k : RobotRun(robot.list, robot.todo \ {k})
  BY <1>2, <1>4
<1> QED
  BY <1>1, <1>3, <1>4
  DEF BetNext, CallStep, Request, CheckDuplicate, Insert, Count, BetFaultStep, CallError, ReplyLost,
      Tick, CrawlStep, UpsertMatch, RobotStep, RobotBet, RobotError, BetCrash, StopServer, betVars

\* No run of the robots takes up a match that is stopped or started.
LEMMA ClosedToRobots ==
    ASSUME BetTypeOK, [BetNext]_betVars, NEW m \in Matches, matches[m] # NoMatchRow,
           matches[m].stopSell \/ Started(m)
    PROVE  RobotsOn(m)' \subseteq RobotsOn(m)
<1> SUFFICES ASSUME NEW u \in RobotsOn(m)' PROVE u \in RobotsOn(m)
  OBVIOUS
<1>1. u \in Robots
  BY DEF RobotsOn
<1>2. CASE <<m, u>> \in robot'.todo
  <2>1. matches[m] \in MatchRow /\ clock \in Int /\ (matches[m].kickoff # NoTime => matches[m].kickoff \in Int)
    BY DEF BetTypeOK, Times, MatchRow
  <2>2. Upcoming[m] = NoMatchRow \/ Upcoming[m].stopSell
    BY <2>1 DEF Upcoming, Started
  <2> QED
    BY <1>1, <1>2, <2>2, RobotsTodo DEF RobotsOn
<1>3. ASSUME NEW b \in Placed', predictions'[b].user = u, predictions'[b].match = m
      PROVE  u \in RobotsOn(m)
  <2>1. b \in BetIds
    BY DEF Placed
  <2>2. CASE predictions' = predictions
    BY <1>1, <1>3, <2>2 DEF RobotsOn, Placed
  <2>3. ASSUME NEW k \in Requests, call[k].pc = "insert", InsertBet(k) PROVE u \in RobotsOn(m)
    <3>1. /\ predictions'[k].user \in Humans
          /\ \A i \in BetIds \ {k} : predictions'[i] = predictions[i]
      BY <2>3, CallBet, InsertRowType DEF InsertBet, BetTypeOK
    <3>2. b # k
      BY <1>1, <1>3, <3>1 DEF Humans
    <3> QED
      BY <1>1, <1>3, <2>1, <3>1, <3>2 DEF RobotsOn, Placed
  <2>4. ASSUME NEW k \in RobotIds, NEW t \in Matches \X Robots, NEW st \in SubTypes, NEW c \in Codes,
               t \in robot.todo, InsertRow(k, t[2], t[1], st, c)
        PROVE  u \in RobotsOn(m)
    <3>1. /\ k \in BetIds /\ predictions'[k].user = t[2] /\ predictions'[k].match = t[1]
          /\ \A i \in BetIds \ {k} : predictions'[i] = predictions[i]
      BY <2>4, InsertRowType, BetAssumption DEF BetTypeOK
    <3>2. CASE b = k
      <4>1. t = <<m, u>>
        BY <1>3, <3>1, <3>2
      <4> QED
        BY <1>1, <2>4, <4>1 DEF RobotsOn
    <3>3. CASE b # k
      BY <1>1, <1>3, <2>1, <3>1, <3>3 DEF RobotsOn, Placed
    <3> QED
      BY <3>2, <3>3
  <2> QED
    BY <2>2, <2>3, <2>4, WhoInserts
<1> QED
  BY <1>2, <1>3 DEF RobotsOn

\* Whatever calls, robots, failures and changes of the match come together: once the
\* match is stopped, locked or started, whoever has a row on it when all is done had it
\* already, or was past the checks.
THEOREM ClosedMatchTakesNoOneNew == BetSpec => ClosedTakesNoOneNew
<1>1. BetTypeOK /\ [BetNext]_betVars
        => [\A m \in Matches : matches[m] # NoMatchRow =>
              /\ matches[m].stopSell \/ Started(m) \/ Locked(m) => Callers(m)' \subseteq Callers(m)
              /\ matches[m].stopSell \/ Started(m) => RobotsOn(m)' \subseteq RobotsOn(m)]_betVars
  BY ClosedToCalls, ClosedToRobots
<1> QED
  BY <1>1, BetTypeCorrect, PTL DEF BetSpec, ClosedTakesNoOneNew
=============================================================================
