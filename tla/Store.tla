------------------------------- MODULE Store -------------------------------
(***************************************************************************)
(* The predictions table shared by every process of the game: the server's *)
(* request handlers and robots insert pending rows (Betting), the spider   *)
(* and the settle endpoint turn them into won or lost ones (Settlement).   *)
(*                                                                         *)
(* A row is named by the call that inserts it: BetIds is the set of the    *)
(* calls that may insert one, and predictions[b] is NoRow until b does.    *)
(* is_correct is not a field: the code writes status and is_correct in one *)
(* statement, "won" with TRUE and "lost" with FALSE.                       *)
(***************************************************************************)
EXTENDS Integers, FiniteSets

CONSTANTS Users,     \* users.id
          Matches,   \* matches.match_id
          SubTypes,  \* the wagers of a match: "6" (win/draw/loss), "1" (handicap)
          Codes,     \* bet codes
          BetIds,    \* the calls that may insert a prediction
          NoRow      \* predictions[b] before b inserts its row

ASSUME StoreAssumption == IsFiniteSet(BetIds)

VARIABLE predictions

Row == [user : Users, match : Matches, subType : SubTypes, code : Codes,
        status : {"pending", "won", "lost"}]

ASSUME NoRowAssumption == NoRow \notin Row

StoreTypeOK == predictions \in [BetIds -> Row \cup {NoRow}]

StoreInit == predictions = [b \in BetIds |-> NoRow]

Placed == {b \in BetIds : predictions[b] # NoRow}

Pending == {b \in Placed : predictions[b].status = "pending"}

\* The rows an insert for this selection collides with: the unique index is
\* partial, it sees the pending rows only.
Collisions(u, m, st) == {b \in Pending : /\ predictions[b].user = u
                                         /\ predictions[b].match = m
                                         /\ predictions[b].subType = st}

\* INSERT INTO predictions (..., status) VALUES (..., 'pending')
InsertRow(b, u, m, st, c) ==
    /\ predictions[b] = NoRow
    /\ Collisions(u, m, st) = {}
    /\ predictions' = [predictions EXCEPT ![b] =
           [user |-> u, match |-> m, subType |-> st, code |-> c, status |-> "pending"]]

\* UPDATE predictions SET status = ..., is_correct = ... WHERE id = ...
SetStatus(b, status) ==
    predictions' = [predictions EXCEPT ![b] = [@ EXCEPT !.status = status]]

\* SELECT ... FROM predictions WHERE user_id = u AND status IN ('won', 'lost')
Closed(u) == {b \in Placed \ Pending : predictions[b].user = u}

\* SELECT COUNT(1) FROM predictions WHERE is_correct = true AND user_id = u
WonRows(u) == {b \in Placed : predictions[b].user = u /\ predictions[b].status = "won"}
=============================================================================
