-------------------------------- MODULE Rows --------------------------------
(***************************************************************************)
(* What settlement promises to those who read the predictions table while  *)
(* a single settler works: rows come in as pending, each is closed once,   *)
(* by a draw that was stored as valid for its match, and stays closed.     *)
(* Settlement is shown to implement it (ImplementsRows); Boards, the       *)
(* readers, is built on it.                                                *)
(***************************************************************************)
EXTENDS Store

CONSTANTS NoCode,   \* a result without a draw for a sub type
          NoResult  \* no row of match_results

VARIABLES results,   \* match_results
          published  \* history: the draws ever stored as valid, per match

rowsVars == <<predictions, results, published>>

Draws  == [SubTypes -> Codes \cup {NoCode}]
Result == [valid : BOOLEAN, draw : Draws]

RowsInit ==
    /\ StoreInit
    /\ results = [m \in Matches |-> NoResult]
    /\ published = [m \in Matches |-> {}]

AddRow(b, u, m, st, c) ==
    /\ InsertRow(b, u, m, st, c)
    /\ UNCHANGED <<results, published>>

StoreResult(m, r) ==
    /\ results' = [results EXCEPT ![m] = r]
    /\ published' = [published EXCEPT ![m] = IF r.valid THEN @ \cup {r.draw} ELSE @]
    /\ UNCHANGED predictions

\* Mutant: a bet on a sub type without a draw is given back (openapi.yaml:625).
Verdict_Refund(d, row) == IF d[row.subType] = NoCode THEN "refunded"
                          ELSE IF d[row.subType] = row.code THEN "won" ELSE "lost"

\* A draw without a code for the sub type makes every bet on it lost.
Verdict(d, row) == IF d[row.subType] = row.code THEN "won" ELSE "lost"

CloseRow(b) ==
    /\ b \in Pending
    /\ \E d \in published[predictions[b].match] : SetStatus(b, Verdict(d, predictions[b]))
    /\ UNCHANGED <<results, published>>

RowsNext ==
    \/ \E b \in BetIds, u \in Users, m \in Matches, st \in SubTypes, c \in Codes : AddRow(b, u, m, st, c)
    \/ \E m \in Matches, r \in Result : StoreResult(m, r)
    \/ \E b \in BetIds : CloseRow(b)

RowsSpec == RowsInit /\ [][RowsNext]_rowsVars
=============================================================================
