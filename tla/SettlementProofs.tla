-------------------------- MODULE SettlementProofs --------------------------
(***************************************************************************)
(* Proofs about Settlement, for any numbers of users, matches, bets,       *)
(* settlers, failures and restarts.                                        *)
(***************************************************************************)
EXTENDS Settlement, FiniteSetTheorems, TLAPS

SettleInv == SettleTypeOK /\ ProcOK /\ StoredPublished /\ VerdictsJustified

\* The initial state satisfies the invariant: nothing is settled or read yet.
LEMMA InitInv == SettleInit => SettleInv
<1> SUFFICES ASSUME SettleInit PROVE SettleInv
  OBVIOUS
<1> USE SettleAssumption, NoRowAssumption DEF SettleInit, StoreInit
<1>1. SettleTypeOK
  <2>1. StoreTypeOK
    BY DEF StoreTypeOK
  <2>2. picks \in [PickKeys -> Pick]
    BY DEF UngradedPick, Pick
  <2>3. proc \in [Settlers -> ProcState]
    BY DEF Idle, ProcState
  <2> QED
    BY <2>1, <2>2, <2>3 DEF SettleTypeOK, EmptyPage, NoBackfill
<1>2. ProcOK
  BY DEF ProcOK, Idle
<1>3. VerdictsJustified
  BY DEF VerdictsJustified, Placed, Pending, UngradedPick
<1>4. StoredPublished
  BY DEF StoredPublished, EmptyPage
<1> QED
  BY <1>1, <1>2, <1>3, <1>4 DEF SettleInv

-----------------------------------------------------------------------------
(* Every step preserves the invariant: one lemma per action.               *)

\* A settler that returns from SettleAllForMatch holds nothing any more.
LEMMA ReturnType ==
    ASSUME SettleTypeOK, NEW s \in Settlers, Return(s)
    PROVE  proc' \in [Settlers -> ProcState]
<1>1. Idle \in ProcState /\ [Idle EXCEPT !.pc = "upsert"] \in ProcState
  BY DEF Idle, ProcState
<1> QED
  BY <1>1 DEF SettleTypeOK, Return

\* The won rows of a user are finitely many.
LEMMA WonRowsFinite ==
    \A u \in Users : IsFiniteSet(WonRows(u)) /\ Cardinality(WonRows(u)) \in Nat
  BY StoreAssumption, FS_Subset, FS_CardinalityType DEF WonRows, Placed

LEMMA InvPlaceBet ==
    ASSUME SettleInv, NEW b \in BetIds, NEW u \in Users, NEW m \in Matches, NEW st \in SubTypes, NEW c \in Codes, PlaceBet(b, u, m, st, c)
    PROVE  SettleInv'
<1> USE SettleAssumption DEF Settlers
<1>1. SettleTypeOK'
  BY DEF SettleInv, SettleTypeOK, StoreTypeOK, Row, EmptyPage, ProcState, ProcOK, Placed, PlaceBet, InsertRow, dbVars, serverVars, feedVars, lossVars
<1>2. ProcOK'
  BY DEF SettleInv, SettleTypeOK, StoreTypeOK, Row, ProcOK, Placed, Pending, ProcState, PlaceBet, InsertRow, dbVars, serverVars, feedVars, lossVars
<1>3. VerdictsJustified'
  BY DEF SettleInv, SettleTypeOK, StoreTypeOK, Row, ProcOK, VerdictsJustified, Placed, Pending, IsCorrect, ProcState, PlaceBet, InsertRow, dbVars, serverVars, feedVars, lossVars
<1>4. StoredPublished'
  BY DEF SettleInv, StoredPublished, PlaceBet, InsertRow, dbVars, serverVars, feedVars, lossVars
<1> QED
  BY <1>1, <1>2, <1>3, <1>4 DEF SettleInv

LEMMA InvPublish ==
    ASSUME SettleInv, NEW m \in Matches, NEW r \in Result \cup {NoResult}, Publish(m, r)
    PROVE  SettleInv'
<1> USE SettleAssumption DEF Settlers
<1>1. SettleTypeOK'
  BY DEF SettleInv, SettleTypeOK, StoreTypeOK, Row, EmptyPage, ProcState, ProcOK, Placed, Publish, dbVars, serverVars, feedVars, lossVars
<1>2. ProcOK'
  BY DEF SettleInv, SettleTypeOK, StoreTypeOK, Row, ProcOK, Placed, Pending, ProcState, Publish, dbVars, serverVars, feedVars, lossVars
<1>3. VerdictsJustified'
  BY DEF SettleInv, SettleTypeOK, StoreTypeOK, Row, ProcOK, VerdictsJustified, Placed, Pending, IsCorrect, ProcState, Publish, dbVars, serverVars, feedVars, lossVars
<1>4. StoredPublished'
  BY DEF SettleInv, StoredPublished, Publish, dbVars, serverVars, feedVars, lossVars
<1> QED
  BY <1>1, <1>2, <1>3, <1>4 DEF SettleInv

LEMMA InvCrawl ==
    ASSUME SettleInv, NEW s \in Spiders, Crawl(s)
    PROVE  SettleInv'
<1> USE SettleAssumption DEF Settlers
<1>0. proc' \in [Settlers -> ProcState]
  <2>1. s \in Settlers /\ proc \in [Settlers -> ProcState]
    BY DEF SettleInv, SettleTypeOK
  <2>2. proc' = [proc EXCEPT ![s].pc = "upsert"]
    BY DEF Crawl
  <2> QED
    BY <2>1, <2>2 DEF ProcState, Pending, Placed
<1>1. SettleTypeOK'
  BY <1>0 DEF SettleInv, SettleTypeOK, StoreTypeOK, EmptyPage, Crawl, dbVars, serverVars, feedVars, lossVars
<1>2. ProcOK'
  BY DEF SettleInv, SettleTypeOK, StoreTypeOK, Row, ProcOK, Placed, Pending, ProcState, Crawl, dbVars, serverVars, feedVars, lossVars
<1>3. VerdictsJustified'
  BY DEF SettleInv, SettleTypeOK, StoreTypeOK, Row, ProcOK, VerdictsJustified, Placed, Pending, IsCorrect, ProcState, Crawl, dbVars, serverVars, feedVars, lossVars
<1>4. StoredPublished'
  BY DEF SettleInv, StoredPublished, Crawl, dbVars, serverVars, feedVars, lossVars
<1> QED
  BY <1>1, <1>2, <1>3, <1>4 DEF SettleInv

LEMMA InvUpsertResult ==
    ASSUME SettleInv, NEW s \in Spiders, NEW m \in Matches, UpsertResult(s, m)
    PROVE  SettleInv'
<1> USE SettleAssumption DEF Settlers
<1>1. /\ s \in Settlers /\ proc \in [Settlers -> ProcState]
      /\ published \in [Matches -> SUBSET Draws]
      /\ page[s][m] \in Result
  BY DEF SettleInv, SettleTypeOK, UpsertResult
<1>2. /\ \A k \in Matches : published[k] \subseteq published'[k]
      /\ page[s][m].valid => page[s][m].draw \in published'[m]
      /\ published' \in [Matches -> SUBSET Draws]
  BY <1>1 DEF UpsertResult, StoreResult, Result
<1>3. \/ proc' = [proc EXCEPT ![s].pc = "read", ![s].match = m]
      \/ proc' = proc
  BY DEF UpsertResult
<1>4. predictions' = predictions /\ picks' = picks /\ proc[s].pc = "upsert"
  BY DEF UpsertResult
<1>5. SettleTypeOK'
  <2>1. proc' \in [Settlers -> ProcState]
    BY <1>1, <1>3 DEF ProcState
  <2> QED
    BY <1>1, <1>2, <2>1 DEF SettleInv, SettleTypeOK, StoreTypeOK, UpsertResult, StoreResult, serverVars, feedVars, lossVars
<1>6. ProcOK'
  BY <1>1, <1>2, <1>3, <1>4 DEF SettleInv, ProcOK, Placed, ProcState
<1>7. VerdictsJustified'
  BY <1>1, <1>2, <1>4 DEF SettleInv, SettleTypeOK, StoreTypeOK, Row, VerdictsJustified, Placed, Pending, IsCorrect, PickKeys
<1>8. StoredPublished'
  BY <1>1, <1>2 DEF SettleInv, SettleTypeOK, StoredPublished, UpsertResult, StoreResult
<1> QED
  BY <1>5, <1>6, <1>7, <1>8 DEF SettleInv

LEMMA InvPageDone ==
    ASSUME SettleInv, NEW s \in Spiders, PageDone(s)
    PROVE  SettleInv'
<1> USE SettleAssumption DEF Settlers
<1>1. SettleTypeOK'
  BY DEF SettleInv, SettleTypeOK, StoreTypeOK, Row, EmptyPage, ProcState, ProcOK, Placed, PageDone, Idle, dbVars, serverVars, feedVars, lossVars
<1>2. ProcOK'
  BY DEF SettleInv, SettleTypeOK, StoreTypeOK, Row, ProcOK, Placed, Pending, ProcState, PageDone, Idle, dbVars, serverVars, feedVars, lossVars
<1>3. VerdictsJustified'
  BY DEF SettleInv, SettleTypeOK, StoreTypeOK, Row, ProcOK, VerdictsJustified, Placed, Pending, IsCorrect, ProcState, PageDone, Idle, dbVars, serverVars, feedVars, lossVars
<1>4. StoredPublished'
  BY DEF SettleInv, StoredPublished, PageDone, Idle, dbVars, serverVars, feedVars, lossVars
<1> QED
  BY <1>1, <1>2, <1>3, <1>4 DEF SettleInv

LEMMA InvApiCall ==
    ASSUME SettleInv, NEW s \in Apis, NEW m \in Matches, ApiCall(s, m)
    PROVE  SettleInv'
<1> USE SettleAssumption DEF Settlers
<1>0. proc' \in [Settlers -> ProcState]
  <2>1. s \in Settlers /\ proc \in [Settlers -> ProcState]
    BY DEF SettleInv, SettleTypeOK
  <2>2. proc' = [proc EXCEPT ![s].pc = "read", ![s].match = m]
    BY DEF ApiCall
  <2> QED
    BY <2>1, <2>2, ZenonT(30) DEF ProcState, Pending, Placed
<1>1. SettleTypeOK'
  BY <1>0 DEF SettleInv, SettleTypeOK, StoreTypeOK, EmptyPage, ApiCall, dbVars, serverVars, feedVars, lossVars
<1>2. ProcOK'
  BY DEF SettleInv, SettleTypeOK, StoreTypeOK, Row, ProcOK, Placed, Pending, ProcState, ApiCall, dbVars, serverVars, feedVars, lossVars
<1>3. VerdictsJustified'
  BY DEF SettleInv, SettleTypeOK, StoreTypeOK, Row, ProcOK, VerdictsJustified, Placed, Pending, IsCorrect, ProcState, ApiCall, dbVars, serverVars, feedVars, lossVars
<1>4. StoredPublished'
  BY DEF SettleInv, StoredPublished, ApiCall, dbVars, serverVars, feedVars, lossVars
<1> QED
  BY <1>1, <1>2, <1>3, <1>4 DEF SettleInv

LEMMA InvReadResult ==
    ASSUME SettleInv, NEW s \in Settlers, ReadResult(s)
    PROVE  SettleInv'
<1> USE SettleAssumption DEF Settlers
<1> DEFINE r == results[proc[s].match]
<1>1. proc \in [Settlers -> ProcState] /\ proc[s].match \in Matches
  BY DEF SettleInv, SettleTypeOK, ProcOK, ReadResult
<1>2. \/ Return(s)
      \/ /\ proc' = [proc EXCEPT ![s].pc = "query", ![s].draw = r.draw]
         /\ r.draw \in Draws /\ r.draw \in published[proc[s].match]
  BY <1>1 DEF SettleInv, SettleTypeOK, StoredPublished, ReadResult, Result
<1>3. proc' \in [Settlers -> ProcState]
  BY <1>1, <1>2, ReturnType DEF SettleInv, ProcState
<1>4. SettleTypeOK'
  BY <1>3 DEF SettleInv, SettleTypeOK, StoreTypeOK, ReadResult, dbVars, serverVars, feedVars, lossVars
<1>5. ProcOK'
  BY <1>1, <1>2 DEF SettleInv, ProcOK, ProcState, Placed, ReadResult, Return, Idle, dbVars
<1>6. VerdictsJustified' /\ StoredPublished'
  BY DEF SettleInv, VerdictsJustified, StoredPublished, Placed, Pending, IsCorrect, ReadResult, dbVars
<1> QED
  BY <1>4, <1>5, <1>6 DEF SettleInv

LEMMA InvQueryPending ==
    ASSUME SettleInv, NEW s \in Settlers, QueryPending(s)
    PROVE  SettleInv'
<1> USE SettleAssumption DEF Settlers
<1>0. proc' \in [Settlers -> ProcState]
  <2>1. s \in Settlers /\ proc \in [Settlers -> ProcState]
    BY DEF SettleInv, SettleTypeOK
  <2>2. proc' = [proc EXCEPT ![s].pc = "rows", ![s].work = {b \in Pending : predictions[b].match = proc[s].match}]
    BY DEF QueryPending
  <2> QED
    BY <2>1, <2>2 DEF ProcState, Pending, Placed
<1>1. SettleTypeOK'
  BY <1>0 DEF SettleInv, SettleTypeOK, StoreTypeOK, EmptyPage, QueryPending, dbVars, serverVars, feedVars, lossVars
<1>2. ProcOK'
  BY DEF SettleInv, SettleTypeOK, StoreTypeOK, Row, ProcOK, Placed, Pending, ProcState, QueryPending, dbVars, serverVars, feedVars, lossVars
<1>3. VerdictsJustified'
  BY DEF SettleInv, SettleTypeOK, StoreTypeOK, Row, ProcOK, VerdictsJustified, Placed, Pending, IsCorrect, ProcState, QueryPending, dbVars, serverVars, feedVars, lossVars
<1>4. StoredPublished'
  BY DEF SettleInv, StoredPublished, QueryPending, dbVars, serverVars, feedVars, lossVars
<1> QED
  BY <1>1, <1>2, <1>3, <1>4 DEF SettleInv

LEMMA InvUpdateRow ==
    ASSUME SettleInv, NEW s \in Settlers, NEW b \in BetIds,
           UpdateRow(s, b) \/ UpdateReplyLost(s, b)
    PROVE  SettleInv'
<1> USE SettleAssumption DEF Settlers
<1>1. /\ proc \in [Settlers -> ProcState] /\ proc[s].pc = "rows"
      /\ predictions[b] \in Row /\ b \in Placed
      /\ predictions[b].match = proc[s].match
      /\ proc[s].draw \in published[proc[s].match]
  BY DEF SettleInv, SettleTypeOK, StoreTypeOK, ProcOK, Placed, UpdateRow, UpdateReplyLost, Mark
<1>2. PICK st \in {"won", "lost"} :
        /\ predictions' = [predictions EXCEPT ![b] = [@ EXCEPT !.status = st]]
        /\ st = IF IsCorrect(proc[s].draw, predictions[b]) THEN "won" ELSE "lost"
  BY DEF UpdateRow, UpdateReplyLost, Mark, SetStatus
<1>3. [predictions[b] EXCEPT !.status = st] \in Row
  BY <1>1 DEF Row
<1>4. \/ proc' = [proc EXCEPT ![s].work = @ \ {b}, ![s].bet = b, ![s].pc = "credit"]
      \/ proc' = [proc EXCEPT ![s].work = @ \ {b}]
  BY DEF UpdateRow, UpdateReplyLost
<1>5. /\ Placed' = Placed
      /\ \A k \in Placed : /\ predictions'[k].match = predictions[k].match
                           /\ predictions'[k].code = predictions[k].code
                           /\ predictions'[k].subType = predictions[k].subType
                           /\ k # b => predictions'[k] = predictions[k]
  BY <1>1, <1>2, <1>3, NoRowAssumption DEF Placed, Row, SettleInv, SettleTypeOK, StoreTypeOK
<1>6. /\ UNCHANGED <<wins, results, picks, serverVars, feedVars, page, published>>
      /\ faults' \in Nat /\ losses' \in Nat
  BY DEF UpdateRow, UpdateReplyLost, Fault, SettleInv, SettleTypeOK
<1>7. SettleTypeOK'
  <2>1. StoreTypeOK'
    BY <1>2, <1>3 DEF SettleInv, SettleTypeOK, StoreTypeOK
  <2>2. proc' \in [Settlers -> ProcState]
    BY <1>1, <1>4 DEF ProcState
  <2> QED
    BY <1>6, <2>1, <2>2 DEF SettleInv, SettleTypeOK, serverVars, feedVars, lossVars
<1>8. ProcOK'
  BY <1>1, <1>4, <1>5, <1>6 DEF SettleInv, ProcOK, ProcState
<1>9. VerdictsJustified'
  <2>1. predictions'[b].status = st
    BY <1>1, <1>2 DEF Row, SettleInv, SettleTypeOK, StoreTypeOK
  <2>2. ASSUME NEW k \in (Placed \ Pending)'
        PROVE  \E d \in published'[predictions'[k].match] :
                   predictions'[k].status = IF IsCorrect(d, predictions'[k]) THEN "won" ELSE "lost"
    <3>1. CASE k = b
      BY <1>1, <1>2, <1>5, <1>6, <2>1, <3>1 DEF IsCorrect
    <3>2. CASE k # b
      BY <1>5, <1>6, <2>2, <3>2 DEF SettleInv, VerdictsJustified, Pending
    <3> QED
      BY <3>1, <3>2
  <2> QED
    BY <1>6, <2>2 DEF SettleInv, VerdictsJustified, IsCorrect
<1>10. StoredPublished'
  BY <1>6 DEF SettleInv, StoredPublished
<1> QED
  BY <1>7, <1>8, <1>9, <1>10 DEF SettleInv

LEMMA InvCredit ==
    ASSUME SettleInv, NEW s \in Settlers, Credit(s) \/ CreditReplyLost(s)
    PROVE  SettleInv'
<1>1. /\ proc \in [Settlers -> ProcState] /\ proc[s].pc = "credit"
      /\ wins' = [wins EXCEPT ![predictions[proc[s].bet].user] = @ + 1]
      /\ UNCHANGED <<predictions, results, picks, serverVars, feedVars, page, published>>
      /\ faults' \in Nat /\ losses' \in Nat
  BY DEF SettleInv, SettleTypeOK, Credit, CreditReplyLost, IncrementWins, Fault, lossVars
<1>2. Return(s) \/ proc' = [proc EXCEPT ![s].bet = NoBet, ![s].pc = "rows"]
  BY DEF Credit, CreditReplyLost
<1>3. proc' \in [Settlers -> ProcState]
  BY <1>1, <1>2, ReturnType DEF SettleInv, ProcState
<1>4. SettleTypeOK'
  <2>1. predictions[proc[s].bet].user \in Users
    BY <1>1 DEF SettleInv, SettleTypeOK, StoreTypeOK, ProcOK, Placed, Row
  <2>2. wins' \in [Users -> Nat]
    BY <1>1, <2>1 DEF SettleInv, SettleTypeOK
  <2> QED
    BY <1>1, <1>3, <2>2 DEF SettleInv, SettleTypeOK, StoreTypeOK, serverVars, feedVars, lossVars
<1>5. ProcOK'
  BY <1>1, <1>2 DEF SettleInv, ProcOK, ProcState, Placed, Return, Idle
<1>6. VerdictsJustified' /\ StoredPublished'
  BY <1>1 DEF SettleInv, VerdictsJustified, StoredPublished, Placed, Pending, IsCorrect
<1> QED
  BY <1>4, <1>5, <1>6 DEF SettleInv

LEMMA InvRowsEnd ==
    ASSUME SettleInv, NEW s \in Settlers, RowsEnd(s)
    PROVE  SettleInv'
<1> USE SettleAssumption DEF Settlers
<1>0. proc' \in [Settlers -> ProcState]
  <2>1. s \in Settlers /\ proc \in [Settlers -> ProcState]
    BY DEF SettleInv, SettleTypeOK
  <2>2. proc' = [proc EXCEPT ![s].pc = "experts"]
    BY DEF RowsEnd
  <2> QED
    BY <2>1, <2>2 DEF ProcState, Pending, Placed
<1>1. SettleTypeOK'
  BY <1>0 DEF SettleInv, SettleTypeOK, StoreTypeOK, EmptyPage, RowsEnd, dbVars, serverVars, feedVars, lossVars
<1>2. ProcOK'
  BY DEF SettleInv, SettleTypeOK, StoreTypeOK, Row, ProcOK, Placed, Pending, ProcState, RowsEnd, dbVars, serverVars, feedVars, lossVars
<1>3. VerdictsJustified'
  BY DEF SettleInv, SettleTypeOK, StoreTypeOK, Row, ProcOK, VerdictsJustified, Placed, Pending, IsCorrect, ProcState, RowsEnd, dbVars, serverVars, feedVars, lossVars
<1>4. StoredPublished'
  BY DEF SettleInv, StoredPublished, RowsEnd, dbVars, serverVars, feedVars, lossVars
<1> QED
  BY <1>1, <1>2, <1>3, <1>4 DEF SettleInv

LEMMA InvGradeExperts ==
    ASSUME SettleInv, NEW s \in Settlers, GradeExperts(s)
    PROVE  SettleInv'
<1> USE SettleAssumption DEF Settlers
<1>0. proc' \in [Settlers -> ProcState]
  <2>1. s \in Settlers /\ proc \in [Settlers -> ProcState]
    BY DEF SettleInv, SettleTypeOK
  <2>2. proc' = [proc EXCEPT ![s].pc = "ais"]
    BY DEF GradeExperts
  <2> QED
    BY <2>1, <2>2 DEF ProcState, Pending, Placed
<1>1. SettleTypeOK'
  BY <1>0 DEF SettleInv, SettleTypeOK, StoreTypeOK, EmptyPage, Pick, GradeExperts, Graded, dbVars, serverVars, feedVars, lossVars
<1>2. ProcOK'
  BY DEF SettleInv, SettleTypeOK, StoreTypeOK, Row, ProcOK, Placed, Pending, ProcState, GradeExperts, Graded, dbVars, serverVars, feedVars, lossVars
<1>3. VerdictsJustified'
  BY DEF SettleInv, SettleTypeOK, StoreTypeOK, Row, ProcOK, VerdictsJustified, Placed, Pending, IsCorrect, ProcState, GradeExperts, Graded, dbVars, serverVars, feedVars, lossVars
<1>4. StoredPublished'
  BY DEF SettleInv, StoredPublished, GradeExperts, Graded, dbVars, serverVars, feedVars, lossVars
<1> QED
  BY <1>1, <1>2, <1>3, <1>4 DEF SettleInv

LEMMA InvGradeAis ==
    ASSUME SettleInv, NEW s \in Settlers, GradeAis(s)
    PROVE  SettleInv'
<1> USE SettleAssumption DEF Settlers
<1>1. SettleTypeOK'
  BY SMTT(20) DEF SettleInv, SettleTypeOK, StoreTypeOK, Row, EmptyPage, Pick, ProcState, ProcOK, Placed, GradeAis, Graded, Return, Idle, dbVars, serverVars, feedVars, lossVars
<1>2. ProcOK'
  BY DEF SettleInv, SettleTypeOK, StoreTypeOK, Row, ProcOK, Placed, Pending, ProcState, GradeAis, Graded, Return, Idle, dbVars, serverVars, feedVars, lossVars
<1>3. VerdictsJustified'
  BY DEF SettleInv, SettleTypeOK, StoreTypeOK, Row, ProcOK, VerdictsJustified, Placed, Pending, IsCorrect, ProcState, GradeAis, Graded, Return, Idle, dbVars, serverVars, feedVars, lossVars
<1>4. StoredPublished'
  BY DEF SettleInv, StoredPublished, GradeAis, Graded, Return, Idle, dbVars, serverVars, feedVars, lossVars
<1> QED
  BY <1>1, <1>2, <1>3, <1>4 DEF SettleInv

LEMMA InvCrawlCut ==
    ASSUME SettleInv, NEW s \in Spiders, CrawlCut(s)
    PROVE  SettleInv'
<1> USE SettleAssumption DEF Settlers
<1>0. proc' \in [Settlers -> ProcState]
  <2>1. s \in Settlers /\ proc \in [Settlers -> ProcState]
    BY DEF SettleInv, SettleTypeOK
  <2>2. proc' = [proc EXCEPT ![s].pc = "upsert"]
    BY DEF CrawlCut
  <2> QED
    BY <2>1, <2>2 DEF ProcState, Pending, Placed
<1>1. SettleTypeOK'
  BY <1>0 DEF SettleInv, SettleTypeOK, StoreTypeOK, EmptyPage, CrawlCut, Fault, dbVars, serverVars, feedVars, lossVars
<1>2. ProcOK'
  BY DEF SettleInv, SettleTypeOK, StoreTypeOK, Row, ProcOK, Placed, Pending, ProcState, CrawlCut, Fault, dbVars, serverVars, feedVars, lossVars
<1>3. VerdictsJustified'
  BY DEF SettleInv, SettleTypeOK, StoreTypeOK, Row, ProcOK, VerdictsJustified, Placed, Pending, IsCorrect, ProcState, CrawlCut, Fault, dbVars, serverVars, feedVars, lossVars
<1>4. StoredPublished'
  BY DEF SettleInv, StoredPublished, CrawlCut, Fault, dbVars, serverVars, feedVars, lossVars
<1> QED
  BY <1>1, <1>2, <1>3, <1>4 DEF SettleInv

LEMMA InvUpsertFails ==
    ASSUME SettleInv, NEW s \in Spiders, NEW m \in Matches, UpsertFails(s, m)
    PROVE  SettleInv'
<1>1. /\ proc \in [Settlers -> ProcState]
      /\ published \in [Matches -> SUBSET Draws]
      /\ page[s][m] \in Result
      /\ faults' \in Nat /\ losses' \in Nat
      /\ UNCHANGED <<predictions, wins, picks, serverVars, feedVars, proc>>
  BY DEF SettleInv, SettleTypeOK, UpsertFails, Fault
<1>2. /\ \A k \in Matches : published[k] \subseteq published'[k]
      /\ published' \in [Matches -> SUBSET Draws]
  BY <1>1 DEF UpsertFails, StoreResult, Result
<1>3. SettleTypeOK'
  BY <1>1, <1>2, SettleAssumption DEF SettleInv, SettleTypeOK, StoreTypeOK, UpsertFails, StoreResult, serverVars, feedVars, lossVars
<1>4. ProcOK'
  BY <1>1, <1>2 DEF SettleInv, ProcOK, Placed, ProcState
<1>5. VerdictsJustified'
  BY <1>1, <1>2 DEF SettleInv, SettleTypeOK, StoreTypeOK, Row, VerdictsJustified, Placed, Pending, IsCorrect, PickKeys
<1>6. StoredPublished'
  BY <1>1, <1>2 DEF SettleInv, SettleTypeOK, StoredPublished, UpsertFails, StoreResult
<1> QED
  BY <1>3, <1>4, <1>5, <1>6 DEF SettleInv

LEMMA InvSpiderCrash ==
    ASSUME SettleInv, NEW s \in Spiders, SpiderCrash(s)
    PROVE  SettleInv'
<1> USE SettleAssumption DEF Settlers
<1>1. SettleTypeOK'
  BY DEF SettleInv, SettleTypeOK, StoreTypeOK, Row, EmptyPage, ProcState, ProcOK, Placed, SpiderCrash, Fault, Idle, dbVars, serverVars, feedVars, lossVars
<1>2. ProcOK'
  BY DEF SettleInv, SettleTypeOK, StoreTypeOK, Row, ProcOK, Placed, Pending, ProcState, SpiderCrash, Fault, Idle, dbVars, serverVars, feedVars, lossVars
<1>3. VerdictsJustified'
  BY DEF SettleInv, SettleTypeOK, StoreTypeOK, Row, ProcOK, VerdictsJustified, Placed, Pending, IsCorrect, ProcState, SpiderCrash, Fault, Idle, dbVars, serverVars, feedVars, lossVars
<1>4. StoredPublished'
  BY DEF SettleInv, StoredPublished, SpiderCrash, Fault, Idle, dbVars, serverVars, feedVars, lossVars
<1> QED
  BY <1>1, <1>2, <1>3, <1>4 DEF SettleInv

LEMMA InvCallFails ==
    ASSUME SettleInv, NEW s \in Settlers, CallFails(s)
    PROVE  SettleInv'
<1> USE SettleAssumption DEF Settlers
<1>1. SettleTypeOK'
  BY DEF SettleInv, SettleTypeOK, StoreTypeOK, Row, EmptyPage, ProcState, ProcOK, Placed, CallFails, Fault, Return, Idle, dbVars, serverVars, feedVars, lossVars
<1>2. ProcOK'
  BY DEF SettleInv, SettleTypeOK, StoreTypeOK, Row, ProcOK, Placed, Pending, ProcState, CallFails, Fault, Return, Idle, dbVars, serverVars, feedVars, lossVars
<1>3. VerdictsJustified'
  BY DEF SettleInv, SettleTypeOK, StoreTypeOK, Row, ProcOK, VerdictsJustified, Placed, Pending, IsCorrect, ProcState, CallFails, Fault, Return, Idle, dbVars, serverVars, feedVars, lossVars
<1>4. StoredPublished'
  BY DEF SettleInv, StoredPublished, CallFails, Fault, Return, Idle, dbVars, serverVars, feedVars, lossVars
<1> QED
  BY <1>1, <1>2, <1>3, <1>4 DEF SettleInv

LEMMA InvUpdateFails ==
    ASSUME SettleInv, NEW s \in Settlers, NEW b \in BetIds, UpdateFails(s, b)
    PROVE  SettleInv'
<1> USE SettleAssumption DEF Settlers
<1>0. proc' \in [Settlers -> ProcState]
  <2>1. s \in Settlers /\ proc \in [Settlers -> ProcState]
    BY DEF SettleInv, SettleTypeOK
  <2>2. proc' = [proc EXCEPT ![s].work = @ \ {b}]
    BY DEF UpdateFails
  <2> QED
    BY <2>1, <2>2 DEF ProcState, Pending, Placed
<1>1. SettleTypeOK'
  BY <1>0 DEF SettleInv, SettleTypeOK, StoreTypeOK, EmptyPage, UpdateFails, Fault, dbVars, serverVars, feedVars, lossVars
<1>2. ProcOK'
  BY DEF SettleInv, SettleTypeOK, StoreTypeOK, Row, ProcOK, Placed, Pending, ProcState, UpdateFails, Fault, dbVars, serverVars, feedVars, lossVars
<1>3. VerdictsJustified'
  BY DEF SettleInv, SettleTypeOK, StoreTypeOK, Row, ProcOK, VerdictsJustified, Placed, Pending, IsCorrect, ProcState, UpdateFails, Fault, dbVars, serverVars, feedVars, lossVars
<1>4. StoredPublished'
  BY DEF SettleInv, StoredPublished, UpdateFails, Fault, dbVars, serverVars, feedVars, lossVars
<1> QED
  BY <1>1, <1>2, <1>3, <1>4 DEF SettleInv

LEMMA InvRowsCut ==
    ASSUME SettleInv, NEW s \in Settlers, RowsCut(s)
    PROVE  SettleInv'
<1> USE SettleAssumption DEF Settlers
<1>1. SettleTypeOK'
  BY DEF SettleInv, SettleTypeOK, StoreTypeOK, Row, EmptyPage, ProcState, ProcOK, Placed, RowsCut, Fault, dbVars, serverVars, feedVars, lossVars
<1>2. ProcOK'
  BY DEF SettleInv, SettleTypeOK, StoreTypeOK, Row, ProcOK, Placed, Pending, ProcState, RowsCut, Fault, dbVars, serverVars, feedVars, lossVars
<1>3. VerdictsJustified'
  BY DEF SettleInv, SettleTypeOK, StoreTypeOK, Row, ProcOK, VerdictsJustified, Placed, Pending, IsCorrect, ProcState, RowsCut, Fault, dbVars, serverVars, feedVars, lossVars
<1>4. StoredPublished'
  BY DEF SettleInv, StoredPublished, RowsCut, Fault, dbVars, serverVars, feedVars, lossVars
<1> QED
  BY <1>1, <1>2, <1>3, <1>4 DEF SettleInv

LEMMA InvGradeFails ==
    ASSUME SettleInv, NEW s \in Settlers, GradeFails(s)
    PROVE  SettleInv'
<1> USE SettleAssumption DEF Settlers
<1>1. /\ proc \in [Settlers -> ProcState]
      /\ proc[s].match \in Matches /\ proc[s].draw \in published[proc[s].match]
  BY DEF SettleInv, SettleTypeOK, ProcOK, GradeFails
<1>2. PICK ks \in SUBSET Pickers, sts \in SUBSET SubTypes : picks' = Graded(s, ks, sts)
  BY DEF GradeFails, Pickers
<1>3. \/ Return(s)
      \/ proc' = [proc EXCEPT ![s].pc = "ais"] /\ proc[s].pc = "experts"
  BY DEF GradeFails
<1>4. /\ UNCHANGED <<predictions, wins, results, serverVars, feedVars, page, published>>
      /\ faults' = faults + 1 /\ losses' = losses + 1
  BY DEF GradeFails, Fault
<1>5. SettleTypeOK'
  <2>1. proc' \in [Settlers -> ProcState]
    BY <1>1, <1>3, ReturnType DEF SettleInv, ProcState
  <2>2. picks' \in [PickKeys -> Pick]
    BY <1>2 DEF SettleInv, SettleTypeOK, Graded, Pick
  <2> QED
    BY <1>4, <2>1, <2>2 DEF SettleInv, SettleTypeOK, StoreTypeOK, serverVars, feedVars, lossVars
<1>6. ProcOK'
  BY <1>1, <1>3, <1>4 DEF SettleInv, ProcOK, ProcState, Placed, Return, Idle
<1>7. VerdictsJustified'
  BY <1>1, <1>2, <1>4 DEF SettleInv, SettleTypeOK, VerdictsJustified, Placed, Pending, IsCorrect, Graded
<1>8. StoredPublished'
  BY <1>4 DEF SettleInv, StoredPublished
<1> QED
  BY <1>5, <1>6, <1>7, <1>8 DEF SettleInv

LEMMA InvRestartServer ==
    ASSUME SettleInv, RestartServer
    PROVE  SettleInv'
<1> USE SettleAssumption DEF Settlers
<1>1. SettleTypeOK'
  <2>1. backfill' \in [Users -> Nat]
    BY WonRowsFinite DEF RestartServer
  <2>2. proc' \in [Settlers -> ProcState]
    BY DEF SettleInv, SettleTypeOK, ProcState, RestartServer, Idle
  <2> QED
    BY <2>1, <2>2 DEF SettleInv, SettleTypeOK, StoreTypeOK, RestartServer, dbVars, feedVars, lossVars
<1>2. ProcOK'
  BY DEF SettleInv, ProcOK, Placed, RestartServer, Idle, dbVars
<1>3. VerdictsJustified' /\ StoredPublished'
  BY DEF SettleInv, VerdictsJustified, StoredPublished, Placed, Pending, IsCorrect, RestartServer, dbVars
<1> QED
  BY <1>1, <1>2, <1>3 DEF SettleInv

LEMMA InvBackfillWins ==
    ASSUME SettleInv, BackfillWins
    PROVE  SettleInv'
<1> USE SettleAssumption DEF Settlers
<1>1. SettleTypeOK'
  BY DEF SettleInv, SettleTypeOK, StoreTypeOK, Row, Pick, EmptyPage, ProcState, ProcOK, Placed, BackfillWins, NoBackfill, dbVars, serverVars, feedVars, lossVars
<1>2. ProcOK'
  BY DEF SettleInv, SettleTypeOK, StoreTypeOK, Row, ProcOK, Placed, Pending, ProcState, BackfillWins, NoBackfill, dbVars, serverVars, feedVars, lossVars
<1>3. VerdictsJustified'
  BY DEF SettleInv, SettleTypeOK, StoreTypeOK, Row, ProcOK, VerdictsJustified, Placed, Pending, IsCorrect, ProcState, BackfillWins, NoBackfill, dbVars, serverVars, feedVars, lossVars
<1>4. StoredPublished'
  BY DEF SettleInv, StoredPublished, BackfillWins, NoBackfill, dbVars, serverVars, feedVars, lossVars
<1> QED
  BY <1>1, <1>2, <1>3, <1>4 DEF SettleInv

-----------------------------------------------------------------------------
LEMMA NextInv == SettleInv /\ [SettleNext]_settleVars => SettleInv'
<1> SUFFICES ASSUME SettleInv, [SettleNext]_settleVars PROVE SettleInv'
  OBVIOUS
<1>1. CASE SomeBet
  BY <1>1, InvPlaceBet DEF SomeBet
<1>2. CASE SomeNews
  BY <1>2, InvPublish DEF SomeNews
<1>3. ASSUME NEW s \in Settlers, SettleCall(s) PROVE SettleInv'
  BY <1>3, InvReadResult, InvQueryPending, InvUpdateRow, InvCredit, InvRowsEnd,
     InvGradeExperts, InvGradeAis DEF SettleCall
<1>4. ASSUME NEW s \in Spiders, SpiderStep(s) \/ SpiderFault(s) PROVE SettleInv'
  BY <1>3, <1>4, InvCrawl, InvUpsertResult, InvPageDone, InvCrawlCut, InvUpsertFails,
     InvSpiderCrash DEF SpiderStep, SpiderFault, Settlers
<1>5. ASSUME NEW s \in Apis, ApiStep(s) PROVE SettleInv'
  BY <1>3, <1>5, InvApiCall DEF ApiStep, Settlers
<1>6. ASSUME NEW s \in Settlers, CallFault(s) PROVE SettleInv'
  BY <1>6, InvCallFails, InvCredit, InvUpdateFails, InvUpdateRow, InvRowsCut, InvGradeFails DEF CallFault
<1>7. CASE RestartServer
  BY <1>7, InvRestartServer
<1>8. CASE BackfillWins
  BY <1>8, InvBackfillWins
<1>9. CASE UNCHANGED settleVars
  <2>1. UNCHANGED <<predictions, wins, results, picks, feed, page, proc, server, backfill,
                    published, revisions, faults, losses, restarts>>
    BY <1>9 DEF settleVars, dbVars, serverVars, feedVars, lossVars
  <2> QED
    BY <2>1 DEF SettleInv, SettleTypeOK, StoreTypeOK, ProcOK, StoredPublished,
                VerdictsJustified, Placed, Pending, IsCorrect
<1> QED
  BY <1>1, <1>2, <1>4, <1>5, <1>6, <1>7, <1>8, <1>9 DEF SettleNext

\* The invariant holds in every reachable state.
THEOREM SettleInvariant == SettleSpec => []SettleInv
  BY InitInv, NextInv, PTL DEF SettleSpec

\* Every variable keeps its type, with any number of settlers, faults, restarts.
THEOREM SettleTypeCorrect == SettleSpec => []SettleTypeOK
  BY SettleInvariant, PTL DEF SettleInv

\* Nothing is ever settled or graded by a draw that was not published as valid for
\* its match, whatever the settlers, the corrections, the failures and the restarts.
THEOREM VerdictsAreJustified == SettleSpec => []VerdictsJustified
  BY SettleInvariant, PTL DEF SettleInv

-----------------------------------------------------------------------------
(* Every call comes to an end: the variant behind the liveness properties. *)

NBets == Cardinality(BetIds)

\* The statements a settler in state p still has to execute before SettleAllForMatch
\* returns, at most: two for each row it works on, one more for a win to be counted,
\* the gradings, and before the query two for each row there may be.
StepsOf(p) ==
    CASE p.pc = "read"    -> 2 * NBets + 5
      [] p.pc = "query"   -> 2 * NBets + 4
      [] p.pc = "credit"  -> 2 * Cardinality(p.work) + 4
      [] p.pc = "rows"    -> 2 * Cardinality(p.work) + 3
      [] p.pc = "experts" -> 2
      [] p.pc = "ais"     -> 1
      [] OTHER            -> 0

InCall(s) == proc[s].pc \notin {"idle", "upsert"}

LEMMA WorkFinite ==
    ASSUME NEW p \in ProcState
    PROVE  /\ IsFiniteSet(p.work) /\ Cardinality(p.work) \in Nat /\ NBets \in Nat
           /\ Cardinality(p.work) <= NBets
<1>1. p.work \in SUBSET BetIds
  BY DEF ProcState
<1> QED
  BY <1>1, StoreAssumption, FS_Subset, FS_CardinalityType DEF NBets

LEMMA StepsRange ==
    ASSUME NEW p \in ProcState
    PROVE  /\ StepsOf(p) \in Nat /\ StepsOf(p) <= 2 * NBets + 5
           /\ p.pc \notin {"idle", "upsert"} => StepsOf(p) > 0
<1>1. p.pc \in {"idle", "upsert", "read", "query", "rows", "credit", "experts", "ais"}
  BY DEF ProcState
<1> QED
  BY <1>1, WorkFinite DEF StepsOf

\* Each statement of a call, whether it succeeds or fails, brings it nearer to its end.
LEMMA CallShrinks ==
    ASSUME SettleInv, NEW s \in Settlers, SettleCall(s) \/ CallFault(s)
    PROVE  /\ InCall(s) /\ StepsOf(proc'[s]) < StepsOf(proc[s])
           /\ \A t \in Settlers \ {s} : proc'[t] = proc[t]
<1>1. proc \in [Settlers -> ProcState] /\ proc[s] \in ProcState
  BY DEF SettleInv, SettleTypeOK
<1>2. proc'[s] \in ProcState
  <2>1. SettleInv'
    BY NextInv DEF SettleNext, SpiderStep, ApiStep, Settlers
  <2> QED
    BY <2>1 DEF SettleInv, SettleTypeOK
<1> DEFINE p == proc[s]
           q == proc'[s]
           w == Cardinality(p.work)
           v == Cardinality(q.work)
<1>3. w \in Nat /\ v \in Nat /\ NBets \in Nat /\ w <= NBets /\ v <= NBets
  BY <1>1, <1>2, WorkFinite
<1>4. ASSUME Return(s), p.pc \notin {"idle", "upsert"}
      PROVE  InCall(s) /\ StepsOf(q) < StepsOf(p) /\ \A t \in Settlers \ {s} : proc'[t] = proc[t]
  <2>1. q.pc \in {"idle", "upsert"} /\ \A t \in Settlers \ {s} : proc'[t] = proc[t]
    BY <1>1, <1>4 DEF Return, Idle
  <2>2. StepsOf(q) = 0
    BY <2>1 DEF StepsOf
  <2> QED
    BY <1>1, <1>4, <2>1, <2>2, StepsRange DEF InCall
<1>5. ASSUME NEW b \in BetIds, b \in p.work, p.pc = "rows",
             \/ proc' = [proc EXCEPT ![s].work = @ \ {b}, ![s].bet = b, ![s].pc = "credit"]
             \/ proc' = [proc EXCEPT ![s].work = @ \ {b}]
      PROVE  InCall(s) /\ StepsOf(q) < StepsOf(p) /\ \A t \in Settlers \ {s} : proc'[t] = proc[t]
  <2>1. /\ q.work = p.work \ {b} /\ q.pc \in {"rows", "credit"}
        /\ \A t \in Settlers \ {s} : proc'[t] = proc[t]
    BY <1>1, <1>5 DEF ProcState
  <2>2. v = w - 1
    <3>1. IsFiniteSet(p.work)
      BY <1>1, WorkFinite
    <3>2. Cardinality(p.work \ {b}) = Cardinality(p.work) - 1
      BY <1>5, <3>1, FS_RemoveElement
    <3> QED
      BY <2>1, <3>2
  <2>3. StepsOf(p) = 2 * w + 3 /\ StepsOf(q) <= 2 * v + 4
    BY <1>3, <1>5, <2>1 DEF StepsOf
  <2>4. StepsOf(q) < StepsOf(p)
    <3> HIDE DEF p, q, w, v
    <3>1. StepsOf(q) \in Nat
      BY <1>2, StepsRange DEF q
    <3> QED
      BY <1>3, <2>2, <2>3, <3>1
  <2> QED
    BY <1>5, <2>1, <2>4 DEF InCall
<1>6. ASSUME \/ ReadResult(s) \/ QueryPending(s) \/ Credit(s) \/ RowsEnd(s)
             \/ GradeExperts(s) \/ RowsCut(s) \/ GradeFails(s),
             ~Return(s)
      PROVE  InCall(s) /\ StepsOf(q) < StepsOf(p) /\ \A t \in Settlers \ {s} : proc'[t] = proc[t]
  <2>1. /\ \A t \in Settlers \ {s} : proc'[t] = proc[t]
        /\ \/ p.pc = "read" /\ q.pc = "query"
           \/ p.pc = "query" /\ q.pc = "rows"
           \/ p.pc = "credit" /\ q.pc = "rows" /\ q.work = p.work
           \/ p.pc = "rows" /\ q.pc = "experts"
           \/ p.pc = "experts" /\ q.pc = "ais"
    BY <1>1, <1>6 DEF ReadResult, QueryPending, Credit, IncrementWins, RowsEnd, GradeExperts, RowsCut,
       GradeFails, ProcState
  <2> QED
    BY <1>3, <2>1 DEF StepsOf, InCall
<1>7. CASE \E b \in BetIds : UpdateRow(s, b) \/ UpdateFails(s, b) \/ UpdateReplyLost(s, b)
  BY <1>5, <1>7 DEF UpdateRow, UpdateFails, UpdateReplyLost, Mark
<1>8. CASE Return(s) /\ (ReadResult(s) \/ GradeAis(s) \/ CallFails(s) \/ CreditReplyLost(s)
                         \/ GradeFails(s))
  BY <1>4, <1>8 DEF ReadResult, GradeAis, CallFails, CreditReplyLost, IncrementWins, GradeFails
<1>9. \/ ReadResult(s) \/ QueryPending(s) \/ Credit(s) \/ RowsEnd(s)
      \/ GradeExperts(s) \/ RowsCut(s) \/ GradeFails(s)
      \/ GradeAis(s) \/ CallFails(s) \/ CreditReplyLost(s)
      \/ \E b \in BetIds : UpdateRow(s, b) \/ UpdateFails(s, b) \/ UpdateReplyLost(s, b)
  BY DEF SettleCall, CallFault
<1>10. GradeAis(s) \/ CallFails(s) \/ CreditReplyLost(s) => Return(s)
  BY DEF GradeAis, CallFails, CreditReplyLost
<1>11. Return(s) => ~QueryPending(s) /\ ~Credit(s) /\ ~RowsEnd(s) /\ ~GradeExperts(s) /\ ~RowsCut(s)
  BY <1>1 DEF Return, Idle, QueryPending, Credit, IncrementWins, RowsEnd, GradeExperts, RowsCut, ProcState
<1> QED
  BY <1>6, <1>7, <1>8, <1>9, <1>10, <1>11

\* What a step does to a settler that is in a call or a pass: nothing, a statement of
\* its own, or its end.
LEMMA SettlerSteps ==
    ASSUME SettleInv, [SettleNext]_settleVars, NEW s \in Settlers, proc[s].pc # "idle"
    PROVE  \/ proc'[s] = proc[s] /\ (s \in Spiders => page'[s] = page[s])
           \/ (SettleCall(s) \/ CallFault(s)) /\ page' = page
           \/ s \in Spiders /\ (\E m \in Matches : UpsertResult(s, m) \/ UpsertFails(s, m))
           \/ proc'[s] = Idle
<1>1. /\ proc \in [Settlers -> ProcState] /\ proc[s] \in ProcState
      /\ page \in [Spiders -> [Matches -> Result \cup {NoResult}]]
  BY DEF SettleInv, SettleTypeOK
<1>2. ASSUME NEW t \in Settlers, SettleCall(t) \/ CallFault(t)
      PROVE  /\ page' = page
             /\ t = s \/ proc'[s] = proc[s]
  <2>1. page' = page
    BY <1>2 DEF SettleCall, ReadResult, QueryPending, UpdateRow, Credit, RowsEnd, GradeExperts, GradeAis,
       CallFault, CallFails, CreditReplyLost, UpdateFails, UpdateReplyLost, RowsCut, GradeFails
  <2> QED
    BY <1>2, <2>1, CallShrinks
<1>3. CASE \E t \in Settlers : SettleCall(t) \/ CallFault(t)
  BY <1>2, <1>3
<1>4. ASSUME NEW t \in Spiders,
             \/ Crawl(t) \/ (\E m \in Matches : UpsertResult(t, m)) \/ PageDone(t) \/ SpiderFault(t)
      PROVE  \/ proc'[s] = proc[s] /\ (s \in Spiders => page'[s] = page[s])
             \/ s \in Spiders /\ (\E m \in Matches : UpsertResult(s, m) \/ UpsertFails(s, m))
             \/ proc'[s] = Idle
  <2>0. t \in Settlers
    BY DEF Settlers
  <2>1. CASE t # s
    <3>1. proc'[s] = proc[s]
      BY <1>1, <1>4, <2>0, <2>1
      DEF Crawl, UpsertResult, PageDone, SpiderFault, CrawlCut, UpsertFails, SpiderCrash
    <3>2. s \in Spiders => page'[s] = page[s]
      BY <1>1, <1>4, <2>1
      DEF Crawl, UpsertResult, PageDone, SpiderFault, CrawlCut, UpsertFails, SpiderCrash
    <3> QED
      BY <3>1, <3>2
  <2>2. CASE t = s
    BY <1>1, <1>4, <2>2 DEF Crawl, PageDone, SpiderFault, CrawlCut, SpiderCrash
  <2> QED
    BY <2>1, <2>2
<1>5. ASSUME NEW t \in Apis, NEW m \in Matches, ApiCall(t, m)
      PROVE  proc'[s] = proc[s] /\ page' = page
  BY <1>1, <1>5 DEF ApiCall, Settlers
<1>6. CASE RestartServer
  BY <1>1, <1>6 DEF RestartServer
<1>7. CASE SomeBet \/ SomeNews \/ BackfillWins \/ UNCHANGED settleVars
  BY <1>7 DEF SomeBet, PlaceBet, SomeNews, Publish, BackfillWins, settleVars
<1> QED
  BY <1>3, <1>4, <1>5, <1>6, <1>7 DEF SettleNext, SpiderStep, ApiStep, Settlers

\* A call of SettleAllForMatch executes two statements per pending row and five more at
\* most, and every one of them, done or failed, brings it nearer to its end: neither
\* other settlers, corrections and bets nor a restart sets a call back.
THEOREM CallsWindDown ==
    SettleSpec => /\ [](\A s \in Settlers : StepsOf(proc[s]) <= 2 * NBets + 5)
                  /\ [][\A s \in Settlers :
                           InCall(s) => \/ proc'[s] = proc[s]
                                        \/ StepsOf(proc'[s]) < StepsOf(proc[s])]_settleVars
<1>1. SettleInv => \A s \in Settlers : StepsOf(proc[s]) <= 2 * NBets + 5
  BY StepsRange DEF SettleInv, SettleTypeOK
<1>2. SettleInv /\ [SettleNext]_settleVars
        => [\A s \in Settlers :
               InCall(s) => \/ proc'[s] = proc[s]
                            \/ StepsOf(proc'[s]) < StepsOf(proc[s])]_settleVars
  <2> SUFFICES ASSUME SettleInv, [SettleNext]_settleVars, NEW s \in Settlers, InCall(s),
                      proc'[s] # proc[s]
               PROVE  StepsOf(proc'[s]) < StepsOf(proc[s])
    OBVIOUS
  <2>1. SettleCall(s) \/ CallFault(s) \/ proc'[s] = Idle
    BY SettlerSteps DEF InCall, UpsertResult, UpsertFails
  <2>2. CASE SettleCall(s) \/ CallFault(s)
    BY <2>2, CallShrinks
  <2>3. CASE proc'[s] = Idle
    <3>1. StepsOf(proc'[s]) = 0
      BY <2>3 DEF StepsOf, Idle
    <3>2. StepsOf(proc[s]) \in Nat /\ StepsOf(proc[s]) > 0
      BY StepsRange DEF SettleInv, SettleTypeOK, InCall
    <3> QED
      BY <3>1, <3>2
  <2> QED
    BY <2>1, <2>2, <2>3
<1> QED
  BY <1>1, <1>2, SettleInvariant, PTL DEF SettleSpec

-----------------------------------------------------------------------------
(* A pass of the spider.                                                   *)

\* The results of the page that are still to be stored.
Unstored(s) == {m \in Matches : page[s][m] # NoResult}

\* One statement and one call for each of them, the call under way, and the end.
PassLeft(s) ==
    IF proc[s].pc = "idle" THEN 0
    ELSE (2 * NBets + 7) * Cardinality(Unstored(s)) + StepsOf(proc[s]) + 1

LEMMA ProductNat ==
    ASSUME NEW k \in Nat, NEW n \in Nat
    PROVE  k * n \in Nat
  OBVIOUS

LEMMA ProductLess ==
    ASSUME NEW k \in Nat, NEW n \in Nat
    PROVE  k * n = k * (n - 1) + k
  OBVIOUS

LEMMA PassRange ==
    ASSUME IsFiniteSet(Matches), SettleTypeOK, NEW s \in Spiders
    PROVE  /\ IsFiniteSet(Unstored(s)) /\ Cardinality(Unstored(s)) \in Nat
           /\ (2 * NBets + 7) * Cardinality(Unstored(s)) \in Nat
           /\ StepsOf(proc[s]) \in Nat /\ StepsOf(proc[s]) <= 2 * NBets + 5
           /\ NBets \in Nat /\ PassLeft(s) \in Nat
           /\ proc[s].pc # "idle" => PassLeft(s) > 0
<1>1. IsFiniteSet(Unstored(s)) /\ Cardinality(Unstored(s)) \in Nat
  BY FS_Subset, FS_CardinalityType DEF Unstored
<1>2. StepsOf(proc[s]) \in Nat /\ StepsOf(proc[s]) <= 2 * NBets + 5 /\ NBets \in Nat
  BY StepsRange, WorkFinite DEF SettleTypeOK, Settlers
<1>3. 2 * NBets + 7 \in Nat
  BY <1>2
<1>4. (2 * NBets + 7) * Cardinality(Unstored(s)) \in Nat
  BY <1>1, <1>3, ProductNat
<1> QED
  BY <1>1, <1>2, <1>4 DEF PassLeft

\* Storing a result trades it for one call at most.
LEMMA StoringShrinks ==
    ASSUME IsFiniteSet(Matches), SettleInv, NEW s \in Spiders, NEW m \in Matches,
           UpsertResult(s, m) \/ UpsertFails(s, m)
    PROVE  PassLeft(s)' < PassLeft(s)
<1> DEFINE k == Cardinality(Unstored(s))
           w == 2 * NBets + 7
<1>1. /\ page \in [Spiders -> [Matches -> Result \cup {NoResult}]] /\ s \in Settlers
      /\ proc \in [Settlers -> ProcState] /\ proc[s].pc = "upsert" /\ page[s][m] # NoResult
      /\ page' = [page EXCEPT ![s][m] = NoResult]
  BY DEF SettleInv, SettleTypeOK, Settlers, UpsertResult, UpsertFails
<1>2. m \in Unstored(s) /\ Unstored(s)' = Unstored(s) \ {m}
  BY <1>1 DEF Unstored
<1>3. IsFiniteSet(Unstored(s)) /\ k \in Nat /\ NBets \in Nat
  BY PassRange DEF SettleInv
<1>4. Cardinality(Unstored(s) \ {m}) = k - 1
  BY <1>2, <1>3, FS_RemoveElement
<1>5. Cardinality(Unstored(s)') = k - 1 /\ k - 1 \in Nat
  <2>1. IsFiniteSet(Unstored(s)')
    BY <1>2, <1>3, FS_Subset
  <2>2. Cardinality(Unstored(s)') \in Nat
    BY <2>1, FS_CardinalityType
  <2> QED
    BY <1>2, <1>4, <2>2
<1>6. /\ proc'[s].pc # "idle"
      /\ StepsOf(proc'[s]) \in Nat /\ StepsOf(proc'[s]) <= 2 * NBets + 5
      /\ StepsOf(proc[s]) = 0
  <2>1. proc' = proc \/ proc' = [proc EXCEPT ![s].pc = "read", ![s].match = m]
    BY DEF UpsertResult, UpsertFails
  <2>2. proc'[s].pc \in {"upsert", "read"}
    BY <1>1, <2>1 DEF ProcState
  <2>3. \A p : /\ p.pc = "upsert" => StepsOf(p) = 0
               /\ p.pc = "read" => StepsOf(p) = 2 * NBets + 5
    BY DEF StepsOf
  <2> QED
    BY <1>1, <1>3, <2>2, <2>3
<1>7. PassLeft(s) = w * k + 1 /\ PassLeft(s)' = w * (k - 1) + StepsOf(proc'[s]) + 1
  <2>1. NBets' = NBets
    BY DEF NBets
  <2>2. StepsOf(proc[s])' = StepsOf(proc'[s])
    BY DEF StepsOf, NBets
  <2> QED
    BY <1>1, <1>3, <1>5, <1>6, <2>1, <2>2 DEF PassLeft
<1> HIDE DEF k, w
<1>8. w * k = w * (k - 1) + w
  <2>1. w \in Nat
    BY <1>3 DEF w
  <2> QED
    BY <1>3, <1>5, <2>1, ProductLess
<1>9. w = 2 * NBets + 7 /\ w * (k - 1) \in Nat
  <2>1. w = 2 * NBets + 7 /\ w \in Nat
    BY <1>3 DEF w
  <2> QED
    BY <1>5, <2>1, ProductNat
<1> QED
  BY <1>3, <1>6, <1>7, <1>8, <1>9

\* A pass of a spider over the results it has crawled comes to its end: every statement,
\* done or failed, and every result, stored or not, brings it nearer, and nothing that
\* others do while it runs, new results and bets among it, sets it back.
THEOREM PassesWindDown ==
    ASSUME IsFiniteSet(Matches)
    PROVE  SettleSpec =>
               [][\A s \in Spiders :
                    proc[s].pc # "idle" => \/ proc'[s] = proc[s] /\ page'[s] = page[s]
                                          \/ PassLeft(s)' < PassLeft(s)]_settleVars
<1>1. SettleInv /\ [SettleNext]_settleVars
        => [\A s \in Spiders :
              proc[s].pc # "idle" => \/ proc'[s] = proc[s] /\ page'[s] = page[s]
                                    \/ PassLeft(s)' < PassLeft(s)]_settleVars
  <2> SUFFICES ASSUME SettleInv, [SettleNext]_settleVars, NEW s \in Spiders, proc[s].pc # "idle",
                      ~(proc'[s] = proc[s] /\ page'[s] = page[s])
               PROVE  PassLeft(s)' < PassLeft(s)
    OBVIOUS
  <2>1. s \in Settlers /\ PassLeft(s) \in Nat /\ PassLeft(s) > 0
    BY PassRange DEF Settlers, SettleInv
  <2>2. CASE proc'[s].pc = "idle"
    BY <2>1, <2>2 DEF PassLeft
  <2>3. CASE \E m \in Matches : UpsertResult(s, m) \/ UpsertFails(s, m)
    BY <2>3, StoringShrinks
  <2>4. CASE (SettleCall(s) \/ CallFault(s)) /\ page' = page /\ proc'[s].pc # "idle"
    <3> DEFINE held == (2 * NBets + 7) * Cardinality(Unstored(s))
    <3>1. Unstored(s)' = Unstored(s) /\ NBets' = NBets /\ StepsOf(proc[s])' = StepsOf(proc'[s])
      BY <2>4 DEF Unstored, NBets, StepsOf
    <3>2. PassLeft(s) = held + StepsOf(proc[s]) + 1 /\ PassLeft(s)' = held + StepsOf(proc'[s]) + 1
      BY <2>4, <3>1 DEF PassLeft
    <3>3. held \in Nat /\ StepsOf(proc[s]) \in Nat
      BY PassRange DEF SettleInv
    <3>4. StepsOf(proc'[s]) < StepsOf(proc[s]) /\ StepsOf(proc'[s]) \in Nat
      <4>1. SettleInv'
        BY NextInv
      <4>2. proc'[s] \in ProcState
        BY <2>1, <4>1 DEF SettleInv, SettleTypeOK
      <4> QED
        BY <2>1, <2>4, <4>2, CallShrinks, StepsRange
    <3> HIDE DEF held
    <3> QED
      BY <3>2, <3>3, <3>4
  <2> QED
    BY <2>1, <2>2, <2>3, <2>4, SettlerSteps DEF Idle
<1> QED
  BY <1>1, SettleInvariant, PTL DEF SettleSpec
=============================================================================
