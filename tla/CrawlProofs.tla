---------------------------- MODULE CrawlProofs ----------------------------
(* Proofs about Crawl. *)
EXTENDS Crawl, FiniteSetTheorems, TLAPS

\* One goroutine crawls, and what a crawl holds goes with where it is.
ShapeOK ==
    /\ odds.pc = "idle" \/ res.pc = "idle"
    /\ odds.pc \in {"idle", "had"} => odds.page = NoInfos
    /\ odds.pc # "upsert" => odds.todo = {}
    /\ res.pc = "idle" => res.page = NoOutcomes
    /\ res.pc # "store" => res.match = NoMatch

\* The stored line was offered, and no crawl takes a line away unless it could not
\* read the handicap page.
LinesOK ==
    /\ \A m \in Matches : StoredLine(m) # NoLine => StoredLine(m) \in offered[m]
    /\ ~pageLost =>
          /\ \A m \in Matches : offered[m] # {} => StoredLine(m) # NoLine
          /\ odds.pc = "upsert" =>
                \A m \in Matches : odds.page[m] # NoInfo => odds.page[m].line # NoLine

\* A result was judged from what the site said of the match, with a line or without.
ResultFrom(m, o, line) ==
    /\ o.line # NoLine => o.line \in told[m]
    /\ results[m].diff = o.diff
    /\ results[m].draw = Judged(o, line)

\* Results come after the lists: a match with a result is neither listed nor held by
\* an odds crawl any more, so its stored line is final, and its picks are made, however
\* often the result is corrected.
ResultsOK ==
    \A m \in Matches :
        /\ listed[m] # NoInfo => outcome[m] = NoOutcome
        /\ odds.page[m] # NoInfo => results[m] = NoResult
        /\ \A k \in odds.todo : k[2] = m => results[m] = NoResult
        /\ outcome[m] # NoOutcome /\ outcome[m].line # NoLine => outcome[m].line \in told[m]
        /\ res.page[m] # NoOutcome =>
              outcome[m] # NoOutcome /\ (res.page[m].line # NoLine => res.page[m].line \in told[m])
        /\ res.match = m => results[m].draw \in drawn[m]
        /\ drawn[m] # {} => results[m] # NoResult
        /\ results[m] # NoResult =>
              /\ outcome[m] # NoOutcome
              /\ \E o \in Outcomes, line \in {StoredLine(m), NoLine} :
                    ResultFrom(m, o, line) /\ (~readLost => line = StoredLine(m))

\* What a request is about goes with where it is.
AskShape ==
    \A r \in Requests :
        /\ asked[r].pc # "idle" => asked[r].match \in Matches
        /\ asked[r].pc # "pick" => asked[r].todo = {}
        /\ asked[r].pc = "pick" => asked[r].favour \in [SubTypes -> PickCodes]
        /\ \A k \in asked[r].todo : k[1] = Rule /\ k[2] = asked[r].match

\* A request that saw no picks and the match as it is: what has been picked since is
\* what the request will pick.
AskSees ==
    ~blind => \A r \in Requests :
        LET m == asked[r].match IN
        /\ asked[r].pc # "idle" =>
              \A st \in SubTypes : picks[<<Rule, m, st>>] # NoPick =>
                  picks[<<Rule, m, st>>].code = stored[m].favour[st]
        /\ asked[r].pc = "pick" => asked[r].favour = stored[m].favour

CrawlInv == CrawlTypeOK /\ ShapeOK /\ LinesOK /\ ResultsOK /\ AskShape /\ AskSees /\ GradesJustified

-----------------------------------------------------------------------------
(* The rules of the draw                                                   *)

\* A judged handicap always has a code.
LEMMA CalcCode == ASSUME NEW diff \in Int, NEW line \in Int PROVE CalcHHAD(diff, line) \in Codes
BY DEF CalcHHAD, Codes

\* A draw has a code or none per wager, judged or not.
LEMMA JudgedType ==
    ASSUME NEW o \in Outcome, NEW line \in Lines \cup {NoLine}
    PROVE  Judged(o, line) \in [SubTypes -> Codes \cup {NoCode}]
<1> USE CrawlAssumption
<1>1. o.diff # NoScore => o.diff \in Int
  BY DEF Outcome, Scores
<1>2. PageDraw(o) \in [SubTypes -> Codes \cup {NoCode}]
  BY <1>1, CalcCode DEF PageDraw, Outcome
<1>3. o.diff # NoScore /\ line # NoLine => CalcHHAD(o.diff, line) \in Codes
  BY <1>1, CalcCode
<1> QED
  BY <1>2, <1>3 DEF Judged, SubTypes

\* The handicap of a stored match is a line, or there is none.
LEMMA StoredLineType ==
    ASSUME CrawlTypeOK, NEW m \in Matches
    PROVE  StoredLine(m) \in Lines \cup {NoLine}
BY DEF CrawlTypeOK, StoredLine, Info, OddsState, ResState

-----------------------------------------------------------------------------
(* Types                                                                   *)

\* What UpsertMatchResult writes is a row of match_results.
LEMMA ResultType ==
    ASSUME CrawlTypeOK, NEW m \in Matches, NEW o \in Outcome, NEW line \in {StoredLine(m), NoLine}
    PROVE  /\ [valid |-> o.valid, diff |-> o.diff, draw |-> Judged(o, line)] \in Result
           /\ [valid |-> o.valid, diff |-> o.diff, draw |-> Judged(o, line)] # NoResult
<1>1. Judged(o, line) \in [SubTypes -> Codes \cup {NoCode}]
  BY JudgedType, StoredLineType
<1> QED
  BY <1>1, CrawlAssumption DEF Outcome, Result

\* A row of match_results is there after UpsertMatchResult.
LEMMA ResultMade ==
    ASSUME CrawlTypeOK, NEW m \in Matches, UpsertResult(m)
    PROVE  results'[m] # NoResult
<1> DEFINE o == res.page[m]
<1>1. o \in Outcome
  BY CrawlAssumption DEF UpsertResult, CrawlTypeOK, ResState
<1>2. PICK line \in {StoredLine(m), NoLine} :
          results' = [results EXCEPT ![m] =
              [valid |-> o.valid, diff |-> o.diff, draw |-> Judged(o, line)]]
  BY DEF UpsertResult
<1>3. [valid |-> o.valid, diff |-> o.diff, draw |-> Judged(o, line)] # NoResult
  BY <1>1, <1>2, ResultType
<1>4. results \in [Matches -> Result \cup {NoResult}]
  BY DEF CrawlTypeOK
<1> QED
  BY <1>2, <1>3, <1>4

\* Grading keeps the type of the picks.
LEMMA GradeType ==
    ASSUME CrawlTypeOK, NEW m, NEW draw, NEW part, Grade(m, draw, part)
    PROVE  picks' \in [PickKeys -> Pick \cup {NoPick}]
<1>1. ASSUME NEW k \in PickKeys, NEW g \in {"right", "wrong"}, picks[k] # NoPick
      PROVE  [picks[k] EXCEPT !.grade = g] \in Pick
  BY <1>1 DEF CrawlTypeOK, Pick
<1>2. ASSUME NEW k \in PickKeys PROVE picks[k] \in Pick \cup {NoPick}
  BY DEF CrawlTypeOK
<1> QED
  BY <1>1, <1>2 DEF Grade

\* The edits of the crawls' records keep their types.
LEMMA ZeroTries == 0 \in 0 .. RetryCount
BY CrawlAssumption

LEMMA OddsEdit ==
    ASSUME NEW o \in OddsState, NEW infos \in [Matches -> Info \cup {NoInfo}]
    PROVE  [o EXCEPT !.pc = "hhad", !.tries = 0, !.page = infos] \in OddsState
BY ZeroTries DEF OddsState

LEMMA PageEdit ==
    ASSUME NEW r \in ResState, NEW outs \in [Matches -> Outcomes \cup {NoOutcome}]
    PROVE  [r EXCEPT !.page = outs, !.pageNo = @ + 1, !.tries = 0] \in ResState
<1>1. PICK n \in Nat : n = r.pageNo + 1
  BY DEF ResState
<1>2. [r EXCEPT !.page = outs, !.pageNo = n, !.tries = 0] \in ResState
  BY ZeroTries DEF ResState
<1> QED
  BY <1>1, <1>2

LEMMA MatchEdit ==
    ASSUME NEW r \in ResState, NEW m \in Matches, NEW n \in {m, NoMatch}
    PROVE  [r EXCEPT !.page[m] = NoOutcome, !.match = n] \in ResState
BY DEF ResState

\* So do a pick made anew ...
LEMMA PickType ==
    ASSUME CrawlTypeOK, NEW k \in PickKeys, NEW c \in Codes, SetPick(k, c)
    PROVE  picks' \in [PickKeys -> Pick \cup {NoPick}]
<1>1. [code |-> c, grade |-> IF picks[k] = NoPick THEN "none" ELSE picks[k].grade] \in Pick
  BY DEF CrawlTypeOK, Pick
<1> QED
  BY <1>1 DEF SetPick, CrawlTypeOK

\* ... and the picks of a request.
LEMMA FavourType ==
    ASSUME NEW f \in [SubTypes -> PickCodes], NEW st \in SubTypes
    PROVE  f[st] \in Codes
BY CrawlAssumption

LEMMA AskedType ==
    ASSUME CrawlTypeOK, AskShape, NEW r \in Requests, NEW k \in asked[r].todo
    PROVE  /\ asked[r].pc = "pick" /\ k \in PickKeys /\ asked[r].match \in Matches
           /\ k[1] = Rule /\ k[2] = asked[r].match /\ k[3] \in SubTypes
           /\ k = <<Rule, asked[r].match, k[3]>>
           /\ asked[r].favour \in [SubTypes -> PickCodes] /\ asked[r].favour[k[3]] \in Codes
<1>1. k \in PickKeys /\ asked[r].pc = "pick"
  BY DEF CrawlTypeOK, AskState, AskShape
<1>2. k[3] \in SubTypes /\ k = <<k[1], k[2], k[3]>>
  BY <1>1 DEF PickKeys
<1>3. /\ k[1] = Rule /\ k[2] = asked[r].match /\ asked[r].match \in Matches
      /\ asked[r].favour \in [SubTypes -> PickCodes]
  BY <1>1 DEF AskShape
<1> QED
  BY <1>1, <1>2, <1>3, FavourType

\* What the site lists are bet_infos, of whichever of its two pages.
LEMMA OffersType == ASSUME NEW i \in Offers \cup {NoInfo} PROVE i \in Info \cup {NoInfo}
BY CrawlAssumption

LEMMA MergedType ==
    ASSUME NEW had \in Info \cup {NoInfo}, NEW i \in Info
    PROVE  Merged(had, i) \in Info /\ Merged(had, i) # NoInfo /\ Merged(had, i).line = i.line
<1>1. CASE had = NoInfo
  BY <1>1, CrawlAssumption DEF Merged, Info
<1>2. CASE had \in Info
  <2>1. [i.favour EXCEPT !["6"] = had.favour["6"]] \in [SubTypes -> PickCodes]
    BY <1>2 DEF Info, SubTypes
  <2>2. had # NoInfo
    BY <1>2, CrawlAssumption
  <2>3. i.line \in Lines \cup {NoLine}
    BY DEF Info
  <2>4. Merged(had, i) = [had |-> TRUE, line |-> i.line,
                          favour |-> [i.favour EXCEPT !["6"] = had.favour["6"]]]
    BY <2>2 DEF Merged
  <2>5. Merged(had, i) \in Info /\ Merged(had, i).line = i.line
    BY <2>1, <2>3, <2>4 DEF Info
  <2> QED
    BY <2>5, CrawlAssumption
<1> QED
  BY <1>1, <1>2

LEMMA ToldType ==
    ASSUME CrawlTypeOK, NEW m \in Matches, NEW o \in Outcomes, Tell(m, o)
    PROVE  /\ outcome' \in [Matches -> Outcomes \cup {NoOutcome}]
           /\ told' \in [Matches -> SUBSET Lines]
<1>1. {o.line} \ {NoLine} \subseteq Lines
  BY CrawlAssumption DEF Outcome
<1> QED
  BY <1>1 DEF Tell, CrawlTypeOK

\* Every step keeps the types ...
LEMMA CrawlTypeStep ==
    ASSUME CrawlTypeOK, AskShape, [CrawlNext]_crawlVars
    PROVE  CrawlTypeOK'
<1> USE CrawlAssumption
<1> USE DEF CrawlTypeOK, OddsState, ResState, siteVars, outsideVars, tableVars, faultVars, NoOdds, NoRes,
        NoInfos, NoOutcomes
<1>1. ASSUME NEW m \in Matches, NEW i \in Info \cup {NoInfo}, List(m, i) PROVE CrawlTypeOK'
  BY <1>1 DEF List
<1>2. ASSUME NEW m \in Matches, NEW o \in Outcomes, Finish(m, o) PROVE CrawlTypeOK'
  BY <1>2, ToldType DEF Finish
<1>3. ASSUME StartOdds PROVE CrawlTypeOK'
  BY <1>3 DEF StartOdds
<1>4. ASSUME OddsRetry PROVE CrawlTypeOK'
  BY <1>4 DEF OddsRetry
<1>5. ASSUME FetchHad PROVE CrawlTypeOK'
  <2> DEFINE had == [m \in Matches |->
                        IF listed[m] # NoInfo /\ listed[m].had
                        THEN [listed[m] EXCEPT !.line = NoLine] ELSE NoInfo]
  <2>1. \A i \in Info : [i EXCEPT !.line = NoLine] \in Info
    BY DEF Info
  <2>2. had \in [Matches -> Info \cup {NoInfo}]
    BY <2>1
  <2>3. odds' = [odds EXCEPT !.pc = "hhad", !.tries = 0, !.page = had]
    BY <1>5 DEF FetchHad
  <2> HIDE DEF had, OddsState, ResState
  <2>4. odds' \in OddsState
    BY <2>2, <2>3, OddsEdit
  <2> QED
    BY <1>5, <2>4 DEF FetchHad
<1>6. ASSUME HadFails PROVE CrawlTypeOK'
  BY <1>6 DEF HadFails
<1>7. ASSUME FetchHhad PROVE CrawlTypeOK'
  <2> DEFINE page == [m \in Matches |->
                         IF listed[m] # NoInfo /\ listed[m].line # NoLine
                         THEN Merged(odds.page[m], listed[m]) ELSE NoInfo]
  <2>1. page \in [Matches -> Info \cup {NoInfo}]
    BY MergedType
  <2>2. odds' = [odds EXCEPT !.pc = "upsert", !.page = page]
    BY <1>7 DEF FetchHhad
  <2> HIDE DEF page
  <2> QED
    BY <1>7, <2>1, <2>2 DEF FetchHhad
<1>8. ASSUME HhadFails PROVE CrawlTypeOK'
  BY <1>8 DEF HhadFails
<1>9. ASSUME NEW m \in Matches, UpsertMatch(m) PROVE CrawlTypeOK'
  <2> DEFINE i == odds.page[m]
  <2>1. i \in Info
    BY <1>9 DEF UpsertMatch
  <2>2. Pickers \X {m} \X Wagers(i) \subseteq PickKeys /\ blind' \in BOOLEAN
    BY <1>9 DEF UpsertMatch, Wagers, PickKeys
  <2>3. odds' = [odds EXCEPT !.page[m] = NoInfo, !.todo = Pickers \X {m} \X Wagers(i)]
    BY <1>9 DEF UpsertMatch
  <2>4. odds' \in OddsState
    BY <2>2, <2>3
  <2>5. {i.line} \ {NoLine} \subseteq Lines
    BY <2>1 DEF Info
  <2>6. offered' \in [Matches -> SUBSET Lines] /\ stored' \in [Matches -> Info \cup {NoInfo}]
    BY <1>9, <2>1, <2>5 DEF UpsertMatch
  <2> QED
    BY <1>9, <2>2, <2>4, <2>6 DEF UpsertMatch
<1>10. ASSUME NEW m \in Matches, UpsertMatchFails(m) PROVE CrawlTypeOK'
  BY <1>10 DEF UpsertMatchFails
<1>11. ASSUME NEW k \in PickKeys, NEW c \in PickCodes, UpsertPick(k, c) PROVE CrawlTypeOK'
  <2>2. picks' \in [PickKeys -> Pick \cup {NoPick}]
    BY <1>11, PickType DEF UpsertPick
  <2> QED
    BY <1>11, <2>2 DEF UpsertPick
<1>12. ASSUME NEW k \in PickKeys, UpsertPickFails(k) PROVE CrawlTypeOK'
  BY <1>12 DEF UpsertPickFails
<1>13. ASSUME OddsDone PROVE CrawlTypeOK'
  BY <1>13 DEF OddsDone
<1>14. ASSUME StartResults PROVE CrawlTypeOK'
  BY <1>14 DEF StartResults
<1>15. ASSUME ResultsRetry PROVE CrawlTypeOK'
  BY <1>15 DEF ResultsRetry
<1>16. ASSUME NEW ms \in SUBSET Matches, FetchFullPage(ms) PROVE CrawlTypeOK'
  <2>1. Have(ms) \in [Matches -> Outcomes \cup {NoOutcome}]
    BY DEF Have
  <2>2. res' = [res EXCEPT !.page = Have(ms), !.pageNo = @ + 1, !.tries = 0]
    BY <1>16 DEF FetchFullPage
  <2> HIDE DEF OddsState, ResState
  <2>3. res' \in ResState
    BY <2>1, <2>2, PageEdit
  <2> QED
    BY <1>16, <2>3 DEF FetchFullPage
<1>17. ASSUME FetchLastPage PROVE CrawlTypeOK'
  BY <1>17 DEF FetchLastPage, Have, Finished
<1>18. ASSUME FetchPageFails PROVE CrawlTypeOK'
  BY <1>18 DEF FetchPageFails
<1>19. ASSUME NEW m \in Matches, UpsertResult(m) PROVE CrawlTypeOK'
  <2> DEFINE o == res.page[m]
  <2>1. o \in Outcome
    BY <1>19 DEF UpsertResult
  <2>2. PICK line \in {StoredLine(m), NoLine} :
            /\ results' = [results EXCEPT ![m] =
                   [valid |-> o.valid, diff |-> o.diff, draw |-> Judged(o, line)]]
            /\ drawn' = [drawn EXCEPT ![m] = IF o.valid THEN @ \cup {Judged(o, line)} ELSE @]
            /\ readLost' = (readLost \/ line # StoredLine(m))
    BY <1>19 DEF UpsertResult
  <2>3. Judged(o, line) \in [SubTypes -> Codes \cup {NoCode}]
    BY <2>1, JudgedType, StoredLineType
  <2>4. drawn' \in [Matches -> SUBSET [SubTypes -> Codes \cup {NoCode}]]
    BY <2>2, <2>3
  <2>5. results' \in [Matches -> Result \cup {NoResult}] /\ readLost' \in BOOLEAN
    BY <2>1, <2>2, ResultType
  <2>6. res' \in ResState
    <3>1. PICK n \in {m, NoMatch} : res' = [res EXCEPT !.page[m] = NoOutcome, !.match = n]
      BY <1>19 DEF UpsertResult
    <3>2. res \in ResState
      OBVIOUS
    <3> HIDE DEF OddsState, ResState
    <3> QED
      BY <3>1, <3>2, MatchEdit
  <2> QED
    BY <1>19, <2>4, <2>5, <2>6 DEF UpsertResult
<1>20. ASSUME NEW m \in Matches, UpsertResultFails(m) PROVE CrawlTypeOK'
  BY <1>20 DEF UpsertResultFails
<1>21. ASSUME SettleMatch PROVE CrawlTypeOK'
  <2>1. picks' \in [PickKeys -> Pick \cup {NoPick}]
    BY <1>21, GradeType DEF SettleMatch
  <2>2. res' \in ResState
    BY <1>21 DEF SettleMatch
  <2> QED
    BY <1>21, <2>1, <2>2 DEF SettleMatch
<1>22. ASSUME ResultsDone PROVE CrawlTypeOK'
  BY <1>22 DEF ResultsDone
<1>23. ASSUME NEW m \in Matches, ApiSettle(m) PROVE CrawlTypeOK'
  BY <1>23, GradeType DEF ApiSettle
<1>24. ASSUME SpiderDies PROVE CrawlTypeOK'
  BY <1>24 DEF SpiderDies
<1>25. CASE UNCHANGED crawlVars
  BY <1>25 DEF crawlVars
<1>26. ASSUME NEW r \in Requests, NEW m \in Matches, AskPicks(r, m) PROVE CrawlTypeOK'
  <2>1. \A a \in AskState : [a EXCEPT !.pc = "match", !.match = m] \in AskState
    BY DEF AskState
  <2> QED
    BY <1>26, <2>1 DEF AskPicks
<1>27. ASSUME NEW r \in Requests, ReadMatch(r) PROVE CrawlTypeOK'
  <2> DEFINE m == asked[r].match
  <2>1. m \in Matches /\ stored[m] \in Info
    BY <1>27 DEF ReadMatch, AskShape
  <2>2. {Rule} \X {m} \X Wagers(stored[m]) \subseteq PickKeys
    BY <2>1 DEF Wagers, PickKeys, Pickers
  <2>3. [pc |-> "pick", match |-> m, favour |-> stored[m].favour,
         todo |-> {Rule} \X {m} \X Wagers(stored[m])] \in AskState
    BY <2>1, <2>2 DEF Info, AskState
  <2> QED
    BY <1>27, <2>3 DEF ReadMatch
<1>28. ASSUME NEW r \in Requests, NEW k \in PickKeys, AskedPick(r, k) PROVE CrawlTypeOK'
  <2>1. picks' \in [PickKeys -> Pick \cup {NoPick}]
    BY <1>28, PickType, AskedType DEF AskedPick
  <2>2. asked[r] \in AskState
    BY <1>28
  <2>3. [asked[r] EXCEPT !.todo = @ \ {k}] \in AskState
    BY <2>2 DEF AskState
  <2>4. asked' \in [Requests -> AskState]
    BY <1>28, <2>3 DEF AskedPick
  <2> QED
    BY <1>28, <2>1, <2>4 DEF AskedPick
<1>29. ASSUME NEW r \in Requests, Answer(r) PROVE CrawlTypeOK'
  <2>1. NoAsk \in AskState
    BY DEF NoAsk, AskState
  <2> QED
    BY <1>29, <2>1 DEF Answer
<1>30. ASSUME NEW m \in Matches, NEW o \in Outcomes, Correct(m, o) PROVE CrawlTypeOK'
  BY <1>30, ToldType DEF Correct
<1> QED
    BY <1>1, <1>2, <1>3, <1>4, <1>5, <1>6, <1>7, <1>8, <1>9, <1>10, <1>11, <1>12, <1>13,
     <1>14, <1>15, <1>16, <1>17, <1>18, <1>19, <1>20, <1>21, <1>22, <1>23, <1>24, <1>25,
     <1>26, <1>27, <1>28, <1>29, <1>30, OffersType
  DEF CrawlNext, Site, OddsStep, ResultsStep, AskStep

\* ... the one goroutine ...
LEMMA ShapeStep ==
    ASSUME CrawlTypeOK, ShapeOK, [CrawlNext]_crawlVars
    PROVE  ShapeOK'
<1> USE DEF ShapeOK, CrawlTypeOK, OddsState, ResState, siteVars, outsideVars, tableVars, faultVars, NoOdds, NoRes
<1>1. ASSUME NEW m \in Matches, NEW i \in Info \cup {NoInfo}, List(m, i) PROVE ShapeOK'
  BY <1>1 DEF List
<1>2. ASSUME NEW m \in Matches, NEW o \in Outcomes, Finish(m, o) PROVE ShapeOK'
  BY <1>2 DEF Finish
<1>3. ASSUME StartOdds PROVE ShapeOK'
  BY <1>3 DEF StartOdds
<1>4. ASSUME OddsRetry PROVE ShapeOK'
  BY <1>4 DEF OddsRetry
<1>5. ASSUME FetchHad PROVE ShapeOK'
  BY <1>5 DEF FetchHad
<1>6. ASSUME HadFails PROVE ShapeOK'
  BY <1>6 DEF HadFails
<1>7. ASSUME FetchHhad PROVE ShapeOK'
  BY <1>7 DEF FetchHhad
<1>8. ASSUME HhadFails PROVE ShapeOK'
  BY <1>8 DEF HhadFails
<1>9. ASSUME NEW m \in Matches, UpsertMatch(m) PROVE ShapeOK'
  BY <1>9 DEF UpsertMatch
<1>10. ASSUME NEW m \in Matches, UpsertMatchFails(m) PROVE ShapeOK'
  BY <1>10 DEF UpsertMatchFails
<1>11. ASSUME NEW k \in PickKeys, NEW c \in PickCodes, UpsertPick(k, c) PROVE ShapeOK'
  BY <1>11 DEF UpsertPick
<1>12. ASSUME NEW k \in PickKeys, UpsertPickFails(k) PROVE ShapeOK'
  BY <1>12 DEF UpsertPickFails
<1>13. ASSUME OddsDone PROVE ShapeOK'
  BY <1>13 DEF OddsDone
<1>14. ASSUME StartResults PROVE ShapeOK'
  BY <1>14 DEF StartResults
<1>15. ASSUME ResultsRetry PROVE ShapeOK'
  BY <1>15 DEF ResultsRetry
<1>16. ASSUME NEW ms \in SUBSET Matches, FetchFullPage(ms) PROVE ShapeOK'
  BY <1>16 DEF FetchFullPage, Have, Finished
<1>17. ASSUME FetchLastPage PROVE ShapeOK'
  BY <1>17 DEF FetchLastPage, Have, Finished
<1>18. ASSUME FetchPageFails PROVE ShapeOK'
  BY <1>18 DEF FetchPageFails
<1>19. ASSUME NEW m \in Matches, UpsertResult(m) PROVE ShapeOK'
  BY <1>19 DEF UpsertResult
<1>20. ASSUME NEW m \in Matches, UpsertResultFails(m) PROVE ShapeOK'
  BY <1>20 DEF UpsertResultFails
<1>21. ASSUME SettleMatch PROVE ShapeOK'
  BY <1>21 DEF SettleMatch
<1>22. ASSUME ResultsDone PROVE ShapeOK'
  BY <1>22 DEF ResultsDone
<1>23. ASSUME NEW m \in Matches, ApiSettle(m) PROVE ShapeOK'
  BY <1>23 DEF ApiSettle
<1>24. ASSUME SpiderDies PROVE ShapeOK'
  BY <1>24 DEF SpiderDies
<1>25. CASE UNCHANGED crawlVars
  BY <1>25 DEF crawlVars
<1>26. ASSUME NEW r \in Requests, NEW m \in Matches, AskPicks(r, m) PROVE ShapeOK'
  BY <1>26 DEF AskPicks
<1>27. ASSUME NEW r \in Requests, ReadMatch(r) PROVE ShapeOK'
  BY <1>27 DEF ReadMatch
<1>28. ASSUME NEW r \in Requests, NEW k \in PickKeys, AskedPick(r, k) PROVE ShapeOK'
  BY <1>28 DEF AskedPick
<1>29. ASSUME NEW r \in Requests, Answer(r) PROVE ShapeOK'
  BY <1>29 DEF Answer
<1>30. ASSUME NEW m \in Matches, NEW o \in Outcomes, Correct(m, o) PROVE ShapeOK'
  BY <1>30 DEF Correct
<1> QED
    BY <1>1, <1>2, <1>3, <1>4, <1>5, <1>6, <1>7, <1>8, <1>9, <1>10, <1>11, <1>12, <1>13,
     <1>14, <1>15, <1>16, <1>17, <1>18, <1>19, <1>20, <1>21, <1>22, <1>23, <1>24, <1>25,
     <1>26, <1>27, <1>28, <1>29, <1>30, OffersType
  DEF CrawlNext, Site, OddsStep, ResultsStep, AskStep

\* ... the stored lines ...
LEMMA LinesStep ==
    ASSUME CrawlTypeOK, ShapeOK, LinesOK, [CrawlNext]_crawlVars
    PROVE  LinesOK'
<1> USE CrawlAssumption
<1> USE DEF LinesOK, StoredLine, siteVars, outsideVars, tableVars, faultVars, NoOdds, CrawlTypeOK, OddsState, ResState
<1>1. ASSUME NEW m \in Matches, NEW i \in Info \cup {NoInfo}, List(m, i) PROVE LinesOK'
  BY <1>1 DEF List
<1>2. ASSUME NEW m \in Matches, NEW o \in Outcomes, Finish(m, o) PROVE LinesOK'
  BY <1>2 DEF Finish
<1>3. ASSUME StartOdds PROVE LinesOK'
  BY <1>3 DEF StartOdds
<1>4. ASSUME OddsRetry PROVE LinesOK'
  BY <1>4 DEF OddsRetry
<1>5. ASSUME FetchHad PROVE LinesOK'
  BY <1>5 DEF FetchHad
<1>6. ASSUME HadFails PROVE LinesOK'
  BY <1>6 DEF HadFails
<1>7. ASSUME FetchHhad PROVE LinesOK'
  BY <1>7, MergedType DEF FetchHhad
<1>8. ASSUME HhadFails PROVE LinesOK'
  BY <1>8 DEF HhadFails
<1>9. ASSUME NEW m \in Matches, UpsertMatch(m) PROVE LinesOK'
  BY <1>9 DEF UpsertMatch
<1>10. ASSUME NEW m \in Matches, UpsertMatchFails(m) PROVE LinesOK'
  BY <1>10 DEF UpsertMatchFails
<1>11. ASSUME NEW k \in PickKeys, NEW c \in PickCodes, UpsertPick(k, c) PROVE LinesOK'
  BY <1>11 DEF UpsertPick
<1>12. ASSUME NEW k \in PickKeys, UpsertPickFails(k) PROVE LinesOK'
  BY <1>12 DEF UpsertPickFails
<1>13. ASSUME OddsDone PROVE LinesOK'
  BY <1>13 DEF OddsDone
<1>14. ASSUME StartResults PROVE LinesOK'
  BY <1>14 DEF StartResults
<1>15. ASSUME ResultsRetry PROVE LinesOK'
  BY <1>15 DEF ResultsRetry
<1>16. ASSUME NEW ms \in SUBSET Matches, FetchFullPage(ms) PROVE LinesOK'
  BY <1>16 DEF FetchFullPage, Have, Finished
<1>17. ASSUME FetchLastPage PROVE LinesOK'
  BY <1>17 DEF FetchLastPage, Have, Finished
<1>18. ASSUME FetchPageFails PROVE LinesOK'
  BY <1>18 DEF FetchPageFails
<1>19. ASSUME NEW m \in Matches, UpsertResult(m) PROVE LinesOK'
  BY <1>19 DEF UpsertResult
<1>20. ASSUME NEW m \in Matches, UpsertResultFails(m) PROVE LinesOK'
  BY <1>20 DEF UpsertResultFails
<1>21. ASSUME SettleMatch PROVE LinesOK'
  BY <1>21 DEF SettleMatch
<1>22. ASSUME ResultsDone PROVE LinesOK'
  BY <1>22 DEF ResultsDone
<1>23. ASSUME NEW m \in Matches, ApiSettle(m) PROVE LinesOK'
  BY <1>23 DEF ApiSettle
<1>24. ASSUME SpiderDies PROVE LinesOK'
  BY <1>24 DEF SpiderDies
<1>25. CASE UNCHANGED crawlVars
  BY <1>25 DEF crawlVars
<1>26. ASSUME NEW r \in Requests, NEW m \in Matches, AskPicks(r, m) PROVE LinesOK'
  BY <1>26 DEF AskPicks
<1>27. ASSUME NEW r \in Requests, ReadMatch(r) PROVE LinesOK'
  BY <1>27 DEF ReadMatch
<1>28. ASSUME NEW r \in Requests, NEW k \in PickKeys, AskedPick(r, k) PROVE LinesOK'
  BY <1>28 DEF AskedPick
<1>29. ASSUME NEW r \in Requests, Answer(r) PROVE LinesOK'
  BY <1>29 DEF Answer
<1>30. ASSUME NEW m \in Matches, NEW o \in Outcomes, Correct(m, o) PROVE LinesOK'
  BY <1>30 DEF Correct
<1> QED
    BY <1>1, <1>2, <1>3, <1>4, <1>5, <1>6, <1>7, <1>8, <1>9, <1>10, <1>11, <1>12, <1>13,
     <1>14, <1>15, <1>16, <1>17, <1>18, <1>19, <1>20, <1>21, <1>22, <1>23, <1>24, <1>25,
     <1>26, <1>27, <1>28, <1>29, <1>30, OffersType
  DEF CrawlNext, Site, OddsStep, ResultsStep, AskStep

\* What the site says of one match, it says, and nothing of the others.
LEMMA OutcomeTold ==
    ASSUME CrawlTypeOK, NEW m \in Matches, NEW o \in Outcomes, Tell(m, o), NEW n \in Matches
    PROVE  /\ told[n] \subseteq told'[n]
           /\ n # m => outcome'[n] = outcome[n]
           /\ outcome'[m] = o /\ o # NoOutcome
           /\ o.line # NoLine => o.line \in told'[m]
BY CrawlAssumption DEF Tell, CrawlTypeOK

\* ... the results ...
LEMMA ResultsKept ==
    ASSUME CrawlTypeOK, ShapeOK, ResultsOK, [CrawlNext]_crawlVars
    PROVE  ResultsOK'
<1> USE CrawlAssumption
<1> USE DEF ResultsOK, ResultFrom, StoredLine, ShapeOK, CrawlTypeOK, OddsState,
        ResState, siteVars, outsideVars, tableVars, faultVars, NoOdds, NoRes, NoInfos, NoOutcomes
<1>1. ASSUME NEW m \in Matches, NEW i \in Info \cup {NoInfo}, List(m, i) PROVE ResultsOK'
  BY <1>1 DEF List
<1>2. ASSUME NEW m \in Matches, NEW o \in Outcomes, Finish(m, o) PROVE ResultsOK'
  BY <1>2, OutcomeTold DEF Finish
<1>3. ASSUME StartOdds PROVE ResultsOK'
  BY <1>3 DEF StartOdds
<1>4. ASSUME OddsRetry PROVE ResultsOK'
  BY <1>4 DEF OddsRetry
<1>5. ASSUME FetchHad PROVE ResultsOK'
  BY <1>5 DEF FetchHad
<1>6. ASSUME HadFails PROVE ResultsOK'
  BY <1>6 DEF HadFails
<1>7. ASSUME FetchHhad PROVE ResultsOK'
  BY <1>7 DEF FetchHhad
<1>8. ASSUME HhadFails PROVE ResultsOK'
  BY <1>8 DEF HhadFails
<1>9. ASSUME NEW m \in Matches, UpsertMatch(m) PROVE ResultsOK'
  BY <1>9 DEF UpsertMatch
<1>10. ASSUME NEW m \in Matches, UpsertMatchFails(m) PROVE ResultsOK'
  BY <1>10 DEF UpsertMatchFails
<1>11. ASSUME NEW k \in PickKeys, NEW c \in PickCodes, UpsertPick(k, c) PROVE ResultsOK'
  BY <1>11 DEF UpsertPick
<1>12. ASSUME NEW k \in PickKeys, UpsertPickFails(k) PROVE ResultsOK'
  BY <1>12 DEF UpsertPickFails
<1>13. ASSUME OddsDone PROVE ResultsOK'
  BY <1>13 DEF OddsDone
<1>14. ASSUME StartResults PROVE ResultsOK'
  BY <1>14 DEF StartResults
<1>15. ASSUME ResultsRetry PROVE ResultsOK'
  BY <1>15 DEF ResultsRetry
<1>16. ASSUME NEW ms \in SUBSET Matches, FetchFullPage(ms) PROVE ResultsOK'
  BY <1>16 DEF FetchFullPage, Have, Finished
<1>17. ASSUME FetchLastPage PROVE ResultsOK'
  BY <1>17 DEF FetchLastPage, Have, Finished
<1>18. ASSUME FetchPageFails PROVE ResultsOK'
  BY <1>18 DEF FetchPageFails
<1>19. ASSUME NEW m \in Matches, UpsertResult(m) PROVE ResultsOK'
  <2>0. PICK o \in Outcomes : o = res.page[m] /\ o # NoOutcome
    BY <1>19 DEF UpsertResult
  <2>1. /\ outcome[m] # NoOutcome
        /\ o.line # NoLine => o.line \in told[m]
        /\ odds.page[m] = NoInfo /\ odds.todo = {}
    BY <1>19, <2>0 DEF UpsertResult
  <2>2. PICK line \in {StoredLine(m), NoLine} :
            /\ results' = [results EXCEPT ![m] =
                   [valid |-> o.valid, diff |-> o.diff, draw |-> Judged(o, line)]]
            /\ drawn' = [drawn EXCEPT ![m] = IF o.valid THEN @ \cup {Judged(o, line)} ELSE @]
            /\ readLost' = (readLost \/ line # StoredLine(m))
    BY <1>19, <2>0 DEF UpsertResult
  <2>4. /\ UNCHANGED <<listed, outcome, told, odds, stored>>
        /\ res'.page = [res.page EXCEPT ![m] = NoOutcome]
        /\ res'.match = IF o.valid THEN m ELSE NoMatch
    BY <1>19, <2>0 DEF UpsertResult
  <2>5. \A n \in Matches : StoredLine(n)' = StoredLine(n)
    BY <2>4
  <2>6. /\ results'[m] # NoResult /\ ResultFrom(m, o, line)' /\ (~readLost' => line = StoredLine(m))
        /\ o.valid => results'[m].draw \in drawn'[m]
    <3>1. results'[m].draw = Judged(o, line) /\ results'[m].diff = o.diff
      BY <2>2
    <3>2. o.valid => Judged(o, line) \in drawn'[m]
      BY <2>2
    <3>3. results'[m] # NoResult
      BY <1>19, ResultMade
    <3>4. ResultFrom(m, o, line)'
      BY <2>1, <2>4, <3>1
    <3>5. ~readLost' => line = StoredLine(m)
      BY <2>2
    <3> HIDE DEF ResultFrom, StoredLine
    <3> QED
      BY <3>1, <3>2, <3>3, <3>4, <3>5
  <2>7. \A n \in Matches \ {m} :
            /\ results'[n] = results[n] /\ drawn'[n] = drawn[n]
            /\ ~readLost' => ~readLost
            /\ \A q, l : ResultFrom(n, q, l) => ResultFrom(n, q, l)'
    BY <2>2, <2>4
  <2>8. res'.match = m => o.valid
    BY <2>4
  <2>9. \A n \in Matches : res'.page[n] # NoOutcome => res'.page[n] = res.page[n]
    BY <2>4
  <2>10. res'.match # NoMatch => res'.match = m
    BY <2>4
  <2> HIDE DEF StoredLine, ResultFrom
  <2> QED
    BY <2>1, <2>2, <2>4, <2>5, <2>6, <2>7, <2>8, <2>9, <2>10
<1>20. ASSUME NEW m \in Matches, UpsertResultFails(m) PROVE ResultsOK'
  BY <1>20 DEF UpsertResultFails
<1>21. ASSUME SettleMatch PROVE ResultsOK'
  BY <1>21 DEF SettleMatch
<1>22. ASSUME ResultsDone PROVE ResultsOK'
  BY <1>22 DEF ResultsDone
<1>23. ASSUME NEW m \in Matches, ApiSettle(m) PROVE ResultsOK'
  BY <1>23 DEF ApiSettle
<1>24. ASSUME SpiderDies PROVE ResultsOK'
  BY <1>24 DEF SpiderDies
<1>25. CASE UNCHANGED crawlVars
  BY <1>25 DEF crawlVars
<1>26. ASSUME NEW r \in Requests, NEW m \in Matches, AskPicks(r, m) PROVE ResultsOK'
  BY <1>26 DEF AskPicks
<1>27. ASSUME NEW r \in Requests, ReadMatch(r) PROVE ResultsOK'
  BY <1>27 DEF ReadMatch
<1>28. ASSUME NEW r \in Requests, NEW k \in PickKeys, AskedPick(r, k) PROVE ResultsOK'
  BY <1>28 DEF AskedPick
<1>29. ASSUME NEW r \in Requests, Answer(r) PROVE ResultsOK'
  BY <1>29 DEF Answer
<1>30. ASSUME NEW m \in Matches, NEW o \in Outcomes, Correct(m, o) PROVE ResultsOK'
  BY <1>30, OutcomeTold DEF Correct
<1> QED
    BY <1>1, <1>2, <1>3, <1>4, <1>5, <1>6, <1>7, <1>8, <1>9, <1>10, <1>11, <1>12, <1>13,
     <1>14, <1>15, <1>16, <1>17, <1>18, <1>19, <1>20, <1>21, <1>22, <1>23, <1>24, <1>25,
     <1>26, <1>27, <1>28, <1>29, <1>30, OffersType
  DEF CrawlNext, Site, OddsStep, ResultsStep, AskStep

\* Which steps the picks, the requests and the stored matches see.
LEMMA StepKinds ==
    ASSUME CrawlTypeOK, ResultsOK, [CrawlNext]_crawlVars
    PROVE  \/ UNCHANGED <<asked, picks, stored, blind>>
           \/ \E m \in Matches : UpsertMatch(m) /\ UNCHANGED asked
           \/ \E k \in PickKeys, c \in PickCodes : UpsertPick(k, c) /\ UNCHANGED asked
           \/ \E m \in Matches : \E draw \in drawn[m], part \in SUBSET Updates :
                  Grade(m, draw, part) /\ UNCHANGED <<asked, stored, blind>>
           \/ \E r \in Requests : AskStep(r)
<1> USE DEF siteVars, outsideVars, tableVars, faultVars
<1>1. CASE Site \/ StartOdds \/ StartResults \/ SpiderDies
  BY <1>1 DEF Site, List, Finish, Correct, StartOdds, StartResults, SpiderDies
<1>2. CASE OddsStep
  BY <1>2 DEF OddsStep, OddsRetry, FetchHad, HadFails, FetchHhad, HhadFails, UpsertMatch,
     UpsertMatchFails, UpsertPick, UpsertPickFails, OddsDone
<1>3. CASE ResultsStep
  <2>1. CASE SettleMatch
    <3>1. res.match \in Matches
      BY <2>1 DEF SettleMatch, CrawlTypeOK, ResState
    <3> QED
      BY <2>1, <3>1 DEF SettleMatch, ResultsOK
  <2> QED
    BY <1>3, <2>1 DEF ResultsStep, ResultsRetry, FetchFullPage, FetchLastPage, FetchPageFails,
       UpsertResult, UpsertResultFails, ResultsDone
<1>4. CASE \E m \in Matches : ApiSettle(m)
  BY <1>4 DEF ApiSettle
<1>5. CASE UNCHANGED crawlVars
  BY <1>5 DEF crawlVars
<1> QED
  BY <1>1, <1>2, <1>3, <1>4, <1>5 DEF CrawlNext

LEMMA AskedKey ==
    ASSUME AskShape, NEW r \in Requests, asked[r].pc # "idle", NEW st \in SubTypes
    PROVE  <<Rule, asked[r].match, st>> \in PickKeys
BY DEF AskShape, PickKeys, Pickers

\* A grade changes no pick, and no grade.
LEMMA GradeKeeps ==
    ASSUME CrawlTypeOK, NEW m \in Matches, NEW draw, NEW part, Grade(m, draw, part), NEW k \in PickKeys
    PROVE  \/ picks'[k] = picks[k]
           \/ /\ picks[k] # NoPick /\ picks[k].grade = "none" /\ k[2] = m /\ draw[k[3]] # NoCode
              /\ picks'[k].code = picks[k].code
              /\ picks'[k].grade = IF picks[k].code = draw[k[3]] THEN "right" ELSE "wrong"
<1>1. CASE picks'[k] = picks[k]
  BY <1>1
<1>2. CASE /\ k[2] = m /\ UpdateOf(k) \in part /\ picks[k] # NoPick /\ picks[k].grade = "none"
           /\ draw[k[3]] # NoCode
  <2>1. PICK g \in {"right", "wrong"} : g = IF picks[k].code = draw[k[3]] THEN "right" ELSE "wrong"
    OBVIOUS
  <2>2. picks'[k] = [picks[k] EXCEPT !.grade = g]
    BY <1>2, <2>1 DEF Grade
  <2>3. picks[k] \in Pick
    BY <1>2 DEF CrawlTypeOK
  <2> QED
    BY <1>2, <2>1, <2>2, <2>3 DEF Pick
<1> QED
  BY <1>1, <1>2 DEF Grade

\* ... what the requests are about ...
LEMMA AskShapeStep ==
    ASSUME CrawlTypeOK, ResultsOK, AskShape, [CrawlNext]_crawlVars
    PROVE  AskShape'
<1> USE DEF AskShape
<1>1. CASE UNCHANGED asked
  BY <1>1
<1>2. ASSUME NEW r \in Requests, NEW m \in Matches, AskPicks(r, m) PROVE AskShape'
  <2>1. /\ asked'[r].pc = "match" /\ asked'[r].match = m /\ asked'[r].todo = asked[r].todo
        /\ asked[r].pc = "idle" /\ \A q \in Requests \ {r} : asked'[q] = asked[q]
    BY <1>2 DEF AskPicks, CrawlTypeOK, AskState
  <2> QED
    BY <2>1
<1>3. ASSUME NEW r \in Requests, ReadMatch(r) PROVE AskShape'
  <2> DEFINE m == asked[r].match
  <2>1. m \in Matches /\ stored[m] \in Info
    BY <1>3 DEF ReadMatch, CrawlTypeOK
  <2>2. stored[m].favour \in [SubTypes -> PickCodes]
    BY <2>1 DEF Info
  <2>3. asked' = [asked EXCEPT ![r] = [pc |-> "pick", match |-> m, favour |-> stored[m].favour,
                                     todo |-> {Rule} \X {m} \X Wagers(stored[m])]]
    BY <1>3 DEF ReadMatch
  <2> QED
    BY <2>1, <2>2, <2>3 DEF CrawlTypeOK
<1>4. ASSUME NEW r \in Requests, NEW k \in PickKeys, AskedPick(r, k) PROVE AskShape'
  <2>2. /\ asked'[r].pc = asked[r].pc /\ asked'[r].match = asked[r].match
        /\ asked'[r].favour = asked[r].favour /\ asked'[r].todo = asked[r].todo \ {k}
        /\ \A q \in Requests \ {r} : asked'[q] = asked[q]
    BY <1>4 DEF AskedPick, CrawlTypeOK, AskState
  <2> QED
    BY <2>2
<1>5. ASSUME NEW r \in Requests, Answer(r) PROVE AskShape'
  BY <1>5 DEF Answer, NoAsk, CrawlTypeOK
<1> QED
  BY <1>1, <1>2, <1>3, <1>4, <1>5, StepKinds DEF AskStep

\* ... and see ...
LEMMA AskSeesStep ==
    ASSUME CrawlTypeOK, ResultsOK, AskShape, AskSees, [CrawlNext]_crawlVars
    PROVE  AskSees'
<1> USE DEF AskSees
<1>1. CASE UNCHANGED <<asked, picks, stored, blind>>
  BY <1>1
<1>2. ASSUME NEW m \in Matches, UpsertMatch(m) PROVE AskSees'
  <2> SUFFICES ASSUME ~blind' PROVE AskSees'
    OBVIOUS
  <2>1. ~blind /\ \A r \in Requests : asked[r].match # m
    BY <1>2 DEF UpsertMatch
  <2>2. UNCHANGED <<asked, picks>> /\ \A n \in Matches \ {m} : stored'[n] = stored[n]
    BY <1>2 DEF UpsertMatch, outsideVars, CrawlTypeOK
  <2>3. \A r \in Requests : asked[r].pc # "idle" => asked[r].match \in Matches \ {m}
    BY <2>1 DEF AskShape
  <2> QED
    BY <2>1, <2>2, <2>3
<1>3. ASSUME NEW k \in PickKeys, NEW c \in PickCodes, UpsertPick(k, c) PROVE AskSees'
  <2>1. UNCHANGED <<asked, stored, blind>>
    BY <1>3 DEF UpsertPick, outsideVars, faultVars
  <2>2. \A j \in PickKeys : j[1] = Rule =>
            picks'[j] = picks[j] \/ picks'[j].code = stored[j[2]].favour[j[3]]
    BY <1>3 DEF UpsertPick, SetPick, CrawlTypeOK
  <2> QED
    BY <2>1, <2>2, AskedKey
<1>4. ASSUME NEW m \in Matches, NEW draw, NEW part, Grade(m, draw, part), UNCHANGED <<asked, stored, blind>>
      PROVE  AskSees'
  <2>1. \A j \in PickKeys : /\ picks'[j] # NoPick => picks[j] # NoPick
                            /\ picks[j] # NoPick => picks'[j].code = picks[j].code
    BY <1>4, GradeKeeps
  <2> QED
    BY <1>4, <2>1, AskedKey
<1>5. ASSUME NEW r \in Requests, NEW m \in Matches, AskPicks(r, m) PROVE AskSees'
  <2> SUFFICES ASSUME ~blind' PROVE AskSees'
    OBVIOUS
  <2>1. ~blind /\ \A st \in SubTypes : picks[<<Rule, m, st>>] = NoPick
    BY <1>5 DEF AskPicks
  <2>2. /\ asked'[r].match = m /\ asked'[r].pc = "match"
        /\ \A q \in Requests \ {r} : asked'[q] = asked[q]
        /\ UNCHANGED <<picks, stored>>
    BY <1>5 DEF AskPicks, CrawlTypeOK, AskState, tableVars
  <2> QED
    BY <2>1, <2>2
<1>6. ASSUME NEW r \in Requests, ReadMatch(r) PROVE AskSees'
  <2>1. /\ asked'[r].match = asked[r].match /\ asked'[r].pc = "pick" /\ asked[r].pc = "match"
        /\ asked'[r].favour = stored[asked[r].match].favour
        /\ \A q \in Requests \ {r} : asked'[q] = asked[q]
        /\ UNCHANGED <<picks, stored, blind>>
    BY <1>6 DEF ReadMatch, CrawlTypeOK, tableVars, faultVars
  <2> QED
    BY <2>1
<1>7. ASSUME NEW r \in Requests, NEW k \in PickKeys, AskedPick(r, k) PROVE AskSees'
  <2>1. /\ k = <<Rule, asked[r].match, k[3]>> /\ k[3] \in SubTypes /\ k[2] = asked[r].match
        /\ asked[r].pc = "pick"
    BY <1>7, AskedType DEF AskedPick
  <2>2. UNCHANGED <<stored, blind>>
    BY <1>7 DEF AskedPick, faultVars
  <2>3. \A q \in Requests : /\ asked'[q].pc = asked[q].pc /\ asked'[q].match = asked[q].match
                            /\ asked'[q].favour = asked[q].favour
    BY <1>7 DEF AskedPick, CrawlTypeOK, AskState
  <2>4. \A j \in PickKeys : picks'[j] = picks[j] \/ (j = k /\ picks'[j].code = asked[r].favour[k[3]])
    BY <1>7 DEF AskedPick, SetPick, CrawlTypeOK
  <2>5. ~blind => asked[r].favour = stored[k[2]].favour
    BY <2>1
  <2>6. ~blind => \A j \in PickKeys :
            picks'[j] = picks[j] \/ picks'[j].code = stored[j[2]].favour[j[3]]
    BY <2>4, <2>5
  <2> QED
    BY <2>2, <2>3, <2>6, AskedKey
<1>8. ASSUME NEW r \in Requests, Answer(r) PROVE AskSees'
  <2>1. /\ asked'[r].pc = "idle" /\ \A q \in Requests \ {r} : asked'[q] = asked[q]
        /\ UNCHANGED <<picks, stored, blind>>
    BY <1>8 DEF Answer, NoAsk, CrawlTypeOK, tableVars, faultVars
  <2> QED
    BY <2>1
<1> QED
  BY <1>1, <1>2, <1>3, <1>4, <1>5, <1>6, <1>7, <1>8, StepKinds DEF AskStep

\* ... and the grades.  Of a pick a step leaves alone what is graded: the spider picks no
\* more of a match that has a result, and a request picks what it saw picked; or it grades
\* by a draw that was stored as valid.
LEMMA PickSteps ==
    ASSUME CrawlInv, [CrawlNext]_crawlVars, NEW k \in PickKeys
    PROVE  \/ blind /\ k[1] = Rule
           \/ picks'[k] = picks[k]
           \/ /\ picks[k] # NoPick => picks[k].grade = "none"
              /\ picks'[k].grade = "none"
           \/ /\ picks[k] # NoPick /\ picks[k].grade = "none"
              /\ \E draw \in drawn[k[2]] :
                    /\ draw[k[3]] # NoCode
                    /\ picks'[k].grade = IF picks'[k].code = draw[k[3]] THEN "right" ELSE "wrong"
<1>1. CrawlTypeOK /\ ResultsOK /\ AskShape /\ AskSees /\ GradesJustified
  BY DEF CrawlInv
<1>2. CASE UNCHANGED picks
  BY <1>2
<1>3. ASSUME NEW j \in PickKeys, NEW c \in PickCodes, UpsertPick(j, c)
      PROVE  \/ blind /\ k[1] = Rule
             \/ picks'[k] = picks[k]
             \/ (picks[k] # NoPick => picks[k].grade = "none") /\ picks'[k].grade = "none"
  <2>1. j # k => picks'[k] = picks[k]
    BY <1>1, <1>3 DEF UpsertPick, SetPick, CrawlTypeOK
  <2>2. picks'[j].grade = IF picks[j] = NoPick THEN "none" ELSE picks[j].grade
    BY <1>1, <1>3 DEF UpsertPick, SetPick, CrawlTypeOK
  <2>3. drawn[j[2]] = {}
    BY <1>1, <1>3 DEF UpsertPick, ResultsOK, PickKeys
  <2>4. ~Graded(j)
    BY <1>1, <2>3 DEF GradesJustified
  <2> QED
    BY <2>1, <2>2, <2>4 DEF Graded
<1>4. ASSUME NEW m \in Matches, NEW draw \in drawn[m], NEW part, Grade(m, draw, part)
      PROVE  \/ picks'[k] = picks[k]
             \/ /\ picks[k] # NoPick /\ picks[k].grade = "none"
                /\ \E d \in drawn[k[2]] :
                      /\ d[k[3]] # NoCode
                      /\ picks'[k].grade = IF picks'[k].code = d[k[3]] THEN "right" ELSE "wrong"
  BY <1>1, <1>4, GradeKeeps
<1>5. ASSUME NEW r \in Requests, NEW j \in PickKeys, AskedPick(r, j)
      PROVE  \/ blind /\ k[1] = Rule
             \/ picks'[k] = picks[k]
             \/ (picks[k] # NoPick => picks[k].grade = "none") /\ picks'[k].grade = "none"
  <2>1. /\ j = <<Rule, asked[r].match, j[3]>> /\ j[3] \in SubTypes /\ j[1] = Rule
        /\ asked[r].pc = "pick"
    BY <1>1, <1>5, AskedType DEF AskedPick
  <2>2. ~blind /\ picks[j] # NoPick => picks[j].code = asked[r].favour[j[3]]
    BY <1>1, <2>1 DEF AskSees
  <2>3. /\ picks'[j] = [code |-> asked[r].favour[j[3]],
                        grade |-> IF picks[j] = NoPick THEN "none" ELSE picks[j].grade]
        /\ j # k => picks'[k] = picks[k]
    BY <1>1, <1>5 DEF AskedPick, SetPick, CrawlTypeOK
  <2>4. picks[j] # NoPick => picks[j] = [code |-> picks[j].code, grade |-> picks[j].grade]
    BY <1>1 DEF CrawlTypeOK, Pick
  <2> QED
    BY <2>1, <2>2, <2>3, <2>4
<1>6. CASE \E r \in Requests : AskStep(r)
  BY <1>2, <1>5, <1>6 DEF AskStep, AskPicks, ReadMatch, Answer, tableVars
<1>7. CASE \E m \in Matches : UpsertMatch(m)
  BY <1>2, <1>7 DEF UpsertMatch
<1> QED
  BY <1>1, <1>2, <1>3, <1>4, <1>6, <1>7, StepKinds

\* Nothing takes back a draw that was stored as valid, nor what a request failed to see.
LEMMA DrawnKept ==
    ASSUME CrawlTypeOK, [CrawlNext]_crawlVars
    PROVE  (\A m \in Matches : drawn[m] \subseteq drawn'[m]) /\ (blind => blind')
<1> USE DEF siteVars, outsideVars, tableVars, faultVars
<1>1. CASE UNCHANGED <<drawn, blind>>
  BY <1>1
<1>2. CASE Site \/ StartOdds \/ StartResults \/ SpiderDies \/ UNCHANGED crawlVars
  BY <1>1, <1>2 DEF Site, List, Finish, Correct, StartOdds, StartResults, SpiderDies, crawlVars
<1>3. CASE OddsStep
  <2>1. drawn' = drawn
    BY <1>3 DEF OddsStep, OddsRetry, FetchHad, HadFails, FetchHhad, HhadFails, UpsertMatch,
       UpsertMatchFails, UpsertPick, UpsertPickFails, OddsDone
  <2>2. blind => blind'
    BY <1>3 DEF OddsStep, OddsRetry, FetchHad, HadFails, FetchHhad, HhadFails, UpsertMatch,
       UpsertMatchFails, UpsertPick, UpsertPickFails, OddsDone
  <2> QED
    BY <2>1, <2>2
<1>4. ASSUME NEW m \in Matches, UpsertResult(m)
      PROVE  (\A n \in Matches : drawn[n] \subseteq drawn'[n]) /\ (blind => blind')
  <2>1. \E line : drawn' = [drawn EXCEPT ![m] =
                              IF res.page[m].valid THEN @ \cup {Judged(res.page[m], line)} ELSE @]
    BY <1>4 DEF UpsertResult
  <2>2. blind' = blind
    BY <1>4 DEF UpsertResult
  <2> QED
    BY <2>1, <2>2 DEF CrawlTypeOK
<1>5. CASE ResultsStep
  BY <1>1, <1>4, <1>5 DEF ResultsStep, ResultsRetry, FetchFullPage, FetchLastPage, FetchPageFails,
     UpsertResultFails, SettleMatch, ResultsDone
<1>6. CASE (\E m \in Matches : ApiSettle(m)) \/ (\E r \in Requests : AskStep(r))
  <2>1. drawn' = drawn
    BY <1>6 DEF ApiSettle, AskStep, AskPicks, ReadMatch, AskedPick, Answer
  <2>2. blind => blind'
    BY <1>6 DEF ApiSettle, AskStep, AskPicks, ReadMatch, AskedPick, Answer
  <2> QED
    BY <2>1, <2>2
<1> QED
  BY <1>2, <1>3, <1>5, <1>6 DEF CrawlNext

LEMMA GradesStep ==
    ASSUME CrawlInv, [CrawlNext]_crawlVars
    PROVE  GradesJustified'
<1> SUFFICES ASSUME NEW k \in PickKeys, Graded(k)'
             PROVE  \E draw \in drawn'[k[2]] :
                        draw[k[3]] # NoCode /\ (picks'[k].grade = "right" <=> picks'[k].code = draw[k[3]])
  BY DEF GradesJustified
<1>1. k[2] \in Matches /\ drawn[k[2]] \subseteq drawn'[k[2]] /\ ~(blind /\ k[1] = Rule)
  BY DrawnKept DEF CrawlInv, Graded, PickKeys
<1>2. CASE picks'[k] = picks[k]
  BY <1>1, <1>2 DEF CrawlInv, GradesJustified, Graded
<1> QED
  BY <1>1, <1>2, PickSteps DEF Graded

-----------------------------------------------------------------------------
(* The theorems                                                            *)

\* Nothing is listed, stored, judged or graded at first.
LEMMA CrawlInitInv == CrawlInit => CrawlInv
<1> SUFFICES ASSUME CrawlInit PROVE CrawlInv
  OBVIOUS
<1> USE CrawlAssumption DEF CrawlInit, NoOdds, NoRes, NoInfos, NoOutcomes
<1>1. CrawlTypeOK
  <2>1. odds \in OddsState
    BY ZeroTries DEF OddsState
  <2>2. res \in ResState
    BY ZeroTries DEF ResState
  <2> QED
    BY <2>1, <2>2 DEF CrawlTypeOK, NoAsk, AskState
<1>2. ShapeOK
  BY DEF ShapeOK
<1>3. LinesOK
  BY DEF LinesOK, StoredLine
<1>4. ResultsOK
  BY DEF ResultsOK
<1>5. GradesJustified
  BY DEF GradesJustified, Graded
<1>6. AskShape /\ AskSees
  BY DEF AskShape, AskSees, NoAsk
<1> QED
  BY <1>1, <1>2, <1>3, <1>4, <1>5, <1>6 DEF CrawlInv

\* The invariant holds in every reachable state.
LEMMA CrawlInvariant == CrawlSpec => []CrawlInv
<1>1. CrawlInv /\ [CrawlNext]_crawlVars => CrawlInv'
  BY CrawlTypeStep, ShapeStep, LinesStep, ResultsKept, AskShapeStep, AskSeesStep,
     GradesStep DEF CrawlInv
<1> QED
  BY <1>1, CrawlInitInv, PTL DEF CrawlSpec

\* Type correctness of both crawls and the tables they write.
THEOREM CrawlTypeCorrect == CrawlSpec => []CrawlTypeOK
<1>1. CrawlInv => CrawlTypeOK
  BY DEF CrawlInv
<1> QED
  BY <1>1, CrawlInvariant, PTL

\* The draw of a handicap that was offered, if it has one, is by a line the site gave.
LEMMA DrawByLine ==
    ASSUME CrawlInv, NEW m \in Matches, results[m] # NoResult, results[m].draw["1"] # NoCode
    PROVE  \E line \in offered[m] \cup told[m] :
               results[m].draw["1"] = CalcHHAD(results[m].diff, line)
<1>1. PICK o \in Outcomes, line \in {StoredLine(m), NoLine} : ResultFrom(m, o, line)
  BY DEF CrawlInv, ResultsOK
<1>2. line # NoLine => line \in offered[m]
  BY <1>1 DEF CrawlInv, LinesOK
<1>3. CASE PageDraw(o)["1"] = NoCode
  <2>1. /\ line # NoLine
        /\ results[m].draw = [PageDraw(o) EXCEPT !["1"] = CalcHHAD(o.diff, line)]
    BY <1>1, <1>3 DEF ResultFrom, Judged
  <2>2. results[m].draw["1"] = CalcHHAD(o.diff, line)
    BY <2>1 DEF PageDraw, SubTypes
  <2> QED
    BY <1>1, <1>2, <2>1, <2>2 DEF ResultFrom
<1>4. CASE PageDraw(o)["1"] # NoCode
  <2>1. results[m].draw = PageDraw(o)
    BY <1>1, <1>4 DEF ResultFrom, Judged
  <2>2. o.line # NoLine /\ PageDraw(o)["1"] = CalcHHAD(o.diff, o.line)
    BY <1>4 DEF PageDraw, SubTypes
  <2> QED
    BY <1>1, <2>1, <2>2 DEF ResultFrom
<1> QED
  BY <1>3, <1>4

\* A handicap that was offered has its draw when every handicap could be read.
LEMMA DrawMade ==
    ASSUME CrawlInv, ~pageLost, ~readLost, NEW m \in Matches, results[m] # NoResult,
           results[m].diff # NoScore, offered[m] # {}
    PROVE  results[m].draw["1"] # NoCode
<1>1. PICK o \in Outcomes : ResultFrom(m, o, StoredLine(m))
  BY DEF CrawlInv, ResultsOK
<1>2. StoredLine(m) \in Lines /\ StoredLine(m) # NoLine
  BY CrawlAssumption DEF CrawlInv, LinesOK, CrawlTypeOK
<1>3. o.diff \in Int /\ o.diff # NoScore /\ StoredLine(m) \in Int
  BY <1>1, <1>2, CrawlAssumption DEF Outcome, Scores, ResultFrom
<1>4. CalcHHAD(o.diff, StoredLine(m)) # NoCode
  BY <1>3, CalcCode, CrawlAssumption
<1> QED
  BY <1>1, <1>2, <1>3, <1>4 DEF ResultFrom, Judged, PageDraw, SubTypes

\* For all lines and scores, any number of matches, crawls and corrections, and whatever
\* fails other than the read of a handicap: a handicap once offered is judged by a line
\* the site gave, the stored one or that of a result (UpsertMatchResult, rawToDrawInfo).
THEOREM HandicapsAreJudged == CrawlSpec => []HandicapJudgedWhenCrawled
<1>1. CrawlInv => HandicapJudgedWhenCrawled
  BY DrawByLine, DrawMade DEF HandicapJudgedWhenCrawled, HandicapJudged
<1> QED
  BY <1>1, CrawlInvariant, PTL

\* GetDrawList never shows a draw by another line, nor by a line of zero, for a handicap
\* that was offered: it makes good a result stored without the line of its match.
THEOREM DrawListsAreRight == CrawlSpec => []DrawListRight
<1>1. CrawlInv => DrawListRight
  <2> SUFFICES ASSUME CrawlInv, ~pageLost, NEW m \in Matches, results[m] # NoResult,
                      results[m].diff # NoScore, offered[m] # {}
               PROVE  \E line \in offered[m] \cup told[m] :
                          Shown(m) = CalcHHAD(results[m].diff, line)
    BY DEF DrawListRight
  <2>1. StoredLine(m) \in offered[m] /\ StoredLine(m) # NoLine
    BY DEF CrawlInv, LinesOK
  <2>2. CASE results[m].draw["1"] = NoCode
    BY <2>1, <2>2 DEF Shown, StoredLine
  <2>3. CASE results[m].draw["1"] # NoCode
    BY <2>3, DrawByLine DEF Shown
  <2> QED
    BY <2>2, <2>3
<1> QED
  BY <1>1, CrawlInvariant, PTL

\* A graded pick, and its grade, stay as they are in whatever order crawls, results,
\* corrections, settlements and failures come (UpsertAIPrediction keeps is_correct and
\* SettleAIPredictions asks for is_correct IS NULL).
THEOREM GradesStand == CrawlSpec => GradeStands
<1>1. CrawlInv /\ [CrawlNext]_crawlVars
        => [\A k \in PickKeys : Graded(k) => picks'[k] = picks[k]]_crawlVars
  BY PickSteps DEF Graded
<1> QED
  BY <1>1, CrawlInvariant, PTL DEF CrawlSpec, GradeStands

\* A grade is what some draw, stored as valid at some time, says of the pick as it is.
THEOREM GradesAreJustified == CrawlSpec => []GradesJustified
<1>1. CrawlInv => GradesJustified
  BY DEF CrawlInv
<1> QED
  BY <1>1, CrawlInvariant, PTL

-----------------------------------------------------------------------------
(* The end of a crawl.  That a crawl takes its steps is left to fairness;  *)
(* that they lead to its end is shown here.                                *)

NMatches == Cardinality(Matches)
NPicks   == Cardinality(PickKeys)

Unmade(o)   == {m \in Matches : o.page[m] # NoInfo}
Unstored(r) == {m \in Matches : r.page[m] # NoOutcome}

\* The steps an odds crawl in state o still has, at most: a match and its picks for each match it
\* holds, before that for each match there is, and the attempts of its two pages.
OddsLeft(o) ==
    CASE o.pc = "had"    -> (NPicks + 1) * NMatches + NPicks + 3 + 2 * RetryCount - o.tries
      [] o.pc = "hhad"   -> (NPicks + 1) * NMatches + NPicks + 2 + RetryCount - o.tries
      [] o.pc = "upsert" -> (NPicks + 1) * Cardinality(Unmade(o)) + Cardinality(o.todo) + 1
      [] OTHER           -> 0

PagesLeft(r) == IF r.pageNo < MaxPages THEN MaxPages - r.pageNo ELSE 0

\* The same for a results crawl: a result and its settlement for each match, and the
\* attempts of the pages there may be.
ResLeft(r) ==
    CASE r.pc = "fetch" -> (RetryCount + 1) * PagesLeft(r) + 2 * NMatches + 2 + RetryCount - r.tries
      [] r.pc = "store" -> 2 * Cardinality(Unstored(r)) + (IF r.match = NoMatch THEN 0 ELSE 1) + 1
      [] OTHER          -> 0

LEMMA ProductNat ==
    ASSUME NEW k \in Nat, NEW n \in Nat
    PROVE  k * n \in Nat
  OBVIOUS

LEMMA ProductLess ==
    ASSUME NEW k \in Nat, NEW n \in Nat
    PROVE  k * n = k * (n - 1) + k
  OBVIOUS

LEMMA ProductMono ==
    ASSUME NEW k \in Nat, NEW a \in Nat, NEW b \in Nat, a <= b
    PROVE  k * a <= k * b
<1>1. b - a \in Nat /\ k * b = k * a + k * (b - a)
  OBVIOUS
<1>2. k * (b - a) \in Nat /\ k * a \in Nat
  BY <1>1, ProductNat
<1> QED
  BY <1>1, <1>2

LEMMA Sizes ==
    ASSUME IsFiniteSet(Matches), IsFiniteSet(PickKeys)
    PROVE  NMatches \in Nat /\ NPicks \in Nat /\ NPicks + 1 \in Nat /\ RetryCount \in Nat
BY FS_CardinalityType, CrawlAssumption DEF NMatches, NPicks

LEMMA OddsRange ==
    ASSUME IsFiniteSet(Matches), IsFiniteSet(PickKeys), NEW o \in OddsState
    PROVE  /\ IsFiniteSet(Unmade(o)) /\ Cardinality(Unmade(o)) \in Nat
           /\ IsFiniteSet(o.todo) /\ Cardinality(o.todo) \in Nat /\ Cardinality(o.todo) <= NPicks
           /\ o.tries \in 0 .. RetryCount
           /\ (NPicks + 1) * NMatches \in Nat
           /\ (NPicks + 1) * Cardinality(Unmade(o)) \in Nat
           /\ (NPicks + 1) * Cardinality(Unmade(o)) <= (NPicks + 1) * NMatches
<1>1. /\ IsFiniteSet(Unmade(o)) /\ Cardinality(Unmade(o)) \in Nat
      /\ Cardinality(Unmade(o)) <= NMatches
  BY FS_Subset, FS_CardinalityType DEF Unmade, NMatches
<1>2. IsFiniteSet(o.todo) /\ Cardinality(o.todo) \in Nat /\ Cardinality(o.todo) <= NPicks
  <2>1. o.todo \in SUBSET PickKeys
    BY DEF OddsState
  <2> QED
    BY <2>1, FS_Subset, FS_CardinalityType DEF NPicks
<1>3. (NPicks + 1) * NMatches \in Nat /\ (NPicks + 1) * Cardinality(Unmade(o)) \in Nat
  BY <1>1, Sizes, ProductNat
<1>4. (NPicks + 1) * Cardinality(Unmade(o)) <= (NPicks + 1) * NMatches
  BY <1>1, Sizes, ProductMono
<1> QED
  BY <1>1, <1>2, <1>3, <1>4 DEF OddsState

LEMMA ResRange ==
    ASSUME IsFiniteSet(Matches), NEW r \in ResState
    PROVE  /\ IsFiniteSet(Unstored(r)) /\ Cardinality(Unstored(r)) \in Nat
           /\ Cardinality(Unstored(r)) <= NMatches /\ NMatches \in Nat
           /\ r.tries \in 0 .. RetryCount /\ RetryCount \in Nat /\ RetryCount + 1 \in Nat
           /\ PagesLeft(r) \in Nat
           /\ (RetryCount + 1) * PagesLeft(r) \in Nat
<1>1. /\ IsFiniteSet(Unstored(r)) /\ Cardinality(Unstored(r)) \in Nat
      /\ Cardinality(Unstored(r)) <= NMatches /\ NMatches \in Nat
  BY FS_Subset, FS_CardinalityType DEF Unstored, NMatches
<1>2. PagesLeft(r) \in Nat /\ RetryCount \in Nat /\ RetryCount + 1 \in Nat
  BY CrawlAssumption DEF ResState, PagesLeft
<1>3. (RetryCount + 1) * PagesLeft(r) \in Nat
  BY <1>2, ProductNat
<1> QED
  BY <1>1, <1>2, <1>3 DEF ResState

\* A crawl that runs has something left to do.
LEMMA OddsPositive ==
    ASSUME IsFiniteSet(Matches), IsFiniteSet(PickKeys), NEW o \in OddsState
    PROVE  OddsLeft(o) \in Nat /\ (o.pc # "idle" => OddsLeft(o) > 0)
<1> DEFINE all == (NPicks + 1) * NMatches
           now == (NPicks + 1) * Cardinality(Unmade(o))
<1>1. o.pc \in {"idle", "had", "hhad", "upsert"}
  BY DEF OddsState
<1>2. /\ o.pc = "had" => OddsLeft(o) = all + NPicks + 3 + 2 * RetryCount - o.tries
      /\ o.pc = "hhad" => OddsLeft(o) = all + NPicks + 2 + RetryCount - o.tries
      /\ o.pc = "upsert" => OddsLeft(o) = now + Cardinality(o.todo) + 1
      /\ o.pc = "idle" => OddsLeft(o) = 0
  BY DEF OddsLeft
<1>3. /\ all \in Nat /\ now \in Nat /\ Cardinality(o.todo) \in Nat /\ o.tries \in 0 .. RetryCount
      /\ NPicks \in Nat /\ RetryCount \in Nat
  BY OddsRange, Sizes
<1> HIDE DEF all, now
<1> QED
  BY <1>1, <1>2, <1>3

LEMMA ResPositive ==
    ASSUME IsFiniteSet(Matches), NEW r \in ResState
    PROVE  ResLeft(r) \in Nat /\ (r.pc # "idle" => ResLeft(r) > 0)
<1> DEFINE rest == (RetryCount + 1) * PagesLeft(r)
<1>1. r.pc \in {"idle", "fetch", "store"}
  BY DEF ResState
<1>2. /\ r.pc = "fetch" => ResLeft(r) = rest + 2 * NMatches + 2 + RetryCount - r.tries
      /\ r.pc = "store" => \/ ResLeft(r) = 2 * Cardinality(Unstored(r)) + 1
                           \/ ResLeft(r) = 2 * Cardinality(Unstored(r)) + 2
      /\ r.pc = "idle" => ResLeft(r) = 0
  BY ResRange DEF ResLeft
<1>3. /\ rest \in Nat /\ NMatches \in Nat /\ r.tries \in 0 .. RetryCount /\ RetryCount \in Nat
      /\ Cardinality(Unstored(r)) \in Nat
  BY ResRange
<1> HIDE DEF rest
<1> QED
  BY <1>1, <1>2, <1>3

\* Each step of an odds crawl brings it nearer to its end: an attempt, a page, a match
\* traded for its picks, a pick.
LEMMA OddsShrinks ==
    ASSUME IsFiniteSet(Matches), IsFiniteSet(PickKeys), CrawlTypeOK, CrawlTypeOK', ShapeOK, OddsStep
    PROVE  odds.pc # "idle" /\ OddsLeft(odds') < OddsLeft(odds)
<1> DEFINE all == (NPicks + 1) * NMatches
           now == (NPicks + 1) * Cardinality(Unmade(odds))
           new == (NPicks + 1) * Cardinality(Unmade(odds'))
           todo == Cardinality(odds.todo)
           then == Cardinality(odds'.todo)
<1>1. odds \in OddsState /\ odds' \in OddsState
  BY DEF CrawlTypeOK
<1>2. /\ all \in Nat /\ now \in Nat /\ todo \in Nat /\ NPicks \in Nat /\ todo <= NPicks
      /\ odds.tries \in 0 .. RetryCount /\ RetryCount \in Nat /\ now <= all
  BY <1>1, OddsRange, Sizes
<1>3. /\ new \in Nat /\ then \in Nat /\ then <= NPicks /\ odds'.tries \in 0 .. RetryCount
      /\ new <= all
  BY <1>1, OddsRange
<1>4. /\ odds.pc = "had" => OddsLeft(odds) = all + NPicks + 3 + 2 * RetryCount - odds.tries
      /\ odds.pc = "hhad" => OddsLeft(odds) = all + NPicks + 2 + RetryCount - odds.tries
      /\ odds.pc = "upsert" => OddsLeft(odds) = now + todo + 1
      /\ odds.pc = "idle" => OddsLeft(odds) = 0
  BY DEF OddsLeft
<1>5. /\ odds'.pc = "had" => OddsLeft(odds') = all + NPicks + 3 + 2 * RetryCount - odds'.tries
      /\ odds'.pc = "hhad" => OddsLeft(odds') = all + NPicks + 2 + RetryCount - odds'.tries
      /\ odds'.pc = "upsert" => OddsLeft(odds') = new + then + 1
      /\ odds'.pc = "idle" => OddsLeft(odds') = 0
  BY DEF OddsLeft
<1>6. CASE HadFails \/ OddsDone
  <2>1. odds.pc # "idle" /\ odds'.pc = "idle"
    BY <1>6 DEF HadFails, OddsDone, NoOdds
  <2> QED
    BY <1>1, <1>5, <2>1, OddsPositive
<1>7. CASE OddsRetry
  <2>1. /\ odds.pc \in {"had", "hhad"} /\ odds'.pc = odds.pc /\ odds'.tries = odds.tries + 1
    BY <1>1, <1>7 DEF OddsRetry, OddsState
  <2> HIDE DEF all
  <2> QED
    BY <1>2, <1>3, <1>4, <1>5, <2>1
<1>8. CASE FetchHad
  <2>1. odds.pc = "had" /\ odds'.pc = "hhad" /\ odds'.tries = 0
    BY <1>1, <1>8 DEF FetchHad, OddsState
  <2> HIDE DEF all
  <2> QED
    BY <1>2, <1>3, <1>4, <1>5, <2>1
<1>9. CASE FetchHhad \/ HhadFails
  <2>1. odds.pc = "hhad" /\ odds'.pc = "upsert"
    BY <1>1, <1>9 DEF FetchHhad, HhadFails, OddsState
  <2> HIDE DEF all, new, then
  <2> QED
    BY <1>2, <1>3, <1>4, <1>5, <2>1
<1>10. ASSUME NEW m \in Matches, UpsertMatch(m) \/ UpsertMatchFails(m)
       PROVE  odds.pc # "idle" /\ OddsLeft(odds') < OddsLeft(odds)
  <2>1. /\ odds.pc = "upsert" /\ odds'.pc = "upsert" /\ odds.page[m] # NoInfo
        /\ odds'.page = [odds.page EXCEPT ![m] = NoInfo]
        /\ odds.page \in [Matches -> Info \cup {NoInfo}]
    BY <1>1, <1>10 DEF UpsertMatch, UpsertMatchFails, OddsState
  <2>2. m \in Unmade(odds) /\ Unmade(odds') = Unmade(odds) \ {m}
    BY <2>1 DEF Unmade
  <2>3. IsFiniteSet(Unmade(odds)) /\ Cardinality(Unmade(odds)) \in Nat /\ Cardinality(Unmade(odds')) \in Nat
    BY <1>1, OddsRange
  <2>4. Cardinality(Unmade(odds) \ {m}) = Cardinality(Unmade(odds)) - 1
    BY <2>2, <2>3, FS_RemoveElement
  <2>5. Cardinality(Unmade(odds')) = Cardinality(Unmade(odds)) - 1
    BY <2>2, <2>4
  <2>6. now = new + (NPicks + 1)
    <3>1. NPicks + 1 \in Nat
      BY <1>2
    <3> QED
      BY <2>3, <2>5, <3>1, ProductLess
  <2> HIDE DEF now, new, then, todo
  <2> QED
    BY <1>2, <1>3, <1>4, <1>5, <2>1, <2>6
<1>11. ASSUME NEW k \in PickKeys, k \in odds.todo, odds' = [odds EXCEPT !.todo = @ \ {k}]
       PROVE  odds.pc # "idle" /\ OddsLeft(odds') < OddsLeft(odds)
  <2>1. /\ odds.pc = "upsert" /\ odds'.pc = "upsert" /\ odds'.page = odds.page
        /\ odds'.todo = odds.todo \ {k}
    BY <1>1, <1>11 DEF ShapeOK, OddsState
  <2>2. new = now
    BY <2>1 DEF Unmade
  <2>3. then = todo - 1
    <3>1. IsFiniteSet(odds.todo)
      BY <1>1, OddsRange
    <3>2. Cardinality(odds.todo \ {k}) = Cardinality(odds.todo) - 1
      BY <1>11, <3>1, FS_RemoveElement
    <3> QED
      BY <2>1, <3>2
  <2> HIDE DEF now, new, then, todo
  <2> QED
    BY <1>2, <1>3, <1>4, <1>5, <2>1, <2>2, <2>3
<1>12. CASE \E k \in PickKeys : UpsertPickFails(k) \/ \E c \in PickCodes : UpsertPick(k, c)
  BY <1>11, <1>12 DEF UpsertPick, UpsertPickFails
<1> QED
  BY <1>6, <1>7, <1>8, <1>9, <1>10, <1>12 DEF OddsStep

\* Each step of a results crawl does: an attempt, a page, a result, a settlement.
LEMMA ResultsShrink ==
    ASSUME IsFiniteSet(Matches), IsFiniteSet(PickKeys), CrawlTypeOK, CrawlTypeOK', ShapeOK, ResultsStep
    PROVE  res.pc # "idle" /\ ResLeft(res') < ResLeft(res)
<1> DEFINE now == Cardinality(Unstored(res))
           new == Cardinality(Unstored(res'))
           owed == IF res.match = NoMatch THEN 0 ELSE 1
           owes == IF res'.match = NoMatch THEN 0 ELSE 1
           rest == (RetryCount + 1) * PagesLeft(res)
           then == (RetryCount + 1) * PagesLeft(res')
<1>1. res \in ResState /\ res' \in ResState /\ NoMatch \notin Matches
  BY CrawlAssumption DEF CrawlTypeOK
<1>2. /\ NMatches \in Nat /\ now \in Nat /\ now <= NMatches /\ rest \in Nat /\ RetryCount \in Nat
      /\ res.tries \in 0 .. RetryCount /\ owed \in {0, 1}
  BY <1>1, ResRange
<1>3. /\ new \in Nat /\ new <= NMatches /\ then \in Nat /\ res'.tries \in 0 .. RetryCount
      /\ owes \in {0, 1}
  BY <1>1, ResRange
<1>4. /\ res.pc = "fetch" => ResLeft(res) = rest + 2 * NMatches + 2 + RetryCount - res.tries
      /\ res.pc = "store" => ResLeft(res) = 2 * now + owed + 1
  BY DEF ResLeft
<1>5. /\ res'.pc = "fetch" => ResLeft(res') = then + 2 * NMatches + 2 + RetryCount - res'.tries
      /\ res'.pc = "store" => ResLeft(res') = 2 * new + owes + 1
      /\ res'.pc = "idle" => ResLeft(res') = 0
  BY DEF ResLeft
<1>6. CASE res.pc # "idle" /\ res' = NoRes
  <2>1. res'.pc = "idle"
    BY <1>6 DEF NoRes
  <2> QED
    BY <1>1, <1>5, <1>6, <2>1, ResPositive
<1>7. CASE ResultsRetry
  <2>1. /\ res.pc = "fetch" /\ res'.pc = "fetch" /\ res'.tries = res.tries + 1
        /\ res'.pageNo = res.pageNo
    BY <1>1, <1>7 DEF ResultsRetry, ResState
  <2>2. then = rest
    BY <2>1 DEF PagesLeft
  <2> HIDE DEF rest, then
  <2> QED
    BY <1>2, <1>3, <1>4, <1>5, <2>1, <2>2
<1>8. CASE \E ms \in SUBSET Matches : FetchFullPage(ms)
  <2>1. /\ res.pc = "fetch" /\ res'.pc = "fetch" /\ res'.tries = 0
        /\ res.pageNo < MaxPages /\ res'.pageNo = res.pageNo + 1
    BY <1>1, <1>8 DEF FetchFullPage, ResState
  <2>2. PagesLeft(res') = PagesLeft(res) - 1 /\ PagesLeft(res) \in Nat /\ RetryCount + 1 \in Nat
    BY <1>1, <1>2, <2>1, ResRange, CrawlAssumption DEF PagesLeft, ResState
  <2>3. rest = then + (RetryCount + 1)
    BY <2>2, ProductLess
  <2> HIDE DEF rest, then
  <2> QED
    BY <1>2, <1>3, <1>4, <1>5, <2>1, <2>3
<1>9. CASE FetchLastPage \/ (FetchPageFails /\ res' # NoRes)
  <2>1. res.pc = "fetch" /\ res'.pc = "store" /\ res'.match = NoMatch
    BY <1>1, <1>9 DEF FetchLastPage, FetchPageFails, ResState, ShapeOK
  <2> HIDE DEF rest, then, now, new
  <2> QED
    BY <1>2, <1>3, <1>4, <1>5, <2>1
<1>10. ASSUME NEW m \in Matches, UpsertResult(m) \/ UpsertResultFails(m)
       PROVE  res.pc # "idle" /\ ResLeft(res') < ResLeft(res)
  <2>1. /\ res.pc = "store" /\ res'.pc = "store" /\ res.page[m] # NoOutcome
        /\ res'.page = [res.page EXCEPT ![m] = NoOutcome]
        /\ res.page \in [Matches -> Outcomes \cup {NoOutcome}]
    BY <1>1, <1>10 DEF UpsertResult, UpsertResultFails, ResState
  <2>2. m \in Unstored(res) /\ Unstored(res') = Unstored(res) \ {m}
    BY <2>1 DEF Unstored
  <2>3. IsFiniteSet(Unstored(res))
    BY <1>1, ResRange
  <2>4. Cardinality(Unstored(res) \ {m}) = Cardinality(Unstored(res)) - 1
    BY <2>2, <2>3, FS_RemoveElement
  <2>5. new = now - 1
    BY <2>2, <2>4
  <2> HIDE DEF now, new, owed, owes
  <2> QED
    BY <1>2, <1>3, <1>4, <1>5, <2>1, <2>5
<1>11. CASE SettleMatch
  <2>1. /\ res.pc = "store" /\ res'.pc = "store" /\ res'.page = res.page
        /\ res.match # NoMatch /\ res'.match = NoMatch
    BY <1>1, <1>11 DEF SettleMatch, ResState, ShapeOK
  <2>2. new = now
    BY <2>1 DEF Unstored
  <2> HIDE DEF now, new
  <2> QED
    BY <1>2, <1>3, <1>4, <1>5, <2>1, <2>2
<1>12. CASE ResultsDone \/ (FetchPageFails /\ res' = NoRes)
  BY <1>6, <1>12 DEF ResultsDone, FetchPageFails
<1> QED
  BY <1>7, <1>8, <1>9, <1>10, <1>11, <1>12 DEF ResultsStep

\* A crawl winds down: RetryCount attempts a page, the pages the site has, the matches
\* and the picks bound its steps, and each of them, done or failed, leads to its end;
\* nothing the site, the server or its users do sets it back.
THEOREM CrawlsWindDown ==
    ASSUME IsFiniteSet(Matches), IsFiniteSet(PickKeys)
    PROVE  CrawlSpec =>
               [][/\ odds.pc # "idle" => odds' = odds \/ OddsLeft(odds') < OddsLeft(odds)
                  /\ res.pc # "idle" => res' = res \/ ResLeft(res') < ResLeft(res)]_crawlVars
<1>1. CrawlInv /\ CrawlInv' /\ [CrawlNext]_crawlVars
        => [/\ odds.pc # "idle" => odds' = odds \/ OddsLeft(odds') < OddsLeft(odds)
            /\ res.pc # "idle" => res' = res \/ ResLeft(res') < ResLeft(res)]_crawlVars
  <2> SUFFICES ASSUME CrawlInv, CrawlInv', [CrawlNext]_crawlVars
               PROVE  /\ odds.pc # "idle" => odds' = odds \/ OddsLeft(odds') < OddsLeft(odds)
                      /\ res.pc # "idle" => res' = res \/ ResLeft(res') < ResLeft(res)
    OBVIOUS
  <2>1. CrawlTypeOK /\ CrawlTypeOK' /\ ShapeOK
    BY DEF CrawlInv
  <2>2. CASE OddsStep
    <3>1. res' = res
      BY <2>2 DEF OddsStep, OddsRetry, FetchHad, HadFails, FetchHhad, HhadFails, UpsertMatch,
         UpsertMatchFails, UpsertPick, UpsertPickFails, OddsDone
    <3> QED
      BY <2>1, <2>2, <3>1, OddsShrinks
  <2>3. CASE ResultsStep
    <3>1. odds' = odds
      BY <2>3 DEF ResultsStep, ResultsRetry, FetchFullPage, FetchLastPage, FetchPageFails,
         UpsertResult, UpsertResultFails, SettleMatch, ResultsDone
    <3> QED
      BY <2>1, <2>3, <3>1, ResultsShrink
  <2>4. CASE SpiderDies
    <3>1. odds'.pc = "idle" /\ res'.pc = "idle"
      BY <2>4 DEF SpiderDies, NoOdds, NoRes
    <3>2. OddsLeft(odds') = 0 /\ ResLeft(res') = 0
      BY <3>1 DEF OddsLeft, ResLeft
    <3> QED
      BY <2>1, <3>2, OddsPositive, ResPositive DEF CrawlTypeOK
  <2>5. CASE StartOdds \/ StartResults
    BY <2>5 DEF StartOdds, StartResults
  <2>6. CASE Site \/ (\E m \in Matches : ApiSettle(m)) \/ (\E r \in Requests : AskStep(r))
             \/ UNCHANGED crawlVars
    BY <2>6 DEF Site, List, Finish, Correct, ApiSettle, AskStep, AskPicks, ReadMatch, AskedPick, Answer,
       crawlVars
  <2> QED
    BY <2>2, <2>3, <2>4, <2>5, <2>6 DEF CrawlNext
<1> QED
  BY <1>1, CrawlInvariant, PTL DEF CrawlSpec
=============================================================================
