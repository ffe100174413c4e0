-------------------------------- MODULE Crawl --------------------------------
(***************************************************************************)
(* What the spider reads and what it makes of it.  The odds crawl reads    *)
(* the site's page of win/draw/loss matches (HAD), then its page of        *)
(* handicap matches (HHAD), merges the two, stores each match and lets the *)
(* predictors pick (crawler/sporttery/crawler.go, crawler/pipeline.go).    *)
(* The results crawl reads pages of results and stores each, with a        *)
(* handicap draw from the site's line or, when the site gives none, from   *)
(* the line of the stored match (repo/repo.go UpsertMatchResult), and      *)
(* settles it.  A settle request of the server settles, too; of settlement *)
(* only the grading of the picks is kept here, Settlement has the rest.    *)
(* Whoever asks the server for the picks of a match that has none makes it *)
(* pick in the spider's stead (service/result/result.go).                  *)
(*                                                                         *)
(* There is one spider.  A wager is offered, and can be bet on, while the  *)
(* stored match has it; bets are not modelled.  Bounds of the model:       *)
(* MaxListings changes of the site's lists and results, MaxPages pages of  *)
(* results.                                                                *)
(***************************************************************************)
EXTENDS Integers

CONSTANTS Matches,
          Rule,          \* the rule provider: it picks what the odds favour
          Experts,       \* they pick at random
          PickCodes,     \* the codes they pick
          Offers,        \* what the site may list of a match on sale
          Requests,      \* GET /matches/:matchId/predict
          Lines,         \* handicaps; the site lists none of zero
          Outcomes,      \* what the site may say of a finished match
          RetryCount,    \* spider.retry_count
          MaxListings, MaxPages,
          NoLine, NoScore, NoCode, NoFavour, NoMatch, NoInfo, NoOutcome, NoResult, NoPick

Codes    == {"3", "1", "0"}
SubTypes == {"6", "1"}
Pickers  == Experts \cup {Rule}
PickKeys == Pickers \X Matches \X SubTypes
Scores   == Int \cup {NoScore}

\* bet_infos of a match: whether HAD is offered, the line HHAD is offered with, and
\* of the odds the favourite of each wager.
Info == [had : BOOLEAN, line : Lines \cup {NoLine}, favour : [SubTypes -> PickCodes]]

\* A row of the site's results: the score as home minus away goals.
Outcome == [valid : BOOLEAN, winFlag : Codes \cup {NoCode},
            diff : Scores, line : Lines \cup {NoLine}]

\* A row of match_results: game_draw_list as one code per sub type.
Result == [valid : BOOLEAN, diff : Scores, draw : [SubTypes -> Codes \cup {NoCode}]]

Pick == [code : Codes, grade : {"none", "right", "wrong"}]

ASSUME CrawlAssumption ==
    /\ Lines \subseteq Int \ {0}
    /\ Outcomes \subseteq Outcome
    /\ PickCodes \subseteq Codes
    /\ Offers \subseteq {i \in Info : i.had \/ i.line # NoLine}
    /\ Rule \notin Experts
    /\ RetryCount \in Nat /\ MaxListings \in Nat /\ MaxPages \in Nat
    /\ NoFavour \notin [SubTypes -> PickCodes]
    /\ NoLine \notin Int /\ NoScore \notin Int /\ NoCode \notin Codes
    /\ NoMatch \notin Matches /\ NoInfo \notin Info /\ NoOutcome \notin Outcome
    /\ NoResult \notin Result /\ NoPick \notin Pick

VARIABLES listed,    \* the site's lists of the matches on sale (external)
          outcome,   \* the site's results (external)
          listings,
          odds,      \* the odds crawl: failed attempts, matches to store, picks to make
          res,       \* the results crawl: the page it fetches, what it has, whom it settles
          stored,    \* table matches: bet_infos
          results,   \* table match_results
          picks,     \* ai_predictions, expert_predictions
          asked,     \* the server's requests for picks
          offered,   \* history: the lines a match was ever stored with
          told,      \* history: the lines the site ever gave with a result
          drawn,     \* history: the draws ever stored as valid
          pageLost,  \* history: a crawl went on without the handicap page
          readLost,  \* history: a result was stored without the line of its match
          blind      \* history: a request could not see the picks, or the match changed
                     \* under it

siteVars  == <<listed, outcome, listings, told>>
tableVars == <<stored, results, picks, offered, drawn>>
faultVars == <<pageLost, readLost, blind>>
crawlVars == <<siteVars, odds, res, tableVars, asked, faultVars>>

outsideVars == <<siteVars, asked>>   \* what no crawl touches

NoInfos    == [m \in Matches |-> NoInfo]
NoOutcomes == [m \in Matches |-> NoOutcome]
NoOdds     == [pc |-> "idle", tries |-> 0, page |-> NoInfos, todo |-> {}]
NoRes      == [pc |-> "idle", tries |-> 0, pageNo |-> 1, page |-> NoOutcomes, match |-> NoMatch]
NoAsk      == [pc |-> "idle", match |-> NoMatch, favour |-> NoFavour, todo |-> {}]

CrawlInit ==
    /\ listed = NoInfos
    /\ outcome = NoOutcomes
    /\ listings = 0
    /\ odds = NoOdds
    /\ res = NoRes
    /\ stored = NoInfos
    /\ results = [m \in Matches |-> NoResult]
    /\ picks = [k \in PickKeys |-> NoPick]
    /\ offered = [m \in Matches |-> {}]
    /\ told = [m \in Matches |-> {}]
    /\ drawn = [m \in Matches |-> {}]
    /\ asked = [r \in Requests |-> NoAsk]
    /\ pageLost = FALSE /\ readLost = FALSE /\ blind = FALSE

-----------------------------------------------------------------------------
(* The site lists a match, maybe with another line than before, until it   *)
(* has a result; the result may be corrected, or called off and on.        *)

List(m, i) ==
    /\ outcome[m] = NoOutcome
    /\ listings < MaxListings
    /\ listings' = listings + 1
    /\ listed' = [listed EXCEPT ![m] = i]
    /\ UNCHANGED <<outcome, told, odds, res, tableVars, asked, faultVars>>

Tell(m, o) ==
    /\ outcome' = [outcome EXCEPT ![m] = o]
    /\ told' = [told EXCEPT ![m] = @ \cup ({o.line} \ {NoLine})]

Finish(m, o) ==
    /\ outcome[m] = NoOutcome
    /\ Tell(m, o)
    /\ listed' = [listed EXCEPT ![m] = NoInfo]
    /\ UNCHANGED <<listings, odds, res, tableVars, asked, faultVars>>

Correct(m, o) ==
    /\ outcome[m] \notin {NoOutcome, o}
    /\ listings < MaxListings
    /\ listings' = listings + 1
    /\ Tell(m, o)
    /\ UNCHANGED <<listed, odds, res, tableVars, asked, faultVars>>

-----------------------------------------------------------------------------
(* The odds crawl                                                          *)

StartOdds ==
    /\ odds.pc = "idle" /\ res.pc = "idle"
    /\ odds' = [NoOdds EXCEPT !.pc = "had"]
    /\ UNCHANGED <<outsideVars, res, tableVars, faultVars>>

\* Mutant: one attempt more.
OddsRetry_Once ==
    /\ odds.pc \in {"had", "hhad"}
    /\ odds.tries <= RetryCount
    /\ odds' = [odds EXCEPT !.tries = @ + 1]
    /\ UNCHANGED <<outsideVars, res, tableVars, faultVars>>

\* fetchWithRetry: an attempt failed, and another one follows after a pause.
OddsRetry ==
    /\ odds.pc \in {"had", "hhad"}
    /\ odds.tries < RetryCount
    /\ odds' = [odds EXCEPT !.tries = @ + 1]
    /\ UNCHANGED <<outsideVars, res, tableVars, faultVars>>

FetchHad ==
    /\ odds.pc = "had"
    /\ odds' = [odds EXCEPT !.pc = "hhad", !.tries = 0,
           !.page = [m \in Matches |->
                        IF listed[m] # NoInfo /\ listed[m].had
                        THEN [listed[m] EXCEPT !.line = NoLine] ELSE NoInfo]]
    /\ UNCHANGED <<outsideVars, res, tableVars, faultVars>>

\* The firewall blocks an attempt, the last one fails or the reply is not understood.
HadFails ==
    /\ odds.pc = "had"
    /\ odds' = NoOdds
    /\ UNCHANGED <<outsideVars, res, tableVars, faultVars>>

\* A match of the handicap page, with HAD and its odds as the first page had them.
Merged(had, i) ==
    IF had = NoInfo THEN [i EXCEPT !.had = FALSE]
    ELSE [had |-> TRUE, line |-> i.line, favour |-> [i.favour EXCEPT !["6"] = had.favour["6"]]]

\* A match that was on the first page only is dropped.
FetchHhad ==
    /\ odds.pc = "hhad"
    /\ odds' = [odds EXCEPT !.pc = "upsert",
           !.page = [m \in Matches |->
                        IF listed[m] # NoInfo /\ listed[m].line # NoLine
                        THEN Merged(odds.page[m], listed[m]) ELSE NoInfo]]
    /\ UNCHANGED <<outsideVars, res, tableVars, faultVars>>

\* "Not fatal": the crawl goes on with the matches of the first page alone.
HhadFails ==
    /\ odds.pc = "hhad"
    /\ odds' = [odds EXCEPT !.pc = "upsert"]
    /\ pageLost' = TRUE
    /\ UNCHANGED <<outsideVars, res, tableVars, readLost, blind>>

Wagers(i) == {st \in SubTypes : IF st = "6" THEN i.had ELSE i.line # NoLine}

\* One match after the other: the picks of a match are made before the next match.
UpsertMatch(m) ==
    LET i == odds.page[m] IN
    /\ odds.pc = "upsert" /\ odds.todo = {}
    /\ i # NoInfo
    /\ stored' = [stored EXCEPT ![m] = i]
    /\ offered' = [offered EXCEPT ![m] = @ \cup ({i.line} \ {NoLine})]
    /\ odds' = [odds EXCEPT !.page[m] = NoInfo, !.todo = Pickers \X {m} \X Wagers(i)]
    /\ blind' = (blind \/ \E r \in Requests : asked[r].match = m)
    /\ UNCHANGED <<outsideVars, res, results, picks, drawn, pageLost, readLost>>

UpsertMatchFails(m) ==
    /\ odds.pc = "upsert" /\ odds.todo = {}
    /\ odds.page[m] # NoInfo
    /\ odds' = [odds EXCEPT !.page[m] = NoInfo]
    /\ UNCHANGED <<outsideVars, res, tableVars, faultVars>>

\* A pick overwrites the one before; is_correct stays as it is.
SetPick(k, c) ==
    picks' = [picks EXCEPT ![k] =
        [code |-> c, grade |-> IF @ = NoPick THEN "none" ELSE @.grade]]

\* Each crawl picks anew: Predict, what the odds just stored favour, and the experts.
UpsertPick(k, c) ==
    /\ k \in odds.todo
    /\ k[1] = Rule => c = stored[k[2]].favour[k[3]]
    /\ SetPick(k, c)
    /\ odds' = [odds EXCEPT !.todo = @ \ {k}]
    /\ UNCHANGED <<outsideVars, res, stored, results, offered, drawn, faultVars>>

UpsertPickFails(k) ==
    /\ k \in odds.todo
    /\ odds' = [odds EXCEPT !.todo = @ \ {k}]
    /\ UNCHANGED <<outsideVars, res, tableVars, faultVars>>

OddsDone ==
    /\ odds.pc = "upsert" /\ odds.todo = {}
    /\ odds.page = NoInfos
    /\ odds' = NoOdds
    /\ UNCHANGED <<outsideVars, res, tableVars, faultVars>>

-----------------------------------------------------------------------------
(* The results crawl                                                       *)

\* Mutant: the two crawls run in a goroutine each.
StartResults_Beside ==
    /\ res.pc = "idle"
    /\ res' = [NoRes EXCEPT !.pc = "fetch"]
    /\ UNCHANGED <<outsideVars, odds, tableVars, faultVars>>

StartResults ==
    /\ odds.pc = "idle" /\ res.pc = "idle"
    /\ res' = [NoRes EXCEPT !.pc = "fetch"]
    /\ UNCHANGED <<outsideVars, odds, tableVars, faultVars>>

\* Mutant: the attempts are not counted.
ResultsRetry_Uncounted ==
    /\ res.pc = "fetch"
    /\ res' = [res EXCEPT !.tries = 1 - @]
    /\ UNCHANGED <<outsideVars, odds, tableVars, faultVars>>

ResultsRetry ==
    /\ res.pc = "fetch"
    /\ res.tries < RetryCount
    /\ res' = [res EXCEPT !.tries = @ + 1]
    /\ UNCHANGED <<outsideVars, odds, tableVars, faultVars>>

Finished == {m \in Matches : outcome[m] # NoOutcome}

Have(ms) == [m \in Matches |-> IF m \in ms THEN outcome[m] ELSE res.page[m]]

\* A full page: there may be another one.
FetchFullPage(ms) ==
    /\ res.pc = "fetch"
    /\ res.pageNo < MaxPages
    /\ ms # {} /\ ms \subseteq Finished
    /\ res' = [res EXCEPT !.page = Have(ms), !.pageNo = @ + 1, !.tries = 0]
    /\ UNCHANGED <<outsideVars, odds, tableVars, faultVars>>

\* A short or an empty page is the last one.
FetchLastPage ==
    /\ res.pc = "fetch"
    /\ res' = [res EXCEPT !.page = Have(Finished), !.pc = "store"]
    /\ UNCHANGED <<outsideVars, odds, tableVars, faultVars>>

\* A page cannot be had: the crawl makes do with the pages before it, if any.
FetchPageFails ==
    /\ res.pc = "fetch"
    /\ res' = IF res.page = NoOutcomes THEN NoRes ELSE [res EXCEPT !.pc = "store"]
    /\ UNCHANGED <<outsideVars, odds, tableVars, faultVars>>

\* calcHHADResult: home wins, draw or away wins with the line added to home's goals.
CalcHHAD(diff, line) ==
    IF diff + line > 0 THEN "3" ELSE IF diff + line < 0 THEN "0" ELSE "1"

\* rawToDrawInfo: no handicap draw without a win flag, a score and a line.
PageDraw(o) ==
    [st \in SubTypes |->
        IF st = "6" THEN o.winFlag
        ELSE IF o.winFlag # NoCode /\ o.diff # NoScore /\ o.line # NoLine
             THEN CalcHHAD(o.diff, o.line) ELSE NoCode]

StoredLine(m) == IF stored[m] = NoInfo THEN NoLine ELSE stored[m].line

\* Mutant: the stored line is not asked for.
Judged_PageOnly(o, line) == PageDraw(o)

\* Mutant: the line is taken off home's goals.
Judged_Minus(o, line) ==
    IF PageDraw(o)["1"] = NoCode /\ line # NoLine /\ o.diff # NoScore
    THEN [PageDraw(o) EXCEPT !["1"] = CalcHHAD(o.diff, 0 - line)]
    ELSE PageDraw(o)

\* UpsertMatchResult adds the handicap draw the page lacks, from the stored line.
Judged(o, line) ==
    IF PageDraw(o)["1"] = NoCode /\ line # NoLine /\ o.diff # NoScore
    THEN [PageDraw(o) EXCEPT !["1"] = CalcHHAD(o.diff, line)]
    ELSE PageDraw(o)

\* The query of the stored line may fail: that is taken for a match without one.  A
\* result stored before, and its draws, are overwritten.
UpsertResult(m) ==
    LET o == res.page[m] IN
    /\ res.pc = "store" /\ res.match = NoMatch
    /\ o # NoOutcome
    /\ \E line \in {StoredLine(m), NoLine} :
          /\ results' = [results EXCEPT ![m] =
                 [valid |-> o.valid, diff |-> o.diff, draw |-> Judged(o, line)]]
          /\ drawn' = [drawn EXCEPT ![m] = IF o.valid THEN @ \cup {Judged(o, line)} ELSE @]
          /\ readLost' = (readLost \/ line # StoredLine(m))
    /\ res' = [res EXCEPT !.page[m] = NoOutcome, !.match = IF o.valid THEN m ELSE NoMatch]
    /\ UNCHANGED <<outsideVars, odds, stored, picks, offered, pageLost, blind>>

UpsertResultFails(m) ==
    /\ res.pc = "store" /\ res.match = NoMatch
    /\ res.page[m] # NoOutcome
    /\ res' = [res EXCEPT !.page[m] = NoOutcome]
    /\ UNCHANGED <<outsideVars, odds, tableVars, faultVars>>

\* The updates of a grading: a table and a sub type each.
Updates == {"expert_predictions", "ai_predictions"} \X SubTypes

UpdateOf(k) == <<IF k[1] = Rule THEN "ai_predictions" ELSE "expert_predictions", k[3]>>

\* Mutant: picks graded before are graded again.
Grade_Again(m, draw, part) ==
    picks' = [k \in PickKeys |->
        IF k[2] = m /\ picks[k] # NoPick /\ draw[k[3]] # NoCode /\ UpdateOf(k) \in part
        THEN [picks[k] EXCEPT !.grade = IF picks[k].code = draw[k[3]] THEN "right" ELSE "wrong"]
        ELSE picks[k]]

\* Mutant: a wager without a draw makes its picks wrong, as it makes its bets lost.
Grade_NoDrawIsWrong(m, draw, part) ==
    picks' = [k \in PickKeys |->
        IF k[2] = m /\ picks[k] # NoPick /\ UpdateOf(k) \in part /\ picks[k].grade = "none"
        THEN [picks[k] EXCEPT !.grade = IF picks[k].code = draw[k[3]] THEN "right" ELSE "wrong"]
        ELSE picks[k]]

\* SettleExpertPredictions, SettleAIPredictions: the picks not graded yet, by one update
\* after the other; part is what is done of them before one fails or the program ends.
Grade(m, draw, part) ==
    picks' = [k \in PickKeys |->
        IF /\ k[2] = m /\ UpdateOf(k) \in part
           /\ picks[k] # NoPick /\ picks[k].grade = "none"
           /\ draw[k[3]] # NoCode
        THEN [picks[k] EXCEPT !.grade = IF picks[k].code = draw[k[3]] THEN "right" ELSE "wrong"]
        ELSE picks[k]]

SettleMatch ==
    /\ res.match # NoMatch
    /\ \E part \in SUBSET Updates : Grade(res.match, results[res.match].draw, part)
    /\ res' = [res EXCEPT !.match = NoMatch]
    /\ UNCHANGED <<outsideVars, odds, stored, results, offered, drawn, faultVars>>

ResultsDone ==
    /\ res.pc = "store" /\ res.match = NoMatch
    /\ res.page = NoOutcomes
    /\ res' = NoRes
    /\ UNCHANGED <<outsideVars, odds, tableVars, faultVars>>

-----------------------------------------------------------------------------
\* POST /matches/:id/settle.  The request may have read the result before a correction,
\* and other steps may come between its updates: each part is a step of its own.
ApiSettle(m) ==
    /\ \E draw \in drawn[m], part \in SUBSET Updates : Grade(m, draw, part)
    /\ UNCHANGED <<outsideVars, odds, res, stored, results, offered, drawn, faultVars>>

\* Mutant: picks for whoever asks, whether there are any or not.
AskPicks_Anyway(r, m) ==
    /\ asked[r].pc = "idle"
    /\ asked' = [asked EXCEPT ![r] = [@ EXCEPT !.pc = "match", !.match = m]]
    /\ UNCHANGED <<siteVars, odds, res, tableVars, faultVars>>

\* GET /matches/:matchId/predict finds no pick of the rule provider, or cannot read
\* the picks, which it takes for none.
AskPicks(r, m) ==
    /\ asked[r].pc = "idle"
    /\ blind' = (blind \/ \E st \in SubTypes : picks[<<Rule, m, st>>] # NoPick)
    /\ asked' = [asked EXCEPT ![r] = [@ EXCEPT !.pc = "match", !.match = m]]
    /\ UNCHANGED <<siteVars, odds, res, tableVars, pageLost, readLost>>

\* The request is answered, the rest of its picks if any is left undone: there is no
\* such match, a query or an upsert fails, or the server ends.
Answer(r) ==
    /\ asked[r].pc # "idle"
    /\ asked' = [asked EXCEPT ![r] = NoAsk]
    /\ UNCHANGED <<siteVars, odds, res, tableVars, faultVars>>

\* generateAIPrediction: the match as it is stored now, whatever has become of it.
ReadMatch(r) ==
    LET m == asked[r].match IN
    /\ asked[r].pc = "match"
    /\ stored[m] # NoInfo
    /\ asked' = [asked EXCEPT ![r] = [pc |-> "pick", match |-> m, favour |-> stored[m].favour,
                                     todo |-> {Rule} \X {m} \X Wagers(stored[m])]]
    /\ UNCHANGED <<siteVars, odds, res, tableVars, faultVars>>

AskedPick(r, k) ==
    /\ k \in asked[r].todo
    /\ SetPick(k, asked[r].favour[k[3]])
    /\ asked' = [asked EXCEPT ![r].todo = @ \ {k}]
    /\ UNCHANGED <<siteVars, odds, res, stored, results, offered, drawn, faultVars>>

\* The spider dies and is started again, or a panic of a crawl is recovered.
SpiderDies ==
    /\ odds.pc # "idle" \/ res.pc # "idle"
    /\ odds' = NoOdds /\ res' = NoRes
    /\ UNCHANGED <<outsideVars, tableVars, faultVars>>

OddsStep ==
    \/ OddsRetry
    \/ FetchHad
    \/ HadFails
    \/ FetchHhad
    \/ HhadFails
    \/ \E m \in Matches : UpsertMatch(m) \/ UpsertMatchFails(m)
    \/ \E k \in PickKeys, c \in PickCodes : UpsertPick(k, c)
    \/ \E k \in PickKeys : UpsertPickFails(k)
    \/ OddsDone

ResultsStep ==
    \/ ResultsRetry
    \/ \E ms \in SUBSET Matches : FetchFullPage(ms)
    \/ FetchLastPage
    \/ FetchPageFails
    \/ \E m \in Matches : UpsertResult(m) \/ UpsertResultFails(m)
    \/ SettleMatch
    \/ ResultsDone

AskStep(r) ==
    \/ \E m \in Matches : AskPicks(r, m)
    \/ ReadMatch(r)
    \/ \E k \in PickKeys : AskedPick(r, k)
    \/ Answer(r)

Site ==
    \/ \E m \in Matches, i \in Offers \cup {NoInfo} : List(m, i)
    \/ \E m \in Matches, o \in Outcomes : Finish(m, o) \/ Correct(m, o)

CrawlNext ==
    \/ Site
    \/ StartOdds \/ OddsStep
    \/ StartResults \/ ResultsStep
    \/ \E m \in Matches : ApiSettle(m)
    \/ \E r \in Requests : AskStep(r)
    \/ SpiderDies

CrawlSpec == CrawlInit /\ [][CrawlNext]_crawlVars

\* Every request has a timeout, so a crawl that runs takes its next step.
FairCrawlSpec == CrawlSpec /\ WF_crawlVars(OddsStep) /\ WF_crawlVars(ResultsStep)

-----------------------------------------------------------------------------
(* Properties                                                              *)

OddsState == [pc : {"idle", "had", "hhad", "upsert"}, tries : 0 .. RetryCount,
              page : [Matches -> Info \cup {NoInfo}], todo : SUBSET PickKeys]

ResState == [pc : {"idle", "fetch", "store"}, tries : 0 .. RetryCount, pageNo : Nat,
             page : [Matches -> Outcomes \cup {NoOutcome}], match : Matches \cup {NoMatch}]

AskState == [pc : {"idle", "match", "pick"}, match : Matches \cup {NoMatch},
             favour : [SubTypes -> PickCodes] \cup {NoFavour}, todo : SUBSET PickKeys]

CrawlTypeOK ==
    /\ listed \in [Matches -> Info \cup {NoInfo}]
    /\ outcome \in [Matches -> Outcomes \cup {NoOutcome}]
    /\ listings \in Nat
    /\ odds \in OddsState
    /\ res \in ResState
    /\ stored \in [Matches -> Info \cup {NoInfo}]
    /\ results \in [Matches -> Result \cup {NoResult}]
    /\ picks \in [PickKeys -> Pick \cup {NoPick}]
    /\ asked \in [Requests -> AskState]
    /\ offered \in [Matches -> SUBSET Lines] /\ told \in [Matches -> SUBSET Lines]
    /\ drawn \in [Matches -> SUBSET [SubTypes -> Codes \cup {NoCode}]]
    /\ pageLost \in BOOLEAN /\ readLost \in BOOLEAN /\ blind \in BOOLEAN

\* A handicap that was ever offered is judged once the score is known, by a line
\* the site gave: every bet on it gets the verdict it deserves, however the lists
\* change before the result and the result after, whatever fails and wherever the
\* spider dies.
HandicapJudged ==
    \A m \in Matches :
        results[m] # NoResult /\ results[m].diff # NoScore /\ offered[m] # {} =>
            \E line \in offered[m] \cup told[m] :
                results[m].draw["1"] = CalcHHAD(results[m].diff, line)

\* It needs every read of a handicap, from the site or from the match, to succeed.
HandicapJudgedWhenCrawled == ~pageLost /\ ~readLost => HandicapJudged

\* Mutant: the line of the match is not looked up.
Shown_Level(m) ==
    IF results[m].draw["1"] # NoCode \/ stored[m] = NoInfo \/ results[m].diff = NoScore
    THEN results[m].draw["1"]
    ELSE CalcHHAD(results[m].diff, 0)

\* GetDrawList: a handicap draw the result lacks is worked out from the match as
\* it is stored now, with a line of zero if it has none.
Shown(m) ==
    IF results[m].draw["1"] # NoCode \/ stored[m] = NoInfo \/ results[m].diff = NoScore
    THEN results[m].draw["1"]
    ELSE CalcHHAD(results[m].diff, IF stored[m].line = NoLine THEN 0 ELSE stored[m].line)

\* What users see as the draw of a handicap they could bet on is a draw by a line the
\* site gave, also where the result was stored without it because the stored line
\* could not be read: the draw list works it out again.  That is the line the bets were
\* offered with, unless a crawl went on without the handicap page.
DrawListRight ==
    ~pageLost => \A m \in Matches :
        /\ results[m] # NoResult /\ results[m].valid
        /\ results[m].diff # NoScore /\ offered[m] # {}
        => \E line \in offered[m] \cup told[m] : Shown(m) = CalcHHAD(results[m].diff, line)

\* A pick of the rule provider is safe as long as each request has seen the picks there
\* were, and a match that did not change under it.
Graded(k) == picks[k] # NoPick /\ picks[k].grade # "none" /\ ~(blind /\ k[1] = Rule)

\* A graded pick stays as it is, its grade too: the spider picks anew in every odds
\* crawl and the server when it sees no picks, but neither changes the code under a
\* grade they keep; and a corrected result grades no pick again.
GradeStands == [][\A k \in PickKeys : Graded(k) => picks'[k] = picks[k]]_crawlVars

\* A grade is what a draw, stored as valid at some time, says of the pick as it is now:
\* not that of the result before it was valid, nor of a pick it replaced.  After a
\* correction it may contradict the draw that is stored.
GradesJustified ==
    \A k \in PickKeys : Graded(k) =>
        \E draw \in drawn[k[2]] :
            draw[k[3]] # NoCode /\ (picks[k].grade = "right" <=> picks[k].code = draw[k[3]])

\* A crawl comes to an end even if no request ever succeeds.
CrawlsEnd == odds.pc # "idle" \/ res.pc # "idle" ~> odds.pc = "idle" /\ res.pc = "idle"
=============================================================================
