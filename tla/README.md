# Verification of sport_game2

sport_game2 is a football prediction game: users, two robots, "experts" and an
"AI" predict the results of the matches of the Chinese sports lottery; a spider
crawls the matches and the results, settles the predictions and keeps the number
of wins every user's ranking is based on. This directory holds TLA+ modules of
it, TLC configurations that check them on small instances, and TLAPS proofs.

Paths below are relative to `src/`; `internal/` is left out where a file name is
unambiguous.

## The system

Two programs share one PostgreSQL database. They never talk to each other; all
interaction goes through rows, and no operation on predictions uses a
transaction, so every statement is a point where another actor can come in.

| component | state | operations | interacts with |
|---|---|---|---|
| prediction store (`repo/user_repo.go`, `migrations/001_init.sql`) | `predictions`, its partial unique index | insert, duplicate query, update by id | everything below |
| betting (`service/bet/bet.go`) | `users.total_bets` | `CreateBet`: read and check the match, duplicate check, insert, increment | crawler (match row), settlement (row status) |
| robots (`cmd/server/main.go` `runRobotPredict`) | a list of matches read once | one insert per match and robot, once a day | betting, settlement |
| settlement (`user_repo.go` `SettleAllForMatch`) | `users.wins`, row status, pick grades | read result, read pending rows, per row update and increment, grade picks | run by the spider and by `POST /matches/:id/settle` |
| result store (`repo.go` `UpsertMatchResult`) | `match_results` | upsert, handicap draw added from the match row | spider, settlement |
| spider (`crawler/pipeline.go`, `crawler/sporttery`, `cmd/spider/main.go`) | page being worked on, tickers, health file, advisory lock | crawl odds, crawl results, settle | lottery site, database |
| server start (`cmd/server/main.go`) | - | runs every migration, 003 and 004 among them | `users.wins`, expert picks |
| credits (`pkg/credits/manager.go`) | `users.credits`, `credit_logs` | add for a share, daily reset | - |
| PK and leaderboard (`bet.go` `GetPK`, `service/leaderboard`) | none | reads that combine several queries | store |
| draw rules (`repo.go`, `crawler.go`, `bet.go`) | none | handicap draw, scores, PK winner, streak | result store, PK |
| predictors (`crawler/pipeline.go`, `service/result/result.go` `GetOrTriggerPredict`) | `ai_predictions`, `expert_predictions` | pick in every odds crawl; pick when a user asks for the picks of a match that has none | settlement grades the picks |
| login, avatar cache, configuration | a user row; a map; a file | get-or-create; refresh; read | - |

What is hard about it: concurrent calls of `CreateBet` and a check that is
separate from the insert; two settlers on the same rows, each working from a copy
of the result; a result that is corrected or withdrawn after bets were settled;
a process that dies, or a reply that is lost, between the two statements that
settle a won bet; migrations that run again at every start of the server while
the spider goes on; bets inserted behind a settler's snapshot; match rows whose
times are never refreshed; picks made by the server, on a user's request, beside those
of the spider. `PROJECT.json` lists these as hazards, each at its
line.

Who is right when two of these meet is decided in four places: the partial unique
index of `predictions`, the row lock of `credits.Manager.Add`, the advisory lock
of the spider, and the order of statements in `SettleAllForMatch` and `CreateBet`.
The properties below ask of each what it achieves, and what it does not.

## Modules

| module | models | builds on |
|---|---|---|
| `Store` | table `predictions`: inserts under the partial unique index, updates by id, counts | - |
| `Settlement` | `SettleAllForMatch`, run by spiders and settle requests; migrations 003 and 004 at server start | `Store` |
| `Betting` | `CreateBet`, the robots, the crawler's upsert of `matches` | `Store` |
| `Rows` | what settlement promises to readers of `predictions` while one settler works: the abstract specification of `Settlement` for `Boards` | `Store` |
| `Boards` | the daily comparison (`GetPK`), a user's list, the leaderboard, the check for complete days | `Rows` |
| `GameCore` | server, spider, crawler and clock over one `predictions` table | `Betting`, `Settlement` |
| `Crawl` | what a crawl reads and stores: the two odds pages, result pages, the handicap draw, the predictors' picks, those of the server among them | - |
| `Spider` | the process: advisory lock, tickers, select loop, health file, signals, restarts | - |
| `Purse` | what the accounts promise about credits: the abstract specification of `Accounts` | - |
| `Accounts` | `users` rows and connections: logins, shares, the daily reset, settle requests, the pool | `Purse`, which it implements |
| `...Proofs` | theorems about the module in their name (`WinsProofs`: the win counts of `Settlement`) | the module |
| `MC...` | instances for TLC | the module |

`GameCore` composes `Betting` and `Settlement` by their variable `predictions`:
each action of one leaves the other's variables alone, a restart of the server is
one step of both. `Settlement` is the abstract specification of the composed game:
its environment may insert any bet at any time, and `GameImplementsSettlement`
(checked in `MCGame`, proved in `GameProofs`) shows that the statements of
`CreateBet` and the robots' inserts are such an environment, so that all that is
proved of `Settlement` holds of the game.
`Rows` is the same idea one level up: `Settlement`, with one settler, implements it
(`ImplementsRows`, checked in `MCSettleSolo`, proved in `WinsProofs`, and for the
game in `GameProofs`). `Boards` extends `Rows`, so what players are shown is checked against
the interface of settlement and not against its statements. With two settlers a
row can be closed twice, the interface does not hold, and neither does what is said of `Boards`.
`Purse` has credits that change in one step each: an account is opened, a share adds its
bonus, a reset for a day sets everybody back. `Accounts` implements it
(`ImplementsPurse`, checked in `MCAccounts`, proved in `AccountsProofs`): locks,
transactions, connections and a reset that takes its rows one by one are all
behind that interface.

`Crawl`, `Spider` and `Accounts` share no state that matters with those: in
`Settlement` and `Betting` a crawl is one read of the site, in `Spider` it is a
job that ends, in `Accounts` a settle request is what it holds while it waits.

### How state and actions correspond to the code

*One action is one autocommitted statement* with the computation that follows
it, up to the next statement; what an actor has read and not yet used is a field
of its record. `map` in `PROJECT.json` gives each definition its lines.

- **Store.** A prediction is named by the call that inserts it, so a set `BetIds`
  of calls replaces the serial id. `is_correct` is written with `status` in one
  statement and always agrees with it, so it is no field of its own.
- **Settlement.** `proc[s]` is a settler inside `SettleAllForMatch`:
  `ReadResult` (`user_repo.go` 255), `QueryPending` (277), `UpdateRow` (295) and
  `Credit` (300) per row, `GradeExperts`, `GradeAis`. The rows are a set, for the
  query has no order. `page[s]` holds the crawled results the spider has not stored
  (`pipeline.go RunFootballResults`); only valid ones are settled after their
  upsert. Every error path has an action: `CallFails` (the early returns),
  `UpdateFails` (`continue`), `RowsCut` (the iterator's error, ignored),
  `GradeFails`, and, since a statement may take effect although its reply is lost,
  `CreditReplyLost`, `UpdateReplyLost`. `RestartServer` takes the snapshot of
  migration 003 and `BackfillWins` writes it; migration 004 makes an expert's
  pick "deleted". `losses` counts the wins that may be missing: one for each fault, one for
  each row settled as won while a migration runs, none after a restart's snapshot. A draw is stored as it was crawled; `Crawl` has the handicap
  draw that `UpsertMatchResult` may add.
- **Betting.** `call[b]` is a call of `CreateBet`: `Request` is the read of the match
  and the checks on it, then `CheckDuplicate`, `Insert`, `Count`. A match row has the
  time columns twice: as `match_time_str`, `bet_end_time_str`, which the checks
  read, and as in `raw_data`, which alone is refreshed. The robots read their
  list once (`RobotStart`) and insert row by row (`RobotBet`). Matches, times and
  options come from the constant `Listings`, what the site may list.
- **Crawl.** `odds` and `res` are the two crawls of the one goroutine of the
  spider. A fetch is an action per attempt (`OddsRetry`, `ResultsRetry`) and one for
  each way it ends; `FetchHhad` is the merge of the two pages. A score is the
  difference home minus away, all the rules look at. `Judged` is the handicap draw of
  `UpsertMatchResult`, `Shown` that of `GetDrawList`. The rule provider picks the favourite
  of the odds a match came with, an expert any code; a pick stored anew keeps its
  grade (`SetPick`). `asked[r]` is a request for picks: `AskPicks` is the query that
  finds none, `ReadMatch` reads the stored odds, `AskedPick` stores a pick, and
  `Answer` ends the request. `Correct` is a result the site
  publishes anew, which overwrites the one stored before (`repo.go` 124-133); picks graded by
  then are not graded again (`is_correct IS NULL`, `user_repo.go` 234-252). A grading is
  one update per table and sub type: `part` is what is done of it before one fails or
  the program ends. `pageLost` records that a crawl
  went on without the handicap page, `readLost` that the query of the stored handicap
  failed, `blind` that a request did not see picks there were, or that a match was
  stored anew under it: the code does not keep either, the properties need them.
- **Spider.** `pc[i]` is where an instance is in `main` and `Schedule`; `due[i]` are
  the tickers that have fired, one slot each. `lock` is the holder of the
  advisory lock, or `Ghost` while the database has not noticed that the holder's
  connection is gone. A cancelled context is looked at in the select only.
- **Accounts.** Who holds which connection (`conn`), who waits, and the row locks.
  `Add` is select for update, update, insert and commit on one connection; a
  settle request holds the connection of its open rows while it takes a second one
  for each statement. The reset locks its rows one by one, inside one UPDATE, which
  may fail and sets no row then (`ResetFails`). Its sleep is worked out once and lasts until
  the planned midnight or longer (`main.go` 184-189): that the wall clock is not set meanwhile is assumed. `ServerDies` ends every request, rolls
  back what was not committed and starts a reset goroutine that plans the next midnight. `ledger[u]` is `credit_logs.balance_after` since the last
  reset, `since[u]` the day of the first login. `total_bets`
  increments lock rows for one statement only and are left out.
- **Boards.** `call[r]` is a request: each query of `GetPK` (`PkUser`, `PkExpert`,
  `PkAi`) is an action, and a `Read` keeps the rows as the caller sees them from
  then on. `ListRow` and `ListResult` are the two moments of `GetUserPredictionsEnriched`
  for one row; each row is handled alone, so one row stands for all. `ListWinner`
  is what its loops make of the three verdicts. `BoardEntry` is one entry of the
  leaderboard; `Verdicts` has one sequence for each order of equal kickoffs, which the
  query leaves open. The clock counts hours, the betting day `d` runs from hour
  24 `d` + 11. A reader that does not look at `rows.Err()` may have a part of the rows
  (`Fetched`). `late`, `announced` and `guessed` are histories, needed to say what a
  comparison may miss.

## Runs

| run | asks | instance | expects |
|---|---|---|---|
| `MCSettleAll` | Is every verdict that of a draw once valid; does a failure lose more than one win, and does a restart mend it; how often can one row be counted? | 2 users, 2 bets, 2 codes; spider and settle request; an expert, an AI; 2 changes of the feed, 1 fault, 1 restart | pass |
| `MCSettleSolo` | A single settler: is a win counted twice, even across restarts, does it implement `Rows`; is everything settled and graded in the end? | 1 user, 2 bets; spider; an expert, an AI; 2 changes, 1 fault, 2 restarts; fair | pass |
| `MCSettleTwice` | Do two settlers count a win once? | spider and settle request, 1 change, no fault | violation |
| `MCBetPlace` | One bet per selection; counts and rows; does a closed match take anyone new? | 3 calls, 2 robot inserts, 2 wagers, 4 moments, 2 robot runs, 1 fault; kickoff and closing at 2, a lock of 1, the match on sale, on sale for the handicap only, stopped, or its closing time blank, with 1 change of times | pass |
| `MCBetMoved` | Is a bet accepted after the kickoff, when the site moves it? | 1 call, no lock, the kickoff moved from 2 to 1 | violation |
| `MCGame` | Does the game implement `Settlement`; are there bets after the result; two rows of one selection before it? | 2 calls, 1 robot insert; spider and settle request; 1 change, 1 fault on each side, 1 restart | pass |
| `MCGameTwice` | One bet per selection, with settlement? | 2 calls, spider | violation |
| `MCSpider` | How many spiders; does a signal end one; does a ticker starve; does the lock block all? | 2 daemons, a `--once` run, 2 stops, 1 closed lock connection; fair | pass |
| `MCSpiderTwo` | Is there one spider? | the same, no stops | violation |
| `MCCrawl` | Are handicaps judged, and shown by a right line; do graded picks stand, and is every grade that of a draw once valid; do crawls end? | 1 match, the rule provider, 1 request for picks, 3 offers (both wagers, HAD alone, HHAD alone, each with a favourite of its own), 2 changes of the lists or of the result, 2 result pages, 1 retry, lines -1 and -2, 3 outcomes (a home win with and without a line, a match called off); fair | pass |
| `MCBoards` | Does a decided comparison stand, its winner lead; is a complete day complete; does the list name who was right; are streaks right? | a user and 2 robots, 2 matches at the first and the last hour of one betting day, 3 hours, 3 bets, 2 stored results, 1 late bet, 1 fault, 1 request | pass |
| `MCAccounts` | Are balances exact; do the accounts implement `Purse`; does a due reset come; can requests wait in a ring? | a user and a robot, 2 logins, 2 shares, 1 settle request, 2 connections, 3 requests, 2 midnights, 1 failed reset or end of the server; fair | pass |

**What the passing runs show.** In the presence of failures, lost replies, deaths
and restarts: `VerdictsJustified`, `NoWinLost`, `CountedOncePerSettler` for any interleaving of settlers;
`NoWinInvented` (but for one increment that was under way in the snapshot of a restart),
`ImplementsRows`, `EveryBetSettled`, `EveryPickGraded` for the spider alone; `OneBetPerSelection` while no row is settled between the duplicate check and the
insert; `NoPhantomCount`, `EveryBetCounted`, `ClosedTakesNoOneNew`;
`AcceptedBeforeResult` and `OneBetUntilPlayed` while the site moves no match; `SpidersBounded`,
`FileWhileCrawling`, `StopsWhenAsked`, `NothingStarves`, `AlwaysASpider`;
`HandicapJudgedWhenCrawled` while no read of a handicap
fails, `DrawListRight` while no crawl goes on without the handicap page; `GradeStands` and
`GradesJustified`, for the rule provider as long as no request took picks it
could not see for none; `CrawlsEnd`; `LedgerExact`, `NoStall`, `ImplementsPurse`,
`EveryoneReturns`, and `DueResetComes` unless the reset fails or the server ends; `PKStands`, `WinnerLeads`, `SoleWinnerNamed`, `EntriesHold`, and
`ReadyHolds` for days that were not found complete from a part of their rows.
`PKStands` is worth a word: three queries at three moments could show a day that
never was. They do not, because a comparison is decided only when every row it
read is closed, closed rows do not change, and the day is over before it is looked at.

Two properties say how far a violation below can go. `CountedOncePerSettler` bounds
`MCSettleTwice`: two settlers may count one row twice, but no settler counts it twice,
however often it retries and whatever it holds, so wins are at most the closed rows times
the settlers (and once more for the migrations of all restarts together).
`OneBetUntilPlayed` bounds `MCGameTwice`: a second row needs the first one to be settled,
a row is settled by a result, and a result comes after the kickoff; until then one
selection has one row.

**What the violations show.** Each is a sentence of the repository that the code
does not keep; `findings` in `PROJECT.json` quotes it.

- `MCSettleTwice`: the spider and a settle request read the same pending row; both
  update it by id and both run `wins = wins + 1`. Settled bets are processed
  again (`openapi.yaml` 626), and the user has more wins than won bets.
- `MCBetMoved`: the site brings a match forward from 2 to 1, `UpsertMatch` keeps the old time
  columns, and a bet is accepted at 2, after the kickoff the crawler stored last (`openapi.yaml` 494).
- `MCGameTwice`: a call has passed the duplicate check; its twin inserts, and
  the row is settled. The index sees pending rows only, so the second insert goes in
  (`openapi.yaml` 498).
- `MCSpiderTwo`: the pool closes the connection of the advisory lock when it is five
  minutes old (`repo.go` 51), and a second spider gets the lock.

Further disagreements need no run of their own. A process that dies, or an
increment that fails, between the update of a row and the increment of `wins` loses
the win (`user_repo.go` 300): `losses` in `NoWinLost`. Only the next start of the server
(migration 003) mends it, and may itself lose the rows settled as won while it
runs, and add the increment that was under way when it counted.
`openapi.yaml` 539 calls several right roles a tie, while `ListWinner`, as the code,
names the user when all three are right: `SoleWinnerNamed` states the part of
the rule that holds. When a result is corrected, what was settled or graded by the old one
stays: a graded pick may contradict the draw that is stored, and a robot and the user may
both be shown as right with different codes. `GradesJustified` and `VerdictsJustified` say
that the draw was once stored, or published, as valid, not that it is the last one. A day whose reset fails, or whose midnight comes while the server is
down, has no reset (`main.go` 193): the exception of `DueResetComes`, and why `Purse`
promises one reset a day *at most*. And `main.go` 109 says that each bet costs 2
bones, while nothing that places a bet changes credits.

**Bounds, and why they are enough.** Two actors at the same rows are what every race
here needs: two settlers, two calls plus one that comes later, two daemons, two
shares. Rows of different users, matches and wagers meet only in the counts
(`wins`, `total_bets`), so two users and two rows per count show a count that goes
to the wrong user or is off by one. One match is enough for settlement, betting
and the crawl, whose loops treat one match after the other and keep nothing
between them; the leaderboard and the comparison count over matches, and have two. A correction and a withdrawal of a result are two changes of the
feed; in `Crawl` `MaxListings` counts both the changes of the lists and those of a result, so two
cover a line that changes, a match that leaves the list, and a result that is called off and on
again. `MCBetPlace` goes one moment beyond the kickoff, so bets are made, and rows come in, after
the lock, at the kickoff and after it. Faults are counted in `NoWinLost` and excused one by one in `DueResetComes`, so
one shows the step from one to the next; two restarts show that the win a restart may
invent is one, however often the server starts. A draw is a code among two, or none, for a verdict only compares codes; in
`Crawl` the codes are the real ones, the score is a home win by one and the lines
turn it into a draw or a defeat. Symmetry (users, bets, codes; calls; robot
inserts) is declared only in runs that check no liveness. `CHECK_DEADLOCK FALSE` is set
in `MCAccounts` and `MCBoards` alone, whose requests, hours, bets and ends of the server run out. The
bounds of the theorems are none: they hold for every value of the constants.

**Fairness.**

- `Settlement`: weak fairness of each spider's steps. Its tickers fire as long as the
  process runs (and Docker restarts it), and its statements return. No fairness
  for settle requests, bets, the feed or the server; nothing is assumed of faults,
  which are bounded.
- `Crawl`: weak fairness of each crawl's steps, a failing fetch being one of them: every
  request has a timeout (`client.go`).
- `Spider`: weak fairness of an instance's own steps (jobs end), of the tickers, of
  starting a daemon (`restart: always` in `docker-compose.yml`) and of the
  database noticing a closed connection. Strong fairness of each branch of the
  select: Go chooses at random among the ready cases, so a case that is ready
  again and again is taken. Without it neither `NothingStarves` nor `StopsWhenAsked`
  would hold, since jobs may be longer than the intervals.
- `Accounts`: weak fairness of a request's next statement and of the reset's. Whether one
  starves behind an endless stream of others, which the order in which pool and database
  serve those who wait decides, is not examined, for requests are bounded.

## Proofs

TLAPS proves, for every value of the constants that meets the named assumptions
(`StoreAssumption`, `NoRowAssumption`, `SettleAssumption`, `BetAssumption`,
`SpiderAssumption`, `CrawlAssumption`, `AccountsAssumption`, `BoardsAssumption`; TLC evaluates them in
every run):

| theorem | says | by |
|---|---|---|
| `SettleTypeCorrect`, `VerdictsAreJustified` | types; verdicts come from draws published as valid | `SettleInv` |
| `NoWinIsLost` | won rows <= wins + increments under way + losses, across restarts | `CalmInv` |
| `RowsAreCountedOncePerSettler` | each settler counts a row once at most, all restarts together once more | `ShareInv` |
| `CallsWindDown`, `PassesWindDown` | a call of `SettleAllForMatch`, and a spider's pass, come nearer to their end with every statement; nothing sets them back | variants `StepsOf`, `PassLeft` |
| `NoWinIsInvented`, `SettledOnlyOnce`, `WinsAreExactAtRest` | one settler: no win too many, but for one after restarts; no row settled again; exact without losses and restarts | `SoloInv` |
| `BetTypeCorrect`, `OneBet`, `NoPhantomCounts` | types; one row per selection; counts never ahead of rows | `BetTypeOK`, `AllPending` |
| `EveryBetIsCounted` | no row uncounted but those of calls under way or failed | `CountedInv` |
| `ClosedMatchTakesNoOneNew` | whoever gets a row on a match that is stopped, locked or started was past the checks by then | `WhoInserts`, `BetTypeOK` |
| `NoBetAfterTheResult` | while the site moves no match: none is bet on whose result is stored | `TimesFresh`, `ResultsPlayed` |
| `SettlementImplementsRows`, `GameImplementsRows` | one settler: the interface of the readers | `SettleInv`, `WorkPending` |
| `GameImplementsSettlement`, `GameVerdictsJustified`, `GameNoWinLost`, `GameCountedOncePerSettler`, `GameSettlesOnce` | refinement, and what follows from it | `GameInv` |
| `GameTypeCorrect`, `GameNoPhantomCount`, `GameEveryBetCounted`, `GameClosedMatchTakesNoOneNew` | the promises of `Betting` survive settlement and restarts | `GameInv`, `CountedInv` |
| `OneBetUntilKickoff`, `ClosedAfterKickoff` | while the site moves no match: one row per selection, and no closed row, before the match was played | `DrawsPlayed`, `PendingUnique` |
| `SpiderTypeCorrect`, `SpidersAreBounded`, `FileIsThere` | types; spiders <= 1 + closed lock connections; the health file | `SpiderInv` |
| `CrawlTypeCorrect`, `HandicapsAreJudged`, `DrawListsAreRight`, `GradesStand`, `GradesAreJustified` | types; handicaps judged, and shown by a line of the site, for all lines and scores; graded picks stay, and a grade is that of a draw once valid | `CrawlInv` |
| `CrawlsWindDown` | every step of a crawl, failed attempts too, brings it nearer to its end | variants `OddsLeft`, `ResLeft` |
| `AccountsTypeCorrect`, `LedgerIsExact`, `NeverStalls` | types; exact balances; no ring of waiting | `AccountsInv` |
| `RequestsWindDown` | every statement of a request brings it nearer to its end | variant `StatementsLeft` |
| `AccountsImplementPurse` | refinement: no share lost, one reset a day, which leaves out nobody it is for | `AccountsInv`, `ResetSetOK` |
| `BoardsTypeCorrect`, `PKStandsForEver`, `WinnerLeadsAlways`, `ReadyMeansReady`, `SoleWinnerIsNamed` | types; comparisons stand, for any number of users, bets, requests and corrections; the winner leads; complete days; who alone was right is named | `BoardsInv` |
| `EntriesAlwaysHold` | an entry shows no verdict that is not in the table; streaks | `EntryKept` in `BoardsInv` |
| `StreakIsLongest`, `WinnerOf`, `LastDayIsLast` | what `calcStreak`, `decidePKWinner` and the day of `GetPK` compute, for every input | - |
| `BoardsImplementRows` | `Boards` is built on the interface of settlement and changes nothing behind it | - |

The arguments:

- **Verdicts.** `VerdictsJustified` is not inductive: a settler settles by a copy it
  read earlier. `SettleInv` adds that this copy was published as valid for the match the
  settler works on and that its rows are of that match (`ProcOK`), and that a stored valid
  result is in the history (`StoredPublished`). The history only grows, so a correction
  never takes a justification away.
- **Wins.** `NoWinLost` has one lemma per way the three counts change: a row that
  becomes won puts its settler among those that credit; a credit moves one from there
  to `wins`; a failure drops one and adds to `faults`. A row that was
  won and becomes lost only helps. `CalmInv` carries that over a restart: while the
  migration runs, what counts is the number its snapshot has for a user (`Shown`), for an
  increment beside it may be overwritten.
  `NoWinInvented` is the other direction and needs `WorkPending`: the rows a
  settler has still to do are pending, which is true of a single settler only (`Solo`), and
  false with two: see `MCSettleTwice`. `SnapshotOK` says that a snapshot shows
  no more than the won rows, so all a restart can add is the one increment
  that was under way when it was taken.
- **Counts per settler.** `CountedOncePerSettler` is about a number; its invariant is about pairs.
  `Held(u)` has the pairs of a settler and a closed row of `u` that the settler may still count or
  counts now; `ShareInv` says that `wins` and these pairs together are no more than all pairs there are.
  A row that is closed brings one new pair for each settler, an increment uses up one, and a settler
  that reads anew reads pending rows only, which are in no pair. A restart sets `wins` to the won
  rows of its snapshot, which the one share more that `restarts > 0` adds pays for.
- **Bets.** `OneBetPerSelection` follows from `AllPending`: as long as nothing settles,
  the partial index is a full one. `MCGameTwice` shows that this is needed.
  `EveryBetCounted` holds because a human's row belongs to a call that counts, has counted or
  has failed (`CountedInv`). `ClosedTakesNoOneNew` is about steps and needs the types
  alone: `Callers` and `RobotsOn` grow by `Request` and `RobotStart` only, which look at the match
  (`ClosedToCalls`, `ClosedToRobots`), and an insert turns who may insert into who has a row
  (`WhoInserts`). It says nothing about the times of the site, only about those in the table. `TimesFresh` says that the times the checks read are those the
  crawler saw last, which `MaxMoves = 0` makes true; then whatever holds a result, be it
  the site, a page or the database, is of a match that was played (`ResultsPlayed`), and
  the checks refuse it. `MCBetMoved` shows why such an assumption is needed. From the same
  invariant a draw is of a match that was played (`DrawsPlayed`), by `VerdictsJustified` so is a closed
  row, and the pending rows are unique (`PendingUnique`): together `OneBetUntilPlayed`.
- **Refinement.** `GameInv` (the types and `SettleInv`) lets every step of the game be a
  step of `Betting` that inserts a row or leaves the table alone, or a step of
  `Settlement`; a restart is the restart of `Settlement`. What `Betting` promises has no such
  shortcut, for settlement is no step of it: the lemmas of `BettingProofs` about its steps
  are used again, and `SettleRows` says what settlement does to rows (their status, one at a time).
- **Interface.** Every step of a settler maps to closing a row, by the draw it
  read (`ProcOK` says it was published), to storing a result, or to a stutter. That the
  row is still pending is `WorkPending` again.
- **Boards.** `BoardsInv` says of every comparison what is left of what its queries
  read: the rows are still there, the closed ones are what they were, and only
  late rows of the roles read so far are missing (`PkKept`). All it uses of the rest
  of the system is `TableGrows`: rows come, rows are closed, closed rows stay,
  and a row new to a day that is over is late (`NewRowsLate`). That the day is
  over is arithmetic about 11:00 (`LastDayIsLast`). The verdicts of an entry are matched to rows
  by an injection: each has a closed row of its own with that verdict, and closed rows
  stay (`EntryKept`).
- **Streaks.** `CalcStreak` is written with a recursive function over the indices. That `Cur(v)[i]` counts
  the wins that end at `i` is shown for the least index where it would fail (`WFMin`), since the induction
  theorems cannot be used; the longest such count is the longest run.
- **Ends.** Fairness makes a settler or a crawl take steps; what a proof can add is that the steps lead
  somewhere. The variants bound the steps left: two per row and a few more for a call, a call per result
  for a pass, attempts times pages and a pick per match and wager for a crawl. `CallsWindDown`,
  `PassesWindDown`, `CrawlsWindDown` and, for the requests of `Accounts`, `RequestsWindDown` say that every step, done or failed, makes its variant smaller, and that
  corrections, new bets, other settlers and users leave it as it is. Matches (for a crawl, pickers as well)
  are finite; the pages of results are the site's, `MaxPages`.
- **Spiders.** The spiders at work without the lock are at most as many as lock
  connections closed: the inductive form of `SpidersBounded`.
- **Crawls.** One goroutine crawls, so a match whose result is stored is neither listed nor
  held by an odds crawl any more, and its stored line is final (`ShapeOK`, `ResultsOK`).
  A stored draw comes from a row the site published, with the stored line or without
  (`ResultFrom`), so its handicap draw is by a line that was offered or told (`DrawByLine`), and if it is
  missing the draw list works it out from the stored line, which is there unless a crawl
  lost the handicap page (`LinesOK`, `DrawMade`). Grades: a correction may add draws and takes none of
  `drawn` away (`DrawnKept`), a grading grades what has no grade, by one of them, and no step
  changes a graded pick (`PickSteps`). A request for
  picks picks what the spider has picked already: it saw no picks and reads the match
  as it is (`AskSees`), unless it is `blind`.
- **Accounts.** A row is locked by the share that has read it, whose copy of
  the balance is therefore the row's (`LocksOK`, `BalancesOK`). If nobody can go on,
  whoever holds a row lock could, so there is none; then every connection is
  held by a settle request that waits for a second, each by another one, and by
  the pigeonhole principle there are as many settle requests as connections. For `Purse`,
  a commit is the share, since the copy is the balance; a reset that has locked its last
  row is the reset for its day, and `ResetSetOK` says that it has locked all who were
  there when the day began.

**Only model-checked:** liveness (`EveryBetSettled`, `EveryPickGraded`,
`StopsWhenAsked`, `NothingStarves`, `AlwaysASpider`, `CrawlsEnd`, `DueResetComes`,
`EveryoneReturns`): fairness is about ENABLED, which is beyond the prover, and only the part of it
that needs no fairness is proved, for settlement, the crawl and the requests; and the violations. Every invariant
and action property of a passing run is a theorem.

## What no property catches

Some hazards of `PROJECT.json` have no property: the code does what they fear, the models
have the step, and no line of the repository is clear enough to be refuted by it, or the property
that holds must leave the case out. They are

- the handicap page that fails, so that a handicap disappears from a stored match and the bets on it are
  lost (`crawler.go` 70): `pageLost` is the exception of `HandicapJudgedWhenCrawled` and `DrawListRight`;
- a wager without a draw, whose bets are all lost (`user_repo.go` 289);
- as many settle requests as the pool has connections, which wait on each other
  (`user_repo.go` 277): `NoStall` and `EveryoneReturns` are about fewer;
- days judged, and lists shown, from a part of the rows (`user_repo.go` 571): `guessed`;
- verdicts of a list read at two moments, its dropped errors, and its tie rule (`bet.go` 260, 264, 294);
- a match that is on the first page only (`crawler.go` 93), a user deleted by migration 006, and the
  age of the health file (`pipeline.go` 269), which is not modelled.

Assumed of the site and the host: a match that has a result is not put on sale again; it is listed with
at least one wager; and the wall clock is not set back under the server.

## Not modelled, and why

- The accuracy percentages of the comparison and the leaderboard. The settle rules of `openapi.yaml`
  619-626 that the code does not implement have nothing to be modelled from.
- `Deduct`, `Refund` and `Award` of the credits manager, `SettlePrediction`: no caller.
- `AvatarCache`: only `Get` writes its map, under the lock; `Refresh`, which would clear an
  entry while another request uses it, has no caller.
- Migrations other than 003 and 004: they create and alter tables, which is done once, and
  006 deletes, at each start, the users whose `open_id` begins with `oS` and one more character
  (`_` stands for any), with their predictions: meant for users of an earlier version.
- Match lists, teams, leagues, logos, the spider's job log, the parsing of the site's replies: no
  decision of the program depends on them beyond what `Crawl` keeps.
- Configuration, HTTP handlers, tokens, the calls to WeChat, profiles, the web page,
  message types: input, output and data without a state of their own.
- The age of the health file, statements that hang: `Spider` assumes that jobs end.

## Plan

Done, in this order, the most important behaviour first: `Store` and `Settlement`
(who has won), `Betting` (who may bet), `GameCore` (both together), `Spider`, `Crawl`,
`Accounts`, `Rows` and `Boards`, each with its proofs before the next. Then the win counts
across restarts, the failures of the daily reset and the abstract `Purse`, the server's own
picks in `Crawl`, and the proofs of what had only been model-checked: `EveryBetCounted`,
`SoleWinnerNamed`, the two properties of accepted bets, `EntriesHold` with its streaks. Then what the
violations leave (`CountedOncePerSettler`, `OneBetUntilPlayed`), the promises of `Betting` in the
composed game, and the variants of calls, passes, crawls and requests.

What is left:

1. The robots over several days: a start of the server just before noon, and two runs on
   one day, as the reset has them in `Accounts`.
2. Two matches of one user in `Crawl` and `Settlement` together: a handicap bet settled
   by the draw of `Judged`.
3. Variants for the daily reset and for a spider that was asked to stop, as
   `CallsWindDown` has them for settlement.
