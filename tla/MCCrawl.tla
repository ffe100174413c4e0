------------------------------ MODULE MCCrawl ------------------------------
(* Instances of Crawl for TLC. *)
EXTENDS Crawl

\* A home win by one goal with the line, a draw without it, and a match called off.
MCOutcome(valid, flag, diff, line) == [valid |-> valid, winFlag |-> flag, diff |-> diff, line |-> line]

MCOutcomes == {MCOutcome(TRUE, "3", 1, -1), MCOutcome(TRUE, "1", 0, NoLine),
               MCOutcome(FALSE, NoCode, NoScore, NoLine)}
MCLines == {-1, -2}

\* Both wagers, HAD alone and HHAD alone, each with a line and a favourite of its own.
MCOffer(had, line, code) ==
    [had |-> had, line |-> line, favour |-> [st \in SubTypes |-> code]]

MCOffers == {MCOffer(TRUE, -1, "3"), MCOffer(TRUE, NoLine, "1"), MCOffer(FALSE, -2, "1")}
=============================================================================
