-------------------------------- MODULE Purse --------------------------------
(***************************************************************************)
(* What the accounts promise about credits, with no statement, lock or     *)
(* connection in sight: a user starts with some, every share adds its      *)
(* bonus at once, and a day has one reset at most, which leaves out none   *)
(* of those who came before that day.  Nothing else changes credits.       *)
(* Accounts is shown to implement it (ImplementsPurse).                    *)
(***************************************************************************)
EXTENDS Naturals

CONSTANTS Users, None,   \* None: no credits before the first login
          StartCredits, InitialCredits, ShareBonus

VARIABLES purse,     \* the credits of each user
          since,     \* the day of the first login
          day,
          lastReset  \* the day the last reset was for

purseVars == <<purse, since, day, lastReset>>

Owners == {u \in Users : purse[u] # None}

PurseInit ==
    /\ purse = [u \in Users |-> None]
    /\ since = [u \in Users |-> 0]
    /\ day = 0 /\ lastReset = 0

Open(u) ==
    /\ u \notin Owners
    /\ purse' = [purse EXCEPT ![u] = StartCredits[u]]
    /\ since' = [since EXCEPT ![u] = day]
    /\ UNCHANGED <<day, lastReset>>

Share(u) ==
    /\ u \in Owners
    /\ purse' = [purse EXCEPT ![u] = @ + ShareBonus]
    /\ UNCHANGED <<since, day, lastReset>>

\* The reset for day d, late or not; who comes while it runs may be left out.
ResetFor(d, R) ==
    /\ d > lastReset /\ d <= day
    /\ {u \in Owners : since[u] < d} \subseteq R /\ R \subseteq Owners
    /\ purse' = [u \in Users |-> IF u \in R THEN InitialCredits ELSE purse[u]]
    /\ lastReset' = d
    /\ UNCHANGED <<since, day>>

Midnight ==
    /\ day' = day + 1
    /\ UNCHANGED <<purse, since, lastReset>>

PurseNext ==
    \/ \E u \in Users : Open(u) \/ Share(u)
    \/ \E d \in 1 .. day, R \in SUBSET Users : ResetFor(d, R)
    \/ Midnight

PurseSpec == PurseInit /\ [][PurseNext]_purseVars
=============================================================================
