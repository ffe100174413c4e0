---------------------------- MODULE SpiderProofs ----------------------------
(* Proofs about Spider. *)
EXTENDS Spider, FiniteSetTheorems, TLAPS

\* The spiders at work without the lock: one that got it holds it until the pool
\* closes the connection, so there are at most as many as connections closed.
Unlocked == Working \ {lock}

SpiderInv ==
    /\ SpiderTypeOK
    /\ Cardinality(Unlocked) <= recycles
    /\ FileWhileCrawling

LEMMA WorkingFinite ==
    ASSUME SpiderTypeOK
    PROVE  /\ IsFiniteSet(Working) /\ Cardinality(Working) \in Nat
           /\ IsFiniteSet(Unlocked) /\ Cardinality(Unlocked) \in Nat
<1>1. IsFiniteSet(Working) /\ IsFiniteSet(Unlocked)
  BY SpiderAssumption, FS_Subset DEF Working, Unlocked
<1> QED  BY <1>1, FS_CardinalityType

LEMMA SpiderInitInv == SpiderInit => SpiderInv
<1> SUFFICES ASSUME SpiderInit PROVE SpiderInv  OBVIOUS
<1>1. SpiderTypeOK  BY DEF SpiderInit, SpiderTypeOK, Instances
<1>2. Unlocked = {}  BY DEF SpiderInit, Unlocked, Working
<1>3. Cardinality(Unlocked) <= recycles
  BY <1>2, FS_EmptySet DEF SpiderInit
<1>4. FileWhileCrawling
  BY DEF SpiderInit, FileWhileCrawling, Scheduled, Instances
<1> QED  BY <1>1, <1>3, <1>4 DEF SpiderInv

-----------------------------------------------------------------------------
(* Type correctness, action by action.                                     *)

LEMMA EndType ==
    ASSUME SpiderTypeOK, NEW i \in Instances, End(i)
    PROVE  /\ pc' \in [Instances -> Scheduled \cup {"off", "lock", "boot", "clear", "exit"}]
           /\ due' \in [Instances -> SUBSET Jobs]
           /\ cancelled' \in [Instances -> BOOLEAN]
           /\ \A k \in OneShots : due'[k] = {} /\ ~cancelled'[k]
BY DEF SpiderTypeOK, End, Instances

LEMMA TypeProgress ==
    ASSUME SpiderTypeOK, NEW i \in Instances, Progress(i)
    PROVE  SpiderTypeOK'
<1>1. CASE TryAcquireLock(i)
  <2>1. CASE lock = Free /\ lock' = i /\ Goto(i, IF i \in Daemons THEN "boot" ELSE "firstOdds")
             /\ UNCHANGED <<due, cancelled>>
    BY <1>1, <2>1 DEF TryAcquireLock, SpiderTypeOK, Goto, Scheduled
  <2>2. CASE lock # Free /\ End(i) /\ UNCHANGED lock
    BY <1>1, <2>2, EndType DEF TryAcquireLock, SpiderTypeOK
  <2> QED  BY <1>1, <2>1, <2>2 DEF TryAcquireLock
<1>2. CASE Boot(i)  BY <1>2 DEF Boot, SpiderTypeOK, Goto, Scheduled
<1>3. CASE EndJob(i)  BY <1>3 DEF EndJob, SpiderTypeOK, Goto, Scheduled
<1>4. CASE WriteHealth(i)  BY <1>4 DEF WriteHealth, SpiderTypeOK, Goto, Scheduled
<1>5. CASE ClearHealth(i)  BY <1>5 DEF ClearHealth, SpiderTypeOK, Goto, Scheduled
<1>6. CASE Exit(i)  BY <1>6, EndType DEF Exit, Release, SpiderTypeOK
<1> QED  BY <1>1, <1>2, <1>3, <1>4, <1>5, <1>6 DEF Progress

LEMMA TypeStops ==
    ASSUME SpiderTypeOK, NEW i \in Instances,
           Signal(i) \/ Kill(i) \/ StartFails(i) \/ Recycle(i)
    PROVE  SpiderTypeOK'
<1>1. CASE Signal(i)
  <2>1. CASE i \in Daemons /\ pc[i] \notin {"lock", "boot"}
    <3>1. UNCHANGED <<pc, due, lock, health, recycles>> /\ stops' = stops + 1
          /\ cancelled' = [cancelled EXCEPT ![i] = TRUE]
      BY <1>1, <2>1 DEF Signal, Stop
    <3>2. \A k \in OneShots : cancelled'[k] = cancelled[k]
      BY <2>1, <3>1, SpiderAssumption DEF SpiderTypeOK, Instances
    <3>3. cancelled' \in [Instances -> BOOLEAN]  BY <3>1 DEF SpiderTypeOK
    <3>4. stops' \in Nat  BY <3>1 DEF SpiderTypeOK
    <3> QED  BY <3>1, <3>2, <3>3, <3>4 DEF SpiderTypeOK
  <2>2. CASE ~(i \in Daemons /\ pc[i] \notin {"lock", "boot"})
    BY <1>1, <2>2, EndType DEF Signal, Stop, Release, SpiderTypeOK
  <2> QED  BY <2>1, <2>2
<1>2. CASE Kill(i)  BY <1>2, EndType DEF Kill, Stop, Release, SpiderTypeOK
<1>3. CASE StartFails(i)  BY <1>3, EndType DEF StartFails, Stop, SpiderTypeOK
<1>4. CASE Recycle(i)  BY <1>4 DEF Recycle, Release, SpiderTypeOK
<1> QED  BY <1>1, <1>2, <1>3, <1>4

LEMMA TypeSchedule ==
    ASSUME SpiderTypeOK, NEW i \in Instances,
           \/ Start(i) \/ Shutdown(i) \/ Heartbeat(i)
           \/ \E j \in Jobs : Fire(i, j) \/ Serve(i, j)
    PROVE  SpiderTypeOK'
<1>1. CASE Start(i)  BY <1>1 DEF Start, SpiderTypeOK, Goto
<1>2. CASE Shutdown(i)  BY <1>2 DEF Shutdown, SpiderTypeOK, Goto
<1>3. CASE Heartbeat(i)  BY <1>3 DEF Heartbeat, SpiderTypeOK
<1>4. ASSUME NEW j \in Jobs, Fire(i, j) PROVE SpiderTypeOK'
  BY <1>4, SpiderAssumption DEF Fire, SpiderTypeOK, Instances
<1>5. ASSUME NEW j \in Jobs, Serve(i, j) PROVE SpiderTypeOK'
  BY <1>5 DEF Serve, SpiderTypeOK, Goto, Scheduled, Jobs, Instances
<1> QED  BY <1>1, <1>2, <1>3, <1>4, <1>5

-----------------------------------------------------------------------------
(* The spiders without the lock, action by action.                         *)

\* A process that ends was not one of them or leaves them.
LEMMA EndUnlocked ==
    ASSUME SpiderTypeOK, NEW i \in Instances, End(i),
           Release(i) \/ UNCHANGED lock \/ lock = Free
    PROVE  Unlocked' \subseteq Unlocked
BY SpiderAssumption DEF SpiderTypeOK, End, Release, Unlocked, Working

LEMMA UnlockedSteps ==
    ASSUME SpiderTypeOK, NEW i \in Instances,
           \/ Start(i) \/ Progress(i) \/ Shutdown(i) \/ Heartbeat(i)
           \/ \E j \in Jobs : Fire(i, j) \/ Serve(i, j)
           \/ Signal(i) \/ Kill(i) \/ StartFails(i)
    PROVE  Unlocked' \subseteq Unlocked /\ recycles' = recycles
<1>1. CASE Start(i)  BY <1>1 DEF Start, Goto, SpiderTypeOK, Unlocked, Working
<1>2. CASE TryAcquireLock(i)
  <2>1. recycles' = recycles  BY <1>2 DEF TryAcquireLock
  <2>2. CASE lock = Free /\ lock' = i /\ Goto(i, IF i \in Daemons THEN "boot" ELSE "firstOdds")
    BY <2>2, <1>2, SpiderAssumption DEF TryAcquireLock, Goto, SpiderTypeOK, Unlocked, Working
  <2>3. CASE End(i) /\ UNCHANGED lock  BY <2>1, <2>3, EndUnlocked
  <2> QED  BY <1>2, <2>1, <2>2, <2>3 DEF TryAcquireLock
<1>3. CASE Boot(i)  BY <1>3 DEF Boot, Goto, SpiderTypeOK, Unlocked, Working
<1>4. CASE EndJob(i)  BY <1>4 DEF EndJob, Goto, SpiderTypeOK, Unlocked, Working, Jobs
<1>5. CASE WriteHealth(i)  BY <1>5 DEF WriteHealth, Goto, SpiderTypeOK, Unlocked, Working
<1>6. CASE ClearHealth(i)  BY <1>6 DEF ClearHealth, Goto, SpiderTypeOK, Unlocked, Working
<1>7. CASE Exit(i)  BY <1>7, EndUnlocked DEF Exit
<1>8. CASE Shutdown(i)  BY <1>8 DEF Shutdown, Goto, SpiderTypeOK, Unlocked, Working
<1>9. CASE Heartbeat(i)  BY <1>9 DEF Heartbeat, Unlocked, Working
<1>10. ASSUME NEW j \in Jobs, Fire(i, j) PROVE Unlocked' \subseteq Unlocked /\ recycles' = recycles
  BY <1>10 DEF Fire, Unlocked, Working
<1>11. ASSUME NEW j \in Jobs, Serve(i, j) PROVE Unlocked' \subseteq Unlocked /\ recycles' = recycles
  BY <1>11 DEF Serve, Goto, SpiderTypeOK, Unlocked, Working, Jobs
<1>12. CASE Signal(i)
  <2>1. CASE End(i) /\ Release(i)  BY <1>12, <2>1, EndUnlocked DEF Signal
  <2>2. CASE UNCHANGED <<pc, due, lock>>  BY <1>12, <2>2 DEF Signal, Unlocked, Working
  <2> QED  BY <1>12, <2>1, <2>2 DEF Signal
<1>13. CASE Kill(i)  BY <1>13, EndUnlocked DEF Kill
<1>14. CASE StartFails(i)
  <2>1. End(i) /\ (UNCHANGED lock \/ lock = Free) /\ recycles' = recycles
    BY <1>14 DEF StartFails
  <2> QED  BY <2>1, EndUnlocked
<1> QED
  BY <1>1, <1>2, <1>3, <1>4, <1>5, <1>6, <1>7, <1>8, <1>9, <1>10, <1>11, <1>12, <1>13, <1>14
  DEF Progress

\* The bound survives every step: only Recycle adds a spider without the lock.
LEMMA UnlockedBound ==
    ASSUME SpiderInv, [SpiderNext]_spiderVars, SpiderTypeOK'
    PROVE  Cardinality(Unlocked') <= recycles'
<1> USE DEF SpiderInv
<1>1. Cardinality(Unlocked) \in Nat /\ IsFiniteSet(Unlocked) /\ recycles \in Nat
  BY WorkingFinite DEF SpiderTypeOK
<1>2. ASSUME Unlocked' \subseteq Unlocked, recycles' = recycles
      PROVE  Cardinality(Unlocked') <= recycles'
  <2>1. Cardinality(Unlocked') <= Cardinality(Unlocked)  BY <1>1, <1>2, FS_Subset
  <2>2. Cardinality(Unlocked') \in Nat  BY <1>1, <1>2, FS_Subset, FS_CardinalityType
  <2> QED  BY <1>1, <1>2, <2>1, <2>2
<1>3. ASSUME NEW i \in Instances, Recycle(i) PROVE Cardinality(Unlocked') <= recycles'
  <2>1. Unlocked' \subseteq Unlocked \cup {i}
    BY <1>3 DEF Recycle, Release, Unlocked, Working
  <2>2. recycles' = recycles + 1  BY <1>3 DEF Recycle
  <2>3. /\ IsFiniteSet(Unlocked \cup {i})
        /\ \/ Cardinality(Unlocked \cup {i}) = Cardinality(Unlocked)
           \/ Cardinality(Unlocked \cup {i}) = Cardinality(Unlocked) + 1
    BY <1>1, FS_AddElement
  <2>4. Cardinality(Unlocked \cup {i}) \in Nat  BY <2>3, FS_CardinalityType
  <2>5. Cardinality(Unlocked') <= Cardinality(Unlocked \cup {i})  BY <2>1, <2>3, FS_Subset
  <2>6. Cardinality(Unlocked') \in Nat  BY <2>1, <2>3, FS_Subset, FS_CardinalityType
  <2> QED  BY <1>1, <2>2, <2>3, <2>4, <2>5, <2>6
<1>4. ASSUME Reap PROVE Cardinality(Unlocked') <= recycles'
  <2>1. Unlocked' \subseteq Unlocked
    BY <1>4, SpiderAssumption DEF Reap, Unlocked, Working
  <2> QED  BY <1>2, <1>4, <2>1 DEF Reap
<1>5. ASSUME UNCHANGED spiderVars PROVE Cardinality(Unlocked') <= recycles'
  BY <1>2, <1>5 DEF spiderVars, Unlocked, Working
<1> QED  BY <1>2, <1>3, <1>4, <1>5, UnlockedSteps DEF SpiderNext

-----------------------------------------------------------------------------
(* The health file.  While no connection was closed, a spider at work holds *)
(* the lock, so there is no other one whose file it could remove.          *)

LEMMA SoleWorker ==
    ASSUME SpiderInv, recycles = 0
    PROVE  Working \subseteq {lock}
<1>1. IsFiniteSet(Unlocked) /\ Cardinality(Unlocked) = 0
  BY WorkingFinite DEF SpiderInv
<1>2. Unlocked = {}  BY <1>1, FS_EmptySet
<1> QED  BY <1>2 DEF Unlocked

LEMMA FileKept ==
    ASSUME SpiderInv, [SpiderNext]_spiderVars
    PROVE  FileWhileCrawling'
<1> SUFFICES ASSUME recycles' = 0, NEW d \in Daemons, pc'[d] \in Scheduled
             PROVE  health'
  BY DEF FileWhileCrawling
<1> USE DEF SpiderInv
<1>1. d \in Instances  BY DEF Instances
<1>2. ASSUME recycles = 0, pc[d] \in Scheduled, health' = health PROVE health'
  BY <1>2 DEF FileWhileCrawling
<1>3. ASSUME NEW i \in Instances, ClearHealth(i) PROVE health'
  <2>1. recycles = 0  BY <1>3 DEF ClearHealth
  <2>2. i = lock
    BY <1>3, <2>1, SoleWorker DEF ClearHealth, Working
  <2>3. d # i  BY <1>1, <1>3 DEF ClearHealth, Goto, SpiderTypeOK, Scheduled
  <2>4. pc[d] \in Scheduled  BY <1>1, <1>3, <2>3 DEF ClearHealth, Goto, SpiderTypeOK
  <2>5. d = lock  BY <1>1, <2>1, <2>4, SoleWorker DEF Working, Scheduled
  <2> QED  BY <2>2, <2>3, <2>5
<1>4. ASSUME NEW i \in Instances, Boot(i) \/ WriteHealth(i) \/ Heartbeat(i) PROVE health'
  BY <1>4 DEF Boot, WriteHealth, Heartbeat
<1>5. ASSUME NEW i \in Instances, Recycle(i) PROVE health'
  BY <1>5 DEF Recycle, SpiderTypeOK
<1>6. ASSUME NEW i \in Instances, Start(i) PROVE health'
  BY <1>1, <1>2, <1>6 DEF Start, Goto, SpiderTypeOK, Scheduled
<1>7. ASSUME NEW i \in Instances, TryAcquireLock(i) PROVE health'
  <2>1. recycles = 0 /\ health' = health  BY <1>7 DEF TryAcquireLock
  <2>2. d # i
    BY <1>1, <1>7 DEF TryAcquireLock, Goto, End, SpiderTypeOK, Scheduled
  <2>3. pc'[d] = pc[d]  BY <1>1, <1>7, <2>2 DEF TryAcquireLock, Goto, End, SpiderTypeOK
  <2> QED  BY <1>2, <2>1, <2>3
<1>8. ASSUME NEW i \in Instances, EndJob(i) PROVE health'
  BY <1>1, <1>2, <1>8 DEF EndJob, Goto, SpiderTypeOK, Scheduled, Jobs
<1>9. ASSUME NEW i \in Instances, Exit(i) \/ Kill(i) \/ StartFails(i) PROVE health'
  BY <1>1, <1>2, <1>9 DEF Exit, Kill, StartFails, End, SpiderTypeOK, Scheduled
<1>10. ASSUME NEW i \in Instances, Signal(i) PROVE health'
  BY <1>1, <1>2, <1>10 DEF Signal, End, SpiderTypeOK, Scheduled
<1>11. ASSUME NEW i \in Instances, Shutdown(i) PROVE health'
  BY <1>1, <1>2, <1>11 DEF Shutdown, Goto, SpiderTypeOK, Scheduled
<1>12. ASSUME NEW i \in Instances, NEW j \in Jobs, Fire(i, j) PROVE health'
  BY <1>2, <1>12 DEF Fire
<1>13. ASSUME NEW i \in Instances, NEW j \in Jobs, Serve(i, j) PROVE health'
  BY <1>1, <1>2, <1>13 DEF Serve, Goto, SpiderTypeOK, Scheduled
<1>14. ASSUME Reap PROVE health'  BY <1>2, <1>14 DEF Reap
<1>15. ASSUME UNCHANGED spiderVars PROVE health'  BY <1>2, <1>15 DEF spiderVars
<1> QED
  BY <1>3, <1>4, <1>5, <1>6, <1>7, <1>8, <1>9, <1>10, <1>11, <1>12, <1>13, <1>14, <1>15
  DEF SpiderNext, Progress

-----------------------------------------------------------------------------
LEMMA SpiderNextType == ASSUME SpiderInv, [SpiderNext]_spiderVars PROVE SpiderTypeOK'
<1> USE DEF SpiderInv
<1>1. CASE Reap  BY <1>1 DEF Reap, SpiderTypeOK
<1>2. CASE UNCHANGED spiderVars  BY <1>2 DEF spiderVars, SpiderTypeOK
<1> QED  BY <1>1, <1>2, TypeProgress, TypeStops, TypeSchedule DEF SpiderNext

LEMMA SpiderInvariant == SpiderSpec => []SpiderInv
<1>1. SpiderInv /\ [SpiderNext]_spiderVars => SpiderInv'
  BY SpiderNextType, UnlockedBound, FileKept DEF SpiderInv
<1> QED  BY <1>1, SpiderInitInv, PTL DEF SpiderSpec

\* The spider's variables keep their types; a --once run never sees a cancelled
\* context or a ticker (cmd/spider/main.go:45-52).
THEOREM SpiderTypeCorrect == SpiderSpec => []SpiderTypeOK
<1>1. SpiderInv => SpiderTypeOK  BY DEF SpiderInv
<1> QED  BY <1>1, SpiderInvariant, PTL

\* However many instances are started, killed and restarted, there are never more
\* of them past tryAcquireLock than one and the lock connections closed so far.
THEOREM SpidersAreBounded == SpiderSpec => []SpidersBounded
<1>1. SpiderInv => SpidersBounded
  <2> SUFFICES ASSUME SpiderInv PROVE SpidersBounded  OBVIOUS
  <2> USE DEF SpiderInv
  <2>1. /\ IsFiniteSet(Unlocked) /\ Cardinality(Unlocked) \in Nat /\ recycles \in Nat
        /\ Cardinality(Working) \in Nat
    BY WorkingFinite DEF SpiderTypeOK
  <2>2. Working \subseteq Unlocked \cup {lock}  BY DEF Unlocked
  <2>3. /\ IsFiniteSet(Unlocked \cup {lock})
        /\ Cardinality(Unlocked \cup {lock}) <= Cardinality(Unlocked) + 1
    BY <2>1, FS_AddElement
  <2>4. Cardinality(Unlocked \cup {lock}) \in Nat  BY <2>3, FS_CardinalityType
  <2>5. Cardinality(Working) <= Cardinality(Unlocked \cup {lock})  BY <2>2, <2>3, FS_Subset
  <2> QED  BY <2>1, <2>3, <2>4, <2>5 DEF SpidersBounded
<1> QED  BY <1>1, SpiderInvariant, PTL

\* While no lock connection was closed, the health file exists whenever a daemon
\* crawls (pipeline.go Schedule, writeHealth, clearHealth).
THEOREM FileIsThere == SpiderSpec => []FileWhileCrawling
<1>1. SpiderInv => FileWhileCrawling  BY DEF SpiderInv
<1> QED  BY <1>1, SpiderInvariant, PTL
=============================================================================
