--------------------------- MODULE ClusterJob_proofs ---------------------------
(***************************************************************************)
(* Proofs about the mutex of the cluster and the scheduled jobs over it,   *)
(* for every set of instances and all times.  The mutex excludes while the *)
(* calls of its holder succeed in time; instances may crash.  The job uses *)
(* its mutex as the mutex is meant to be used, so that what is proved of   *)
(* the mutex holds of the job.                                             *)
(***************************************************************************)
EXTENDS ClusterJob, TLAPS

-----------------------------------------------------------------------------
(* The mutex.                                                              *)

\* What is kept for every instance while the mutex is reliable: it holds its own
\* key, and its ticker runs while it has the mutex locked and fires before the key
\* expires.
Kept(i) ==
    /\ Holds(i) => ttl > 0 /\ owner = i
    /\ IF phase[i] = "locked"
       THEN refresher[i] \in 0..RefreshInterval /\ refresher[i] < ttl
       ELSE refresher[i] = Stopped

\* The inductive invariant.
MutexInv == TypeOK /\ \A i \in Instance : Kept(i)

LEMMA InvInit == ASSUME MutexInit PROVE MutexInv
<1>1. TypeOK
  BY TimesAssumption DEF MutexInit, TypeOK, Phases
<1>2. \A i \in Instance : Kept(i)
  BY DEF MutexInit, Kept, Holds
<1> QED
  BY <1>1, <1>2 DEF MutexInv

LEMMA TypeStep == ASSUME TypeOK, [MutexNext]_mutexVars PROVE TypeOK'
<1> USE DEF TypeOK, Phases, GoTo
<1>1. TTL \in Nat /\ RefreshInterval \in Nat /\ TTL \in 0..TTL /\ 0 \in 0..TTL
      /\ RefreshInterval \in 0..RefreshInterval
  BY TimesAssumption
<1>2. ASSUME NEW i \in Instance, Lock(i) PROVE TypeOK'
  BY <1>2 DEF Lock
<1>3. ASSUME NEW i \in Instance, TryLock(i) PROVE TypeOK'
  BY <1>1, <1>3 DEF TryLock
<1>4. ASSUME NEW i \in Instance, TryLockFails(i) PROVE TypeOK'
  BY <1>1, <1>4 DEF TryLockFails
<1>5. ASSUME NEW i \in Instance, Cancel(i) PROVE TypeOK'
  BY <1>5 DEF Cancel
<1>6. ASSUME NEW i \in Instance, RefreshLock(i) PROVE TypeOK'
  <2>1. ttl' \in 0..TTL
    BY <1>1, <1>6 DEF RefreshLock
  <2>2. refresher' \in [Instance -> 0..RefreshInterval \cup {Stopped}]
    BY <1>1, <1>6 DEF RefreshLock
  <2> QED
    BY <1>6, <2>1, <2>2 DEF RefreshLock
<1>7. ASSUME NEW i \in Instance, Unlock(i) PROVE TypeOK'
  BY <1>7 DEF Unlock
<1>8. ASSUME NEW i \in Instance, DeleteKey(i) PROVE TypeOK'
  BY <1>1, <1>8 DEF DeleteKey
<1>9. ASSUME NEW i \in Instance, Crash(i) PROVE TypeOK'
  BY <1>9 DEF Crash
<1>10. ASSUME NEW i \in Instance, Restart(i) PROVE TypeOK'
  BY <1>10 DEF Restart
<1>11. ASSUME Tick PROVE TypeOK'
  <2>1. ttl' \in 0..TTL
    BY <1>1, <1>11 DEF Tick
  <2>2. ASSUME NEW i \in Instance
        PROVE  refresher'[i] \in 0..RefreshInterval \cup {Stopped}
    BY <1>1, <1>11 DEF Tick
  <2>3. refresher' \in [Instance -> 0..RefreshInterval \cup {Stopped}]
    <3>1. refresher' = [i \in Instance |-> refresher'[i]]
      BY <1>11 DEF Tick
    <3> QED
      BY <2>2, <3>1
  <2>4. owner' \in Instance \cup {Nobody}
    BY <1>11 DEF Tick
  <2> QED
    BY <1>11, <2>1, <2>3, <2>4 DEF Tick
<1>12. CASE UNCHANGED mutexVars
  BY <1>12 DEF mutexVars
<1> QED
  BY <1>2, <1>3, <1>4, <1>5, <1>6, <1>7, <1>8, <1>9, <1>10, <1>11, <1>12 DEF MutexNext

LEMMA KeptStep ==
    ASSUME Reliable, MutexInv, [MutexNext]_mutexVars, TypeOK', NEW j \in Instance
    PROVE  Kept(j)'
<1>0. /\ Kept(j) /\ \A k \in Instance : Kept(k)
      /\ TTL \in Nat /\ RefreshInterval \in Nat /\ RefreshInterval < TTL
  BY TimesAssumption DEF MutexInv
<1> USE <1>0 DEF Kept, Holds, GoTo
<1>1. ASSUME NEW i \in Instance, Lock(i) \/ Cancel(i) PROVE Kept(j)'
  BY <1>1 DEF Lock, Cancel, MutexInv, TypeOK
<1>2. ASSUME NEW i \in Instance, TryLock(i) PROVE Kept(j)'
  BY <1>2 DEF TryLock, MutexInv, TypeOK
<1>3. ASSUME NEW i \in Instance, RefreshLock(i) PROVE Kept(j)'
  <2>1. phase[i] = "locked" /\ ttl > 0
    BY <1>3, DistinctAssumption DEF RefreshLock
  <2>2. ttl' = TTL /\ refresher' = [refresher EXCEPT ![i] = RefreshInterval]
    BY <1>3, <2>1 DEF RefreshLock, Reliable, MutexInv, TypeOK
  <2> QED
    BY <1>3, <2>1, <2>2 DEF RefreshLock, MutexInv, TypeOK
<1>4. ASSUME NEW i \in Instance, Unlock(i) PROVE Kept(j)'
  BY <1>4 DEF Unlock, MutexInv, TypeOK
<1>5. ASSUME NEW i \in Instance, DeleteKey(i) PROVE Kept(j)'
  BY <1>5 DEF DeleteKey, Reliable, MutexInv, TypeOK
<1>6. ASSUME NEW i \in Instance, Crash(i) \/ Restart(i) PROVE Kept(j)'
  BY <1>6 DEF Crash, Restart, MutexInv, TypeOK
<1>7. ASSUME Tick PROVE Kept(j)'
  <2>1. refresher[j] # 0 /\ phase[j] # "unlocking"
    BY <1>7 DEF Tick, Timely, Reliable
  <2>2. phase' = phase
        /\ refresher'[j] = IF refresher[j] \in {0, Stopped} THEN refresher[j]
                                                            ELSE refresher[j] - 1
    BY <1>7 DEF Tick
  <2>3. CASE phase[j] = "locked"
    <3>1. refresher[j] \in 1..RefreshInterval /\ refresher[j] < ttl /\ ttl \in Nat
      BY <2>1, <2>3 DEF MutexInv, TypeOK
    <3>2. refresher'[j] = refresher[j] - 1
      BY <2>2, <3>1, DistinctAssumption
    <3>3. ttl' = ttl - 1 /\ owner' = owner
      BY <1>7, <3>1 DEF Tick
    <3> QED
      BY <2>2, <2>3, <3>1, <3>2, <3>3
  <2>4. CASE phase[j] # "locked"
    BY <2>1, <2>2, <2>4
  <2> QED
    BY <2>3, <2>4
<1>8. CASE UNCHANGED mutexVars
  BY <1>8 DEF mutexVars
<1>9. \A i \in Instance : ~ TryLockFails(i)
  BY DEF TryLockFails, Reliable
<1> QED
  BY <1>1, <1>2, <1>3, <1>4, <1>5, <1>6, <1>7, <1>8, <1>9 DEF MutexNext

LEMMA InvStep == ASSUME Reliable, MutexInv, [MutexNext]_mutexVars PROVE MutexInv'
<1>1. TypeOK'
  BY TypeStep DEF MutexInv
<1>2. \A i \in Instance : Kept(i)'
  BY <1>1, KeptStep
<1> QED
  BY <1>1, <1>2 DEF MutexInv

\* What may disturb a behaviour is settled when it begins.
LEMMA ReliableStays == ASSUME [MutexNext]_mutexVars PROVE Reliable' <=> Reliable
<1>1. may' = may
  BY DEF MutexNext, Lock, TryLock, TryLockFails, Cancel, RefreshLock, Unlock, DeleteKey,
         Crash, Restart, Tick, mutexVars
<1> QED
  BY <1>1 DEF Reliable

LEMMA InvExcludes == ASSUME MutexInv PROVE MutualExclusion /\ HolderHasKey
BY DEF MutexInv, Kept, HolderHasKey, MutualExclusion

\* The types hold whatever fails or comes late.
THEOREM TypeCorrect == MutexSpec => []TypeOK
<1>1. MutexInit => TypeOK
  BY InvInit DEF MutexInv
<1>2. TypeOK /\ [MutexNext]_mutexVars => TypeOK'
  BY TypeStep
<1> QED
  BY <1>1, <1>2, PTL DEF MutexSpec

\* While the calls of the mutex succeed in time, one instance holds it at a time, and
\* on its own key, whichever instances crash.
THEOREM Excludes == MutexSpec => [](MutualExclusion /\ HolderHasKey)
<1>1. MutexInit => (Reliable => MutexInv)
  BY InvInit
<1>2. (Reliable => MutexInv) /\ [MutexNext]_mutexVars => (Reliable => MutexInv)'
  BY InvStep, ReliableStays
<1>3. (Reliable => MutexInv) => MutualExclusion /\ HolderHasKey
  BY InvExcludes DEF MutualExclusion, HolderHasKey
<1> QED
  BY <1>1, <1>2, <1>3, PTL DEF MutexSpec

-----------------------------------------------------------------------------
(* The job.                                                                *)

LEMMA JobUsesMutex == ASSUME [JobNext]_vars PROVE [MutexNext]_mutexVars
<1> USE DEF MutexNext
<1>1. ASSUME NEW i \in Instance, Attempt(i) PROVE MutexNext
  BY <1>1 DEF Attempt
<1>2. ASSUME NEW i \in Instance, MutexStep(i) PROVE MutexNext
  BY <1>2 DEF MutexStep
<1>3. ASSUME NEW i \in Instance, NotDue(i) \/ ReadFails(i) \/ SaveMetadata(i)
      PROVE  MutexNext
  BY <1>3 DEF NotDue, ReadFails, SaveMetadata
<1>4. ASSUME NEW i \in Instance, Start(i) \/ Finish(i) PROVE UNCHANGED mutexVars
  BY <1>4 DEF Start, Finish
<1>5. ASSUME NEW i \in Instance, JobCrash(i) PROVE MutexNext
  BY <1>5 DEF JobCrash
<1>6. ASSUME JobTick PROVE MutexNext
  BY <1>6 DEF JobTick
<1>7. CASE UNCHANGED vars
  BY <1>7 DEF vars
<1> QED
  BY <1>1, <1>2, <1>3, <1>4, <1>5, <1>6, <1>7 DEF JobNext

\* A callback runs, and its finish is saved, while its instance has the mutex locked.
RunsLocked ==
    /\ step \in [Instance -> {"idle", "running", "saving"}]
    /\ \A i \in Instance : step[i] # "idle" => phase[i] = "locked"

LEMMA RunsLockedStep ==
    ASSUME TypeOK, RunsLocked, [JobNext]_vars PROVE RunsLocked'
<1> USE DEF RunsLocked, TypeOK, Do, GoTo
<1>1. ASSUME NEW i \in Instance, Attempt(i) PROVE RunsLocked'
  BY <1>1 DEF Attempt, Lock, jobVars
<1>2. ASSUME NEW i \in Instance, MutexStep(i) PROVE RunsLocked'
  <2>1. step' = step
    BY <1>2 DEF MutexStep, jobVars
  <2>2. \A j \in Instance : phase[j] = "locked" => phase'[j] = "locked"
    BY <1>2 DEF MutexStep, TryLock, TryLockFails, RefreshLock, DeleteKey, Restart
  <2> QED
    BY <2>1, <2>2
<1>3. ASSUME NEW i \in Instance, NotDue(i) \/ ReadFails(i) PROVE RunsLocked'
  BY <1>3 DEF NotDue, ReadFails, Unlock
<1>4. ASSUME NEW i \in Instance, Start(i) \/ Finish(i) PROVE RunsLocked'
  BY <1>4 DEF Start, Finish, mutexVars
<1>5. ASSUME NEW i \in Instance, SaveMetadata(i) PROVE RunsLocked'
  BY <1>5 DEF SaveMetadata, Unlock
<1>6. ASSUME NEW i \in Instance, JobCrash(i) PROVE RunsLocked'
  BY <1>6 DEF JobCrash, Crash
<1>7. ASSUME JobTick PROVE RunsLocked'
  BY <1>7 DEF JobTick, Tick
<1>8. CASE UNCHANGED vars
  BY <1>8 DEF vars, mutexVars, jobVars
<1> QED
  BY <1>1, <1>2, <1>3, <1>4, <1>5, <1>6, <1>7, <1>8 DEF JobNext

LEMMA JobInitIsMutexInit == ASSUME JobInit PROVE MutexInit /\ RunsLocked
BY DEF JobInit, RunsLocked

\* Seen from the mutex, the loop of the job is a legal use of it: JobSpec implements
\* MutexSpec.
THEOREM ImplementsMutex == JobSpec => MutexSpec
<1>1. JobInit => MutexInit
  BY JobInitIsMutexInit
<1>2. [JobNext]_vars => [MutexNext]_mutexVars
  BY JobUsesMutex
<1> QED
  BY <1>1, <1>2, PTL DEF JobSpec, MutexSpec

\* While the calls of the mutex succeed in time, one instance executes the job at a
\* time, whichever crash.
THEOREM RunsOnce == JobSpec => []OneRunning
<1>1. JobInit => RunsLocked
  BY JobInitIsMutexInit
<1>2. TypeOK /\ RunsLocked /\ [JobNext]_vars => RunsLocked'
  BY RunsLockedStep
<1>3. RunsLocked /\ MutualExclusion => OneRunning
  BY DEF RunsLocked, MutualExclusion, OneRunning, Holds
<1>4. JobSpec => []TypeOK
  BY ImplementsMutex, TypeCorrect, PTL
<1>5. JobSpec => []MutualExclusion
  BY ImplementsMutex, Excludes, PTL
<1> QED
  BY <1>1, <1>2, <1>3, <1>4, <1>5, PTL DEF JobSpec

\* What is saved is when the callback finished last, if that was saved at all, and an
\* instance that is about to save has the time of that finish.
SavesTheLastRun ==
    /\ saved => sinceSaved = sinceRun
    /\ \A i \in Instance : step[i] = "saving" => sinceFinished[i] = sinceRun

LEMMA JobTypeStep == ASSUME JobTypeOK, [JobNext]_vars PROVE JobTypeOK'
<1> USE DEF JobTypeOK, Do, Wait
<1>0. TypeOK'
  BY JobUsesMutex, TypeStep
<1>1. Interval \in Nat /\ Backoff \in Nat /\ 0 \in 0..Interval
  BY IntervalAssumption
<1>2. \A t \in 0..Interval : Later(t) \in 0..Interval /\ Interval - t \in Nat
  BY <1>1 DEF Later
<1>3. ASSUME NEW i \in Instance, Attempt(i) \/ MutexStep(i) PROVE JobTypeOK'
  BY <1>0, <1>3 DEF Attempt, MutexStep, jobVars
<1>4. ASSUME NEW i \in Instance, NotDue(i) \/ ReadFails(i) PROVE JobTypeOK'
  BY <1>0, <1>1, <1>2, <1>4 DEF NotDue, ReadFails
<1>5. ASSUME NEW i \in Instance, Start(i) \/ Finish(i) PROVE JobTypeOK'
  BY <1>0, <1>1, <1>5 DEF Start, Finish
<1>6. ASSUME NEW i \in Instance, SaveMetadata(i) PROVE JobTypeOK'
  BY <1>0, <1>2, <1>6 DEF SaveMetadata
<1>7. ASSUME NEW i \in Instance, JobCrash(i) PROVE JobTypeOK'
  BY <1>0, <1>7 DEF JobCrash
<1>8. ASSUME JobTick PROVE JobTypeOK'
  <2>1. \A i \in Instance : (IF waitInterval[i] > 0 THEN waitInterval[i] - 1 ELSE 0) \in Nat
    OBVIOUS
  <2> QED
    BY <1>0, <1>2, <1>8, <2>1 DEF JobTick
<1>9. CASE UNCHANGED vars
  BY <1>0, <1>9 DEF vars, jobVars
<1> QED
  BY <1>3, <1>4, <1>5, <1>6, <1>7, <1>8, <1>9 DEF JobNext

LEMMA SavesStep ==
    ASSUME JobTypeOK, RunsLocked, MutualExclusion, Reliable, SavesTheLastRun, [JobNext]_vars
    PROVE  SavesTheLastRun'
<1> USE DEF SavesTheLastRun, JobTypeOK, Do
<1>0. \A i, j \in Instance : step[i] # "idle" /\ step[j] # "idle" => i = j
  BY DEF RunsLocked, MutualExclusion, Holds
<1>1. ASSUME NEW i \in Instance, Attempt(i) \/ MutexStep(i) PROVE SavesTheLastRun'
  BY <1>1 DEF Attempt, MutexStep, jobVars
<1>2. ASSUME NEW i \in Instance, NotDue(i) \/ ReadFails(i) \/ Start(i) PROVE SavesTheLastRun'
  BY <1>2 DEF NotDue, ReadFails, Start
<1>3. ASSUME NEW i \in Instance, Finish(i) PROVE SavesTheLastRun'
  BY <1>0, <1>3 DEF Finish
<1>4. ASSUME NEW i \in Instance, SaveMetadata(i) PROVE SavesTheLastRun'
  BY <1>0, <1>4 DEF SaveMetadata
<1>5. ASSUME NEW i \in Instance, JobCrash(i) PROVE SavesTheLastRun'
  BY <1>5 DEF JobCrash
<1>6. ASSUME JobTick PROVE SavesTheLastRun'
  BY <1>6 DEF JobTick
<1>7. CASE UNCHANGED vars
  BY <1>7 DEF vars, jobVars
<1> QED
  BY <1>1, <1>2, <1>3, <1>4, <1>5, <1>6, <1>7 DEF JobNext

\* The callback starts only when the interval is over since it last finished anywhere.
LEMMA StartIsDue ==
    ASSUME JobTypeOK, SavesTheLastRun, [JobNext]_vars, NEW i \in Instance,
           step[i] = "idle", step'[i] = "running", saved
    PROVE  sinceRun = Interval
<1> USE DEF JobTypeOK, Do
<1>1. \E j \in Instance : Start(j)
  <2>1. ASSUME NEW j \in Instance,
               \/ Attempt(j) \/ MutexStep(j) \/ NotDue(j) \/ ReadFails(j)
               \/ Finish(j) \/ SaveMetadata(j) \/ JobCrash(j)
        PROVE  FALSE
    BY <2>1 DEF Attempt, MutexStep, jobVars, NotDue, ReadFails, Finish, SaveMetadata, JobCrash
  <2>2. ~ JobTick /\ ~ UNCHANGED vars
    BY DEF JobTick, vars, jobVars
  <2> QED
    BY <2>1, <2>2 DEF JobNext
<1> QED
  BY <1>1 DEF Start, SavesTheLastRun

\* The types of the job hold whatever fails, comes late or crashes.
THEOREM JobTypeCorrect == JobSpec => []JobTypeOK
<1>1. JobInit => JobTypeOK
  <2>1. JobInit => TypeOK
    BY JobInitIsMutexInit, InvInit DEF MutexInv
  <2> QED
    BY <2>1, IntervalAssumption DEF JobInit, JobTypeOK
<1>2. JobTypeOK /\ [JobNext]_vars => JobTypeOK'
  BY JobTypeStep
<1> QED
  BY <1>1, <1>2, PTL DEF JobSpec

\* While the calls of the mutex succeed in time, the callback starts an interval after
\* it last finished on any instance, unless that finish was not saved.
THEOREM StartsApart == JobSpec => Spaced
<1>1. JobInit => RunsLocked /\ SavesTheLastRun
  BY JobInitIsMutexInit DEF JobInit, SavesTheLastRun
<1>2. TypeOK /\ RunsLocked /\ [JobNext]_vars => RunsLocked'
  BY RunsLockedStep
<1>3. JobTypeOK /\ RunsLocked /\ MutualExclusion /\ (Reliable => SavesTheLastRun)
        /\ [JobNext]_vars => (Reliable => SavesTheLastRun)'
  BY SavesStep, JobUsesMutex, ReliableStays
<1>4. JobTypeOK /\ (Reliable => SavesTheLastRun) /\ [JobNext]_vars
        => [Reliable => \A i \in Instance :
               (step[i] = "idle" /\ step'[i] = "running" /\ saved) => sinceRun = Interval]_vars
  BY StartIsDue
<1>5. JobSpec => []JobTypeOK /\ []TypeOK
  BY JobTypeCorrect, ImplementsMutex, TypeCorrect, PTL
<1>6. JobSpec => []MutualExclusion
  BY ImplementsMutex, Excludes, PTL
<1>7. JobInit => (Reliable => SavesTheLastRun)
  BY <1>1
<1> QED
  BY <1>1, <1>2, <1>3, <1>4, <1>5, <1>6, <1>7, PTL DEF JobSpec, Spaced
=============================================================================
