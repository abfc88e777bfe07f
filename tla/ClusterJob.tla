------------------------------ MODULE ClusterJob ------------------------------
(***************************************************************************)
(* A scheduled job of a plugin (public/pluginapi/cluster/job.go): every    *)
(* instance of the plugin runs the loop of Job.run, which locks the mutex  *)
(* of the job, looks up when the job last finished, runs the callback when *)
(* it is due and saves when it finished.                                   *)
(*                                                                         *)
(* LastFinished is kept as the time that has passed since, up to Interval. *)
(* The clocks of the instances agree.                                      *)
(***************************************************************************)
EXTENDS ClusterMutex

CONSTANTS
    Interval,        \* the interval of MakeWaitForInterval, in ticks
    Backoff          \* nextWaitInterval after an error, in ticks

ASSUME IntervalAssumption == Interval \in Nat \ {0} /\ Backoff \in Nat \ {0}

VARIABLES
    sinceSaved,      \* time since the saved LastFinished; Interval when there is none
    step,            \* what the run loop of every instance does
    waitInterval,    \* its waitInterval, as the time that is left
    sinceFinished,   \* time since its callback finished, while that is not saved
    \* history
    sinceRun,        \* time since a callback last finished anywhere
    saved            \* whether the time it finished was saved

jobVars == <<sinceSaved, step, waitInterval, sinceFinished, sinceRun, saved>>
vars == <<mutexVars, jobVars>>

JobInit ==
    /\ MutexInit
    /\ sinceSaved = Interval
    /\ step = [i \in Instance |-> "idle"]
    /\ waitInterval = [i \in Instance |-> 0]
    /\ sinceFinished = [i \in Instance |-> 0]
    /\ sinceRun = Interval
    /\ saved = TRUE

Do(i, what) == step' = [step EXCEPT ![i] = what]
Wait(i, time) == waitInterval' = [waitInterval EXCEPT ![i] = time]

\* waitInterval is over.
Attempt(i) ==
    /\ step[i] = "idle" /\ waitInterval[i] = 0
    /\ Lock(i)
    /\ UNCHANGED jobVars

\* Seeded bug: the mutex is kept when the job is not due, and locked once more.
BugNotDue(i) ==
    /\ phase[i] = "locked" /\ step[i] = "idle"
    /\ sinceSaved < Interval
    /\ GoTo(i, "locking")
    /\ UNCHANGED <<ttl, owner, refresher, crashes, may, jobVars>>

NotDue(i) ==
    /\ phase[i] = "locked" /\ step[i] = "idle"
    /\ sinceSaved < Interval
    /\ Wait(i, Interval - sinceSaved)
    /\ Unlock(i)
    /\ UNCHANGED <<sinceSaved, step, sinceFinished, sinceRun, saved>>

ReadFails(i) ==
    /\ "metadata" \in may
    /\ phase[i] = "locked" /\ step[i] = "idle"
    /\ Wait(i, Backoff)
    /\ Unlock(i)
    /\ UNCHANGED <<sinceSaved, step, sinceFinished, sinceRun, saved>>

Start(i) ==
    /\ phase[i] = "locked" /\ step[i] = "idle"
    /\ sinceSaved = Interval
    /\ Do(i, "running")
    /\ UNCHANGED <<mutexVars, sinceSaved, waitInterval, sinceFinished, sinceRun, saved>>

\* The callback returns.
Finish(i) ==
    /\ step[i] = "running"
    /\ Do(i, "saving")
    /\ sinceFinished' = [sinceFinished EXCEPT ![i] = 0]
    /\ sinceRun' = 0
    /\ saved' = FALSE
    /\ UNCHANGED <<mutexVars, sinceSaved, waitInterval>>

\* Seeded bug: the interval starts over instead of running on from the finish.
BugSaveMetadata(i) ==
    /\ step[i] = "saving"
    /\ Do(i, "idle")
    /\ Wait(i, Interval - sinceFinished[i])
    /\ sinceSaved' = sinceFinished[i] + 1
    /\ saved' = TRUE
    /\ Unlock(i)
    /\ UNCHANGED <<sinceFinished, sinceRun>>

\* Whether or not it is saved, this instance waits from its own finish.
SaveMetadata(i) ==
    /\ step[i] = "saving"
    /\ Do(i, "idle")
    /\ Wait(i, Interval - sinceFinished[i])
    /\ \/ sinceSaved' = sinceFinished[i] /\ saved' = TRUE
       \/ "metadata" \in may /\ UNCHANGED <<sinceSaved, saved>>
    /\ Unlock(i)
    /\ UNCHANGED <<sinceFinished, sinceRun>>

JobCrash(i) ==
    /\ Crash(i)
    /\ Do(i, "idle")
    /\ Wait(i, 0)
    /\ UNCHANGED <<sinceSaved, sinceFinished, sinceRun, saved>>

Later(time) == IF time < Interval THEN time + 1 ELSE time

JobTick ==
    /\ Tick
    /\ sinceSaved' = Later(sinceSaved)
    /\ sinceRun' = Later(sinceRun)
    /\ sinceFinished' = [i \in Instance |-> Later(sinceFinished[i])]
    /\ waitInterval' = [i \in Instance |->
                           IF waitInterval[i] > 0 THEN waitInterval[i] - 1 ELSE 0]
    /\ UNCHANGED <<step, saved>>

\* What the mutex does by itself.
MutexStep(i) ==
    /\ TryLock(i) \/ TryLockFails(i) \/ RefreshLock(i) \/ DeleteKey(i) \/ Restart(i)
    /\ UNCHANGED jobVars

JobNext ==
    \/ \E i \in Instance :
          \/ Attempt(i) \/ MutexStep(i)
          \/ NotDue(i) \/ ReadFails(i) \/ Start(i) \/ Finish(i) \/ SaveMetadata(i)
          \/ JobCrash(i)
    \/ JobTick

JobSpec == JobInit /\ [][JobNext]_vars

\* Time passes, callbacks return, and an instance that is up goes on.  Nothing
\* says that an instance that crashed restarts.
JobFairness ==
    /\ WF_vars(JobTick)
    /\ \A i \in Instance :
          /\ WF_vars(Attempt(i))
          /\ WF_vars(TryLock(i) /\ UNCHANGED jobVars)
          /\ WF_vars(RefreshLock(i) /\ UNCHANGED jobVars)
          /\ WF_vars(DeleteKey(i) /\ UNCHANGED jobVars)
          /\ WF_vars(NotDue(i) \/ Start(i))
          /\ WF_vars(Finish(i))
          /\ WF_vars(SaveMetadata(i))

LiveJobSpec == JobSpec /\ JobFairness

-----------------------------------------------------------------------------
(* Properties.                                                             *)

\* Type invariant of the job.
JobTypeOK ==
    /\ TypeOK
    /\ sinceSaved \in 0..Interval
    /\ step \in [Instance -> {"idle", "running", "saving"}]
    /\ waitInterval \in [Instance -> Nat]
    /\ sinceFinished \in [Instance -> 0..Interval]
    /\ sinceRun \in 0..Interval
    /\ saved \in BOOLEAN

\* job.go:209: "guaranteeing only one instance is executing concurrently", while the
\* calls of the mutex succeed in time.
OneRunning ==
    Reliable =>
       \A i, j \in Instance : step[i] = "running" /\ step[j] = "running" => i = j

\* While they do, the callback starts an interval after it last finished on any
\* instance, unless that finish could not be saved.
Spaced ==
    [][Reliable =>
          \A i \in Instance :
             (step[i] = "idle" /\ step'[i] = "running" /\ saved) => sinceRun = Interval]_vars

\* As long as an instance is up and the calls of the store do not fail, the job runs
\* again and again, whichever instance crashed while it held the mutex.
JobRuns ==
    []<>( \/ \E i \in Instance : step[i] = "running"
          \/ \A i \in Instance : phase[i] = "crashed"
          \/ may \cap {"failure", "metadata"} # {} )
=============================================================================
