------------------------------- MODULE JobServer -------------------------------
(***************************************************************************)
(* The jobs of one type and the nodes of a cluster that work on them       *)
(* (channels/jobs): the status of a job in the store is all that they      *)
(* agree through.  A worker claims a pending job by a conditional update   *)
(* of its status; it ends a job by updates most of which are               *)
(* unconditional; jobs are cancelled by requests in two updates.  An       *)
(* update may fail: it has not been made or, where that matters, only its  *)
(* answer is lost.                                                         *)
(*                                                                         *)
(* A candidate from the poll of the Watcher that is no longer pending      *)
(* when it is claimed changes nothing, and the polls are left out with it. *)
(* What a job does, its data and its progress are left out, and the        *)
(* metrics with them.                                                      *)
(***************************************************************************)
CONSTANTS
    Node,        \* the nodes of the cluster, with a worker of the type each
    Job,         \* the jobs that may be created
    Requester,   \* those who cancel jobs and change their status
    Conditions,  \* the sets of circumstances to consider
    NoJob

ASSUME NoJobAssumption == NoJob \notin Job

ASSUME ConditionsAssumption ==
    Conditions \subseteq SUBSET {"watcher", "crash", "failure", "patch", "replace"}

VARIABLES
    status,   \* of every job in the store
    work,     \* per node: the job its worker works on
    heard,    \* per node: its CancellationWatcher has closed the channel
    ending,   \* per node: its worker has set an error and will set success
    request,  \* per requester: the call that is under way
    abandoned,  \* history: the jobs left by a crash or an update that failed
    may       \* the circumstances of this behaviour

vars == <<status, work, heard, ending, request, abandoned, may>>

\* Whether the worker runs a CancellationWatcher (migrations/worker.go) or goes back
\* to pending when it is stopped (batch_worker.go).
Watching == "watcher" \in may

Final == {"success", "error", "canceled"}
NoRequest == [step |-> "none", job |-> NoJob]

Init ==
    /\ may \in Conditions
    /\ status = [j \in Job |-> "new"]
    /\ work = [n \in Node |-> NoJob]
    /\ heard = [n \in Node |-> FALSE]
    /\ ending = [n \in Node |-> FALSE]
    /\ request = [r \in Requester |-> NoRequest]
    /\ abandoned = {}

UpdateStatus(j, new) == status' = [status EXCEPT ![j] = new]

Leave(n) ==
    /\ work' = [work EXCEPT ![n] = NoJob]
    /\ heard' = [heard EXCEPT ![n] = FALSE]
    /\ ending' = [ending EXCEPT ![n] = FALSE]

Abandon(j) == abandoned' = abandoned \cup {j}

\* The last update of a worker that leaves its job fails, and is only logged.
UpdateFails(n) == "failure" \in may /\ UNCHANGED status /\ Abandon(work[n])

-----------------------------------------------------------------------------
(* Creating and claiming.                                                  *)

CreateJobOnce(j) ==
    /\ status[j] = "new"
    /\ \A k \in Job : status[k] \notin {"pending", "in_progress"}
    /\ UpdateStatus(j, "pending")
    /\ UNCHANGED <<work, heard, ending, request, abandoned, may>>

\* Seeded bug: the status is updated whatever it is.
BugClaimJob(n, j) ==
    /\ work[n] = NoJob
    /\ status[j] # "new"
    /\ UpdateStatus(j, "in_progress")
    /\ \/ work' = [work EXCEPT ![n] = j] /\ abandoned' = abandoned \ {j}
       \/ "failure" \in may /\ UNCHANGED work /\ Abandon(j)
    /\ UNCHANGED <<heard, ending, request, may>>

\* A worker that does not get the answer does not work on the job.
ClaimJob(n, j) ==
    /\ work[n] = NoJob
    /\ status[j] = "pending"
    /\ UpdateStatus(j, "in_progress")
    /\ \/ work' = [work EXCEPT ![n] = j] /\ abandoned' = abandoned \ {j}
       \/ "failure" \in may /\ UNCHANGED work /\ Abandon(j)
    /\ UNCHANGED <<heard, ending, request, may>>

-----------------------------------------------------------------------------
(* The end of the work on a job.                                           *)

\* SetJobSuccess, of setJobSuccess.  When it fails, setJobError comes after it.
Succeed(n) ==
    /\ work[n] # NoJob
    /\ UpdateStatus(work[n], "success")
    /\ Leave(n)
    /\ UNCHANGED <<request, abandoned, may>>

AtWork == {"in_progress", "cancel_requested"}

\* Two conditional updates, from in_progress and else from cancel_requested: what comes
\* between them does not matter unless the status is set directly.
ErrorUpdates(j) ==
    \/ status[j] \in AtWork /\ UpdateStatus(j, "error")
    \/ status[j] \notin AtWork /\ UNCHANGED status

\* setJobError, when the work or SetJobSuccess failed.
SetJobError(n) ==
    /\ work[n] # NoJob
    /\ \/ ErrorUpdates(work[n]) /\ UNCHANGED abandoned
       \/ UpdateFails(n)
    /\ Leave(n)
    /\ UNCHANGED <<request, may>>

\* setJobSuccess of a worker that does not watch records the progress first.  When
\* SetJobProgress fails it calls setJobError, which may fail in turn, and goes on.
ProgressFails(n) ==
    /\ "failure" \in may /\ ~ Watching
    /\ work[n] # NoJob /\ ~ ending[n]
    /\ ErrorUpdates(work[n]) \/ UNCHANGED status
    /\ ending' = [ending EXCEPT ![n] = TRUE]
    /\ UNCHANGED <<work, heard, request, abandoned, may>>

\* The CancellationWatcher polls the status.
HearCancellation(n) ==
    /\ Watching
    /\ work[n] # NoJob /\ ~ heard[n]
    /\ status[work[n]] = "cancel_requested"
    /\ heard' = [heard EXCEPT ![n] = TRUE]
    /\ UNCHANGED <<status, work, ending, request, abandoned, may>>

\* Seeded bug: the worker stops without a word.
BugSetJobCanceled(n) ==
    /\ work[n] # NoJob /\ heard[n]
    /\ Leave(n)
    /\ UNCHANGED <<status, request, abandoned, may>>

SetJobCanceled(n) ==
    /\ work[n] # NoJob /\ ~ ending[n] /\ heard[n]
    /\ \/ UpdateStatus(work[n], "canceled") /\ UNCHANGED abandoned
       \/ UpdateFails(n)
    /\ Leave(n)
    /\ UNCHANGED <<request, may>>

\* Seeded bug: the job goes back to pending whatever was requested meanwhile.
BugStopToPending(n) ==
    /\ work[n] # NoJob
    /\ UpdateStatus(work[n], "pending")
    /\ Leave(n)
    /\ UNCHANGED <<request, abandoned, may>>

\* Seeded bug: the job is left as it is.
BugStop(n) ==
    /\ work[n] # NoJob
    /\ Leave(n)
    /\ UNCHANGED <<status, request, abandoned, may>>

\* Worker.Stop, on shutdown or a new configuration: SetJobCanceled or SetJobPending.
Stop(n) ==
    /\ work[n] # NoJob /\ ~ ending[n]
    /\ \/ /\ UpdateStatus(work[n], IF Watching THEN "canceled" ELSE "pending")
          /\ UNCHANGED abandoned
       \/ UpdateFails(n)
    /\ Leave(n)
    /\ UNCHANGED <<request, may>>

\* resetJob: the nodes of the cluster run different versions.
ResetJob(n) ==
    /\ ~ Watching
    /\ work[n] # NoJob /\ ~ ending[n]
    /\ \/ /\ status[work[n]] = "in_progress" /\ UpdateStatus(work[n], "pending")
          /\ UNCHANGED abandoned
       \/ status[work[n]] # "in_progress" /\ UNCHANGED <<status, abandoned>>
       \/ UpdateFails(n)
    /\ Leave(n)
    /\ UNCHANGED <<request, may>>

Crash(n) ==
    /\ "crash" \in may
    /\ work[n] # NoJob
    /\ Abandon(work[n])
    /\ Leave(n)
    /\ UNCHANGED <<status, request, may>>

-----------------------------------------------------------------------------
(* Requests.                                                               *)

Go(r, step, j) == request' = [request EXCEPT ![r] = [step |-> step, job |-> j]]
Done(r) == request' = [request EXCEPT ![r] = NoRequest]

\* CancelJob.
CancelJob(r, j) ==
    /\ request[r] = NoRequest
    /\ status[j] # "new"
    /\ Go(r, "cancel pending", j)
    /\ UNCHANGED <<status, work, heard, ending, abandoned, may>>

\* The first update of RequestCancellation.
CancelPending(r) ==
    /\ request[r].step = "cancel pending"
    /\ \/ /\ status[request[r].job] = "pending"
          /\ UpdateStatus(request[r].job, "canceled")
          /\ Done(r)
       \/ /\ status[request[r].job] # "pending"
          /\ Go(r, "cancel in progress", request[r].job)
          /\ UNCHANGED status
    /\ UNCHANGED <<work, heard, ending, abandoned, may>>

\* Seeded bug: the update is unconditional.
BugCancelInProgress(r) ==
    /\ request[r].step = "cancel in progress"
    /\ UpdateStatus(request[r].job, "cancel_requested")
    /\ Done(r)
    /\ UNCHANGED <<work, heard, ending, abandoned, may>>

\* Its second update; when that fails the request is refused.
CancelInProgress(r) ==
    /\ request[r].step = "cancel in progress"
    /\ \/ /\ status[request[r].job] = "in_progress"
          /\ UpdateStatus(request[r].job, "cancel_requested")
       \/ /\ status[request[r].job] # "in_progress"
          /\ UNCHANGED status
    /\ Done(r)
    /\ UNCHANGED <<work, heard, ending, abandoned, may>>

\* updateJobStatus, without force: the status that is read allows the change (to
\* 'cancel_requested' it is CancelJob).
PatchStatus(r, j) ==
    /\ "patch" \in may
    /\ request[r] = NoRequest
    /\ \/ status[j] = "in_progress" /\ Go(r, "set pending", j)
       \/ status[j] = "cancel_requested" /\ Go(r, "set canceled", j)
    /\ UNCHANGED <<status, work, heard, ending, abandoned, may>>

\* CreateAccessControlSyncJob lists the active jobs of its channel.
ReplaceJob(r, j) ==
    /\ "replace" \in may
    /\ request[r] = NoRequest
    /\ status[j] \in {"pending", "in_progress"}
    /\ Go(r, "set canceled", j)
    /\ UNCHANGED <<status, work, heard, ending, abandoned, may>>

SetStatus(r) ==
    /\ \/ /\ request[r].step = "set pending"
          /\ UpdateStatus(request[r].job, "pending")
       \/ /\ request[r].step = "set canceled"
          /\ UpdateStatus(request[r].job, "canceled")
    /\ Done(r)
    /\ UNCHANGED <<work, heard, ending, abandoned, may>>

\* An update of a request fails, and the request with it.
RequestFails(r) ==
    /\ "failure" \in may
    /\ request[r] # NoRequest
    /\ Done(r)
    /\ UNCHANGED <<status, work, heard, ending, abandoned, may>>

-----------------------------------------------------------------------------
Next ==
    \/ \E j \in Job : CreateJobOnce(j)
    \/ \E n \in Node, j \in Job : ClaimJob(n, j)
    \/ \E n \in Node :
          \/ Succeed(n) \/ ProgressFails(n) \/ SetJobError(n)
          \/ HearCancellation(n) \/ SetJobCanceled(n) \/ Stop(n) \/ ResetJob(n) \/ Crash(n)
    \/ \E r \in Requester, j \in Job :
          CancelJob(r, j) \/ PatchStatus(r, j) \/ ReplaceJob(r, j)
    \/ \E r \in Requester :
          CancelPending(r) \/ CancelInProgress(r) \/ SetStatus(r) \/ RequestFails(r)

Spec == Init /\ [][Next]_vars

\* The CancellationWatcher polls and its worker listens.  Nothing says that the work
\* on a job ends by itself.
Fairness ==
    \A n \in Node :
       /\ WF_vars(HearCancellation(n))
       /\ WF_vars(SetJobCanceled(n))

LiveSpec == Spec /\ Fairness

-----------------------------------------------------------------------------
(* Properties.                                                             *)

Steps == {"none", "cancel pending", "cancel in progress", "set pending", "set canceled"}

\* Type invariant of the jobs and their workers.
TypeOK ==
    /\ status \in [Job -> {"new", "pending", "in_progress", "cancel_requested"} \cup Final]
    /\ work \in [Node -> Job \cup {NoJob}]
    /\ heard \in [Node -> BOOLEAN]
    /\ ending \in [Node -> BOOLEAN]
    /\ \A n \in Node : heard[n] \/ ending[n] => work[n] # NoJob
    /\ request \in [Requester -> {NoRequest} \cup [step : Steps \ {"none"}, job : Job]]
    /\ abandoned \subseteq Job
    /\ may \in Conditions

\* Nobody sets a status directly.
Orderly == may \cap {"patch", "replace"} = {}

\* A job is worked on by one node at a time (batch_migration_worker.go:22: "ensure only
\* one node in the cluster runs the migration at any given time"), unless its status is
\* set directly.
OneNodePerJob ==
    Orderly => \A m, n \in Node : work[m] # NoJob /\ work[m] = work[n] => m = n

\* Then too, a job that has ended keeps the status it ended with, whatever is still
\* under way and whatever fails -- but for one whose progress could not be recorded: its
\* worker first sets an error and then, without a return, success (batch_worker.go:168,
\* base_workers.go:97).
FinalStays ==
    [][Orderly => \A j \in Job : status[j] \in Final =>
          \/ status'[j] = status[j]
          \/ /\ status[j] = "error" /\ status'[j] = "success"
             /\ \E n \in Node : work[n] = j /\ ending[n]]_vars

\* Nobody works on a job that has ended, a cancelled one above all: a worker at most has
\* its status to set once more.
EndedIsLeft ==
    Orderly => \A n \in Node : work[n] # NoJob /\ ~ ending[n] => status[work[n]] \notin Final

\* Where requests are watched for, a request to cancel a job is not taken back: the job
\* ends (jobs.yaml:242, the valid status updates: 'cancel_requested' -> 'canceled').
RequestStands ==
    [][Orderly /\ Watching =>
          \A j \in Job : status[j] = "cancel_requested" =>
             status'[j] \in Final \cup {"cancel_requested"}]_vars

\* There, a job whose cancellation was requested ends, unless its node crashed or an
\* update failed.
CancellationHeard ==
    \A j \in Job :
       (status[j] = "cancel_requested" /\ may = {"watcher"}) ~> status[j] \in Final

\* No job is left in progress without a worker, where it would keep new ones from being
\* created, nor, where requests are watched for, with a request nobody hears, unless a
\* node that worked on it crashed or the update failed by which a worker claimed or left
\* it (batch_worker.go:141).
InProgressIsWorked ==
    \A j \in Job \ abandoned :
       status[j] = "in_progress" \/ (Watching /\ status[j] = "cancel_requested")
         => \E n \in Node : work[n] = j
=============================================================================
