--------------------------- MODULE JobServer_proofs ---------------------------
(***************************************************************************)
(* Proofs about JobServer, for every number of nodes, jobs and requests    *)
(* and both kinds of workers: while the status of jobs is changed by       *)
(* nothing but workers and requests to cancel, a job is worked on by one   *)
(* node, a job that has ended stays as it is but for the error that its    *)
(* own worker turns into success, and a request to cancel stands.  Nodes   *)
(* may crash and updates fail.  And about BatchReport, one kind of job:    *)
(* its report is complete while its rows can be read and its files         *)
(* written.                                                                *)
(***************************************************************************)
EXTENDS JobServer, BatchReport, TLAPS

WorkedByOne == \A m, n \in Node : work[m] # NoJob /\ work[m] = work[n] => m = n

\* A worker that has set an error goes on to set success.
WorkedOn ==
    \A n \in Node : work[n] # NoJob =>
       status[work[n]] \in AtWork \/ (ending[n] /\ status[work[n]] = "error")

NothingSet == \A r \in Requester : request[r].step \notin {"set pending", "set canceled"}

\* The inductive invariant.
Inv == TypeOK /\ WorkedByOne /\ WorkedOn /\ NothingSet

LEMMA InvInit == ASSUME Init PROVE Inv
<1>1. TypeOK
  BY DEF Init, TypeOK
<1>2. WorkedByOne /\ WorkedOn /\ NothingSet
  BY DEF Init, WorkedByOne, WorkedOn, NothingSet, NoRequest
<1> QED
  BY <1>1, <1>2 DEF Inv

\* What a call does to the types, by what it changes.
LEMMA StatusType ==
    ASSUME TypeOK, NEW j \in Job, NEW new \in {"pending", "in_progress", "cancel_requested"} \cup Final,
           UpdateStatus(j, new)
    PROVE  status' \in [Job -> {"new", "pending", "in_progress", "cancel_requested"} \cup Final]
BY DEF TypeOK, UpdateStatus

LEMMA LeaveType ==
    ASSUME TypeOK, NEW n \in Node, Leave(n)
    PROVE  /\ work' \in [Node -> Job \cup {NoJob}]
           /\ heard' \in [Node -> BOOLEAN] /\ ending' \in [Node -> BOOLEAN]
           /\ \A m \in Node : heard'[m] \/ ending'[m] => work'[m] # NoJob
BY DEF TypeOK, Leave

LEMMA RequestType ==
    ASSUME TypeOK, NEW r \in Requester,
           Done(r) \/ \E step \in Steps \ {"none"}, j \in Job : Go(r, step, j)
    PROVE  request' \in [Requester -> {NoRequest} \cup [step : Steps \ {"none"}, job : Job]]
<1>1. CASE Done(r)
  BY <1>1 DEF TypeOK, Done
<1>2. ASSUME NEW step \in Steps \ {"none"}, NEW j \in Job, Go(r, step, j)
      PROVE  request' \in [Requester -> {NoRequest} \cup [step : Steps \ {"none"}, job : Job]]
  <2>1. [step |-> step, job |-> j] \in [step : Steps \ {"none"}, job : Job]
    OBVIOUS
  <2> QED
    BY <1>2, <2>1 DEF TypeOK, Go
<1> QED
  BY <1>1, <1>2

\* The job of a request that is under way.
LEMMA RequestedJob ==
    ASSUME TypeOK, NEW r \in Requester, request[r].step # "none"
    PROVE  request[r].job \in Job
BY DEF TypeOK, NoRequest

LEMMA CreateClaimType ==
    ASSUME TypeOK, NEW j \in Job, CreateJobOnce(j) \/ \E n \in Node : ClaimJob(n, j)
    PROVE  TypeOK'
<1>1. CASE CreateJobOnce(j)
  BY <1>1, StatusType DEF CreateJobOnce, TypeOK
<1>2. ASSUME NEW n \in Node, ClaimJob(n, j) PROVE TypeOK'
  <2>1. /\ work' \in [Node -> Job \cup {NoJob}]
        /\ \A m \in Node : work[m] # NoJob => work'[m] # NoJob
    BY <1>2, NoJobAssumption DEF ClaimJob, TypeOK
  <2>2. UNCHANGED <<heard, ending, request, may>>
    BY <1>2 DEF ClaimJob
  <2>3. status' \in [Job -> {"new", "pending", "in_progress", "cancel_requested"} \cup Final]
    BY <1>2, StatusType DEF ClaimJob
  <2>4. abandoned' \subseteq Job
    BY <1>2 DEF ClaimJob, Abandon, TypeOK
  <2> QED
    BY <2>1, <2>2, <2>3, <2>4 DEF TypeOK
<1> QED
  BY <1>1, <1>2

\* Whether a job of a worker gets another status, its node leaves it.
LEMMA EndType ==
    ASSUME TypeOK, NEW n \in Node, work[n] # NoJob, Leave(n), UNCHANGED <<request, may>>,
           UNCHANGED abandoned \/ Abandon(work[n]),
           UNCHANGED status \/ \E new \in {"pending"} \cup Final : UpdateStatus(work[n], new)
    PROVE  TypeOK'
<1>1. work[n] \in Job
  BY DEF TypeOK
<1>2. status' \in [Job -> {"new", "pending", "in_progress", "cancel_requested"} \cup Final]
  BY <1>1, StatusType DEF TypeOK
<1>3. abandoned' \subseteq Job
  BY <1>1 DEF TypeOK, Abandon
<1> QED
  BY <1>2, <1>3, LeaveType DEF TypeOK

\* The actions by which a node leaves its job.
Ends(n) ==
    Succeed(n) \/ SetJobError(n) \/ SetJobCanceled(n) \/ Stop(n) \/ ResetJob(n) \/ Crash(n)

LEMMA EndsLeave ==
    ASSUME NEW n \in Node, Ends(n)
    PROVE  /\ work[n] # NoJob /\ Leave(n) /\ UNCHANGED <<request, may>>
           /\ UNCHANGED abandoned \/ Abandon(work[n])
           /\ UNCHANGED status \/ \E new \in {"pending"} \cup Final : UpdateStatus(work[n], new)
<1> USE DEF Final, UpdateFails
<1>1. CASE Succeed(n) \/ SetJobCanceled(n)
  BY <1>1 DEF Succeed, SetJobCanceled
<1>2. CASE SetJobError(n)
  BY <1>2 DEF SetJobError, ErrorUpdates
<1>3. CASE Stop(n)
  BY <1>3 DEF Stop
<1>4. CASE ResetJob(n) \/ Crash(n)
  BY <1>4 DEF ResetJob, Crash
<1> QED
  BY <1>1, <1>2, <1>3, <1>4 DEF Ends

LEMMA ProgressType ==
    ASSUME TypeOK, NEW n \in Node, ProgressFails(n)
    PROVE  /\ TypeOK' /\ work[n] # NoJob
           /\ ending' = [ending EXCEPT ![n] = TRUE]
           /\ UNCHANGED <<work, heard, request, abandoned, may>>
           /\ UNCHANGED status \/ (status[work[n]] \in AtWork /\ UpdateStatus(work[n], "error"))
<1>1. /\ work[n] # NoJob /\ ending' = [ending EXCEPT ![n] = TRUE]
      /\ UNCHANGED <<work, heard, request, abandoned, may>>
      /\ UNCHANGED status \/ (status[work[n]] \in AtWork /\ UpdateStatus(work[n], "error"))
  BY DEF ProgressFails, ErrorUpdates
<1>2. work[n] \in Job /\ "error" \in Final
  BY <1>1 DEF TypeOK, Final
<1>3. status' \in [Job -> {"new", "pending", "in_progress", "cancel_requested"} \cup Final]
  BY <1>1, <1>2, StatusType DEF TypeOK
<1>4. /\ ending' \in [Node -> BOOLEAN]
      /\ \A m \in Node : heard'[m] \/ ending'[m] => work'[m] # NoJob
  BY <1>1 DEF TypeOK
<1> QED
  BY <1>1, <1>3, <1>4 DEF TypeOK

\* What the two updates of RequestCancellation do.
LEMMA CancelEffect ==
    ASSUME TypeOK, NEW r \in Requester, CancelPending(r) \/ CancelInProgress(r)
    PROVE  /\ request[r].job \in Job
           /\ UNCHANGED <<work, heard, ending, abandoned, may>>
           /\ Done(r) \/ Go(r, "cancel in progress", request[r].job)
           /\ \/ UNCHANGED status
              \/ /\ status[request[r].job] = "pending"
                 /\ UpdateStatus(request[r].job, "canceled")
              \/ /\ status[request[r].job] = "in_progress"
                 /\ UpdateStatus(request[r].job, "cancel_requested")
<1>1. request[r].job \in Job
  BY RequestedJob DEF CancelPending, CancelInProgress
<1>2. CASE CancelPending(r)
  BY <1>1, <1>2 DEF CancelPending
<1>3. CASE CancelInProgress(r)
  BY <1>1, <1>3 DEF CancelInProgress
<1> QED
  BY <1>2, <1>3

LEMMA RequestStepType ==
    ASSUME TypeOK, NEW r \in Requester,
           \/ \E j \in Job : CancelJob(r, j) \/ PatchStatus(r, j) \/ ReplaceJob(r, j)
           \/ CancelPending(r) \/ CancelInProgress(r) \/ SetStatus(r) \/ RequestFails(r)
    PROVE  TypeOK'
<1> USE DEF Steps
<1>1. ASSUME NEW j \in Job, CancelJob(r, j) \/ PatchStatus(r, j) \/ ReplaceJob(r, j)
      PROVE  TypeOK'
  <2>1. \E step \in Steps \ {"none"} : Go(r, step, j)
    BY <1>1 DEF CancelJob, PatchStatus, ReplaceJob
  <2>2. UNCHANGED <<status, work, heard, ending, abandoned, may>>
    BY <1>1 DEF CancelJob, PatchStatus, ReplaceJob
  <2> QED
    BY <2>1, <2>2, RequestType DEF TypeOK
<1>2. CASE CancelPending(r) \/ CancelInProgress(r)
  <2>1. status' \in [Job -> {"new", "pending", "in_progress", "cancel_requested"} \cup Final]
    BY <1>2, CancelEffect, StatusType DEF TypeOK, Final
  <2>2. Done(r) \/ \E step \in Steps \ {"none"}, j \in Job : Go(r, step, j)
    BY <1>2, CancelEffect
  <2>3. UNCHANGED <<work, heard, ending, abandoned, may>>
    BY <1>2, CancelEffect
  <2>4. request' \in [Requester -> {NoRequest} \cup [step : Steps \ {"none"}, job : Job]]
    BY <2>2, RequestType
  <2> QED
    BY <2>1, <2>3, <2>4 DEF TypeOK
<1>3. CASE SetStatus(r)
  <2>1. request[r].job \in Job
    BY <1>3, RequestedJob DEF SetStatus
  <2>2. status' \in [Job -> {"new", "pending", "in_progress", "cancel_requested"} \cup Final]
    BY <1>3, <2>1, StatusType DEF SetStatus, Final
  <2>3. Done(r) /\ UNCHANGED <<work, heard, ending, abandoned, may>>
    BY <1>3 DEF SetStatus
  <2>4. request' \in [Requester -> {NoRequest} \cup [step : Steps \ {"none"}, job : Job]]
    BY <2>3, RequestType
  <2> QED
    BY <2>2, <2>3, <2>4 DEF TypeOK
<1>4. CASE RequestFails(r)
  <2>1. request' \in [Requester -> {NoRequest} \cup [step : Steps \ {"none"}, job : Job]]
    BY <1>4, RequestType DEF RequestFails
  <2> QED
    BY <1>4, <2>1 DEF RequestFails, TypeOK
<1> QED
  BY <1>1, <1>2, <1>3, <1>4

LEMMA TypeStep == ASSUME TypeOK, [Next]_vars PROVE TypeOK'
<1>1. ASSUME NEW n \in Node, Ends(n) PROVE TypeOK'
  BY <1>1, EndsLeave, EndType
<1>2. ASSUME NEW n \in Node, HearCancellation(n) PROVE TypeOK'
  BY <1>2 DEF HearCancellation, TypeOK
<1>3. CASE UNCHANGED vars
  BY <1>3 DEF vars, TypeOK
<1> QED
  BY <1>1, <1>2, <1>3, CreateClaimType, ProgressType, RequestStepType DEF Next, Ends

\* A node that leaves its job, whatever becomes of it, disturbs no other node.
LEMMA LeaveKeeps ==
    ASSUME Inv, TypeOK', NEW n \in Node, work[n] # NoJob, Leave(n), UNCHANGED <<request, may>>,
           UNCHANGED status \/ \E new \in {"pending"} \cup Final : UpdateStatus(work[n], new)
    PROVE  Inv'
<1>1. /\ work'[n] = NoJob
      /\ \A m \in Node \ {n} : /\ work'[m] = work[m] /\ ending'[m] = ending[m]
                               /\ work[m] # NoJob => work[m] # work[n]
  BY DEF Leave, Inv, TypeOK, WorkedByOne
<1>2. \A j \in Job : j # work[n] => status'[j] = status[j]
  BY DEF UpdateStatus, Inv, TypeOK
<1>3. WorkedByOne'
  BY <1>1 DEF Inv, WorkedByOne
<1>4. WorkedOn'
  BY <1>1, <1>2 DEF Inv, WorkedOn, TypeOK
<1> QED
  BY <1>3, <1>4 DEF Inv, NothingSet

\* A request that moves on to no direct change.
LEMMA RequestKeeps ==
    ASSUME TypeOK, NothingSet, NEW r \in Requester, NEW j \in Job,
           Done(r) \/ Go(r, "cancel pending", j) \/ Go(r, "cancel in progress", j)
    PROVE  NothingSet'
<1>1. request'[r].step \in {"none", "cancel pending", "cancel in progress"}
  <2>1. CASE Done(r)
    BY <2>1 DEF Done, TypeOK, NoRequest
  <2>2. CASE Go(r, "cancel pending", j)
    BY <2>2 DEF Go, TypeOK
  <2>3. CASE Go(r, "cancel in progress", j)
    BY <2>3 DEF Go, TypeOK
  <2> QED
    BY <2>1, <2>2, <2>3
<1>2. \A q \in Requester \ {r} : request'[q] = request[q]
  BY DEF Done, Go, TypeOK
<1> QED
  BY <1>1, <1>2 DEF NothingSet

LEMMA InvStep == ASSUME Orderly, Inv, [Next]_vars PROVE Inv'
<1>0. TypeOK'
  BY TypeStep DEF Inv
<1>1. ASSUME NEW j \in Job, CreateJobOnce(j) PROVE Inv'
  <2>1. WorkedOn'
    BY <1>1 DEF CreateJobOnce, UpdateStatus, Inv, TypeOK, WorkedOn, AtWork
  <2> QED
    BY <1>0, <1>1, <2>1 DEF CreateJobOnce, Inv, WorkedByOne, NothingSet
<1>2. ASSUME NEW n \in Node, NEW j \in Job, ClaimJob(n, j) PROVE Inv'
  <2>1. \A m \in Node : work[m] # j
    BY <1>2, NoJobAssumption DEF ClaimJob, Inv, WorkedOn, AtWork
  <2>2. /\ work'[n] \in {j, NoJob} /\ \A m \in Node \ {n} : work'[m] = work[m]
        /\ status'[j] = "in_progress"
        /\ \A k \in Job \ {j} : status'[k] = status[k]
        /\ UNCHANGED <<ending, request>>
    BY <1>2 DEF ClaimJob, UpdateStatus, Inv, TypeOK
  <2>3. WorkedByOne'
    BY <2>1, <2>2 DEF Inv, WorkedByOne
  <2>4. WorkedOn'
    BY <2>1, <2>2 DEF Inv, WorkedOn, AtWork, TypeOK
  <2> QED
    BY <1>0, <2>2, <2>3, <2>4 DEF Inv, NothingSet
<1>3. ASSUME NEW n \in Node, Ends(n) PROVE Inv'
  BY <1>0, <1>3, EndsLeave, LeaveKeeps
<1>4. ASSUME NEW n \in Node, HearCancellation(n) PROVE Inv'
  BY <1>0, <1>4 DEF HearCancellation, Inv, WorkedByOne, WorkedOn, NothingSet
<1>10. ASSUME NEW n \in Node, ProgressFails(n) PROVE Inv'
  <2>1. /\ work[n] \in Job /\ ending'[n]
        /\ \A m \in Node \ {n} : ending'[m] = ending[m] /\ (work[m] # NoJob => work[m] # work[n])
    BY <1>10, ProgressType DEF Inv, TypeOK, WorkedByOne
  <2>2. /\ \A j \in Job : j # work[n] => status'[j] = status[j]
        /\ status'[work[n]] = status[work[n]] \/ status'[work[n]] = "error"
    BY <1>10, <2>1, ProgressType DEF UpdateStatus, Inv, TypeOK
  <2>3. UNCHANGED <<work, request>>
    BY <1>10, ProgressType DEF Inv
  <2>4. WorkedOn'
    BY <2>1, <2>2, <2>3 DEF Inv, TypeOK, WorkedOn
  <2> QED
    BY <1>0, <2>3, <2>4 DEF Inv, WorkedByOne, NothingSet
<1>11. ASSUME NEW r \in Requester, RequestFails(r) PROVE Inv'
  <2>1. NothingSet'
    BY <1>11 DEF RequestFails, Done, NoRequest, Inv, TypeOK, NothingSet
  <2> QED
    BY <1>0, <1>11, <2>1 DEF RequestFails, Inv, WorkedByOne, WorkedOn
<1>5. ASSUME NEW r \in Requester, NEW j \in Job, CancelJob(r, j) PROVE Inv'
  <2>1. NothingSet'
    BY <1>5, RequestKeeps DEF CancelJob, Inv
  <2> QED
    BY <1>0, <1>5, <2>1 DEF CancelJob, Inv, WorkedByOne, WorkedOn
<1>6. ASSUME NEW r \in Requester, CancelPending(r) \/ CancelInProgress(r) PROVE Inv'
  <2>1. NothingSet'
    BY <1>6, CancelEffect, RequestKeeps DEF Inv
  <2>2. \A j \in Job : /\ status[j] \in AtWork => status'[j] \in AtWork
                       /\ status[j] = "error" => status'[j] = "error"
    BY <1>6, CancelEffect DEF UpdateStatus, Inv, TypeOK, AtWork
  <2>3. UNCHANGED <<work, heard, ending>>
    BY <1>6, CancelEffect DEF Inv
  <2>4. WorkedOn'
    BY <2>2, <2>3 DEF Inv, TypeOK, WorkedOn
  <2> QED
    BY <1>0, <2>1, <2>3, <2>4 DEF Inv, WorkedByOne
<1>7. \A r \in Requester, j \in Job : ~ PatchStatus(r, j) /\ ~ ReplaceJob(r, j)
  BY DEF Orderly, PatchStatus, ReplaceJob
<1>8. \A r \in Requester : ~ SetStatus(r)
  BY DEF SetStatus, Inv, NothingSet
<1>9. CASE UNCHANGED vars
  BY <1>0, <1>9 DEF vars, Inv, WorkedByOne, WorkedOn, NothingSet
<1> QED
  BY <1>1, <1>2, <1>3, <1>4, <1>5, <1>6, <1>7, <1>8, <1>9, <1>10, <1>11 DEF Next, Ends

\* A step of Next leaves the jobs that have ended alone.
LEMMA FinalStep ==
    ASSUME Orderly, Inv, [Next]_vars, NEW j \in Job, status[j] \in Final
    PROVE  \/ status'[j] = status[j]
           \/ /\ status[j] = "error" /\ status'[j] = "success"
              /\ \E n \in Node : work[n] = j /\ ending[n]
<1> USE DEF Inv, TypeOK, Final, UpdateStatus
<1>1. ASSUME NEW k \in Job, CreateJobOnce(k) PROVE status'[j] = status[j]
  BY <1>1 DEF CreateJobOnce
<1>2. ASSUME NEW n \in Node, NEW k \in Job, ClaimJob(n, k) PROVE status'[j] = status[j]
  BY <1>2 DEF ClaimJob
<1>3. ASSUME NEW n \in Node, Ends(n)
      PROVE  \/ status'[j] = status[j]
             \/ status[j] = "error" /\ status'[j] = "success" /\ work[n] = j /\ ending[n]
  <2>1. CASE j # work[n]
    BY <1>3, <2>1, EndsLeave
  <2>2. CASE j = work[n]
    <3>1. ending[n] /\ status[j] = "error"
      BY <2>2, NoJobAssumption DEF WorkedOn, AtWork
    <3>2. UNCHANGED status \/ UpdateStatus(work[n], "success")
      BY <1>3, <2>2, <3>1
         DEF Ends, Succeed, SetJobError, ErrorUpdates, SetJobCanceled, UpdateFails, Stop,
             ResetJob, Crash, AtWork
    <3> QED
      BY <2>2, <3>1, <3>2
  <2> QED
    BY <2>1, <2>2
<1>10. ASSUME NEW n \in Node, ProgressFails(n) PROVE status'[j] = status[j]
  <2>1. UNCHANGED status \/ (status[work[n]] \in AtWork /\ UpdateStatus(work[n], "error"))
    BY <1>10, ProgressType
  <2> QED
    BY <2>1 DEF AtWork
<1>11. ASSUME NEW r \in Requester, RequestFails(r) PROVE status'[j] = status[j]
  BY <1>11 DEF RequestFails
<1>4. ASSUME NEW n \in Node, HearCancellation(n) PROVE status'[j] = status[j]
  BY <1>4 DEF HearCancellation
<1>5. ASSUME NEW r \in Requester, NEW k \in Job, CancelJob(r, k)
      PROVE  status'[j] = status[j]
  BY <1>5 DEF CancelJob
<1>6. ASSUME NEW r \in Requester, CancelPending(r) \/ CancelInProgress(r)
      PROVE  status'[j] = status[j]
  BY <1>6, CancelEffect
<1>7. \A r \in Requester, k \in Job : ~ PatchStatus(r, k) /\ ~ ReplaceJob(r, k)
  BY DEF Orderly, PatchStatus, ReplaceJob
<1>8. \A r \in Requester : ~ SetStatus(r)
  BY DEF SetStatus, NothingSet
<1>9. CASE UNCHANGED vars
  BY <1>9 DEF vars
<1> QED
  BY <1>1, <1>2, <1>3, <1>4, <1>5, <1>6, <1>7, <1>8, <1>9, <1>10, <1>11 DEF Next, Ends

\* The circumstances of a behaviour are settled when it begins.
LEMMA MayStays == ASSUME [Next]_vars PROVE may' = may
BY DEF Next, CreateJobOnce, ClaimJob, Succeed, ProgressFails, SetJobError, RequestFails, HearCancellation, SetJobCanceled,
       Stop, ResetJob, Crash, CancelJob, PatchStatus, ReplaceJob, CancelPending,
       CancelInProgress, SetStatus, vars

LEMMA OrderlyInvariant == Spec => [](Orderly => Inv)
<1>1. Init => (Orderly => Inv)
  BY InvInit
<1>2. (Orderly => Inv) /\ [Next]_vars => (Orderly => Inv)'
  BY InvStep, MayStays DEF Orderly
<1> QED
  BY <1>1, <1>2, PTL DEF Spec

\* The types hold whoever changes what.
THEOREM TypeCorrect == Spec => []TypeOK
<1>1. Init => TypeOK
  BY InvInit DEF Inv
<1>2. TypeOK /\ [Next]_vars => TypeOK'
  BY TypeStep
<1> QED
  BY <1>1, <1>2, PTL DEF Spec

\* Where nobody sets a status directly, a job is worked on by one node at a time, and by
\* none once it has ended.
THEOREM WorkedOnByOne == Spec => [](OneNodePerJob /\ EndedIsLeft)
<1>1. (Orderly => Inv) => OneNodePerJob /\ EndedIsLeft
  BY DEF Inv, WorkedByOne, WorkedOn, OneNodePerJob, EndedIsLeft, AtWork, Final
<1> QED
  BY <1>1, OrderlyInvariant, PTL

\* There, a job that has ended keeps the status it ended with, but for an error that its
\* worker turns into success when it could not record the progress.
THEOREM EndedForGood == Spec => FinalStays
<1>1. (Orderly => Inv) /\ [Next]_vars
        => [Orderly => \A j \in Job : status[j] \in Final =>
               \/ status'[j] = status[j]
               \/ /\ status[j] = "error" /\ status'[j] = "success"
                  /\ \E n \in Node : work[n] = j /\ ending[n]]_vars
  BY FinalStep
<1> QED
  BY <1>1, OrderlyInvariant, PTL DEF Spec, FinalStays

\* There, and where requests are watched for, a request to cancel a job stands.
THEOREM CancellationStands == Spec => RequestStands
<1>1. ASSUME Orderly, Inv, Watching, [Next]_vars, NEW j \in Job,
             status[j] = "cancel_requested"
      PROVE  status'[j] \in Final \cup {"cancel_requested"}
  <2> USE <1>1 DEF Inv, TypeOK, Final, UpdateStatus
  <2>1. ASSUME NEW k \in Job, CreateJobOnce(k)
        PROVE  status'[j] \in Final \cup {"cancel_requested"}
    BY <2>1 DEF CreateJobOnce
  <2>2. ASSUME NEW n \in Node, NEW k \in Job, ClaimJob(n, k)
        PROVE  status'[j] \in Final \cup {"cancel_requested"}
    BY <2>2 DEF ClaimJob
  <2>3. ASSUME NEW n \in Node, Ends(n)
        PROVE  status'[j] \in Final \cup {"cancel_requested"}
    <3>1. UNCHANGED status \/ \E new \in Final : UpdateStatus(work[n], new)
      BY <2>3 DEF Ends, Succeed, SetJobError, ErrorUpdates, SetJobCanceled, UpdateFails, Stop,
                  ResetJob, Crash
    <3> QED
      BY <3>1
  <2>4. ASSUME NEW n \in Node, HearCancellation(n)
        PROVE  status'[j] \in Final \cup {"cancel_requested"}
    BY <2>4 DEF HearCancellation
  <2>5. ASSUME NEW r \in Requester, NEW k \in Job, CancelJob(r, k)
        PROVE  status'[j] \in Final \cup {"cancel_requested"}
    BY <2>5 DEF CancelJob
  <2>6. ASSUME NEW r \in Requester, CancelPending(r) \/ CancelInProgress(r)
        PROVE  status'[j] \in Final \cup {"cancel_requested"}
    BY <2>6, CancelEffect
  <2>7. \A r \in Requester, k \in Job : ~ PatchStatus(r, k) /\ ~ ReplaceJob(r, k)
    BY DEF Orderly, PatchStatus, ReplaceJob
  <2>8. \A r \in Requester : ~ SetStatus(r)
    BY DEF SetStatus, NothingSet
  <2>9. CASE UNCHANGED vars
    BY <2>9 DEF vars
  <2>10. \A n \in Node : ~ ProgressFails(n)
    BY DEF ProgressFails
  <2>11. ASSUME NEW r \in Requester, RequestFails(r)
         PROVE  status'[j] \in Final \cup {"cancel_requested"}
    BY <2>11 DEF RequestFails
  <2> QED
    BY <2>1, <2>2, <2>3, <2>4, <2>5, <2>6, <2>7, <2>8, <2>9, <2>10, <2>11 DEF Next, Ends
<1>2. (Orderly => Inv) /\ [Next]_vars
        => [Orderly /\ Watching =>
               \A j \in Job : status[j] = "cancel_requested" =>
                  status'[j] \in Final \cup {"cancel_requested"}]_vars
  BY <1>1
<1> QED
  BY <1>2, OrderlyInvariant, PTL DEF Spec, RequestStands

-----------------------------------------------------------------------------
(* No job is left behind but by a crash or an update that failed.  This    *)
(* needs nothing about who sets a status.                                  *)

\* A job that cannot end unless somebody works on it.
Waits(j) == status[j] = "in_progress" \/ (Watching /\ status[j] = "cancel_requested")

WaitingIsWorked == \A j \in Job \ abandoned : Waits(j) => \E n \in Node : work[n] = j

\* A node that leaves its job leaves it waiting for nobody, or abandoned.
LEMMA LeavesNothing ==
    ASSUME TypeOK, NEW n \in Node, Ends(n), NEW j \in Job, work[n] = j
    PROVE  ~ Waits(j)' \/ j \in abandoned'
<1> USE DEF Waits, Watching, UpdateStatus, UpdateFails, Abandon, TypeOK
<1>1. CASE Succeed(n) \/ SetJobCanceled(n)
  BY <1>1 DEF Succeed, SetJobCanceled
<1>2. CASE SetJobError(n)
  BY <1>2 DEF SetJobError, ErrorUpdates, AtWork
<1>3. CASE Stop(n)
  BY <1>3 DEF Stop
<1>4. CASE ResetJob(n)
  BY <1>4 DEF ResetJob
<1>5. CASE Crash(n)
  BY <1>5 DEF Crash
<1> QED
  BY <1>1, <1>2, <1>3, <1>4, <1>5 DEF Ends

\* What leaves the work alone, and lets no job wait that did not wait before.
LEMMA WorkedStays ==
    ASSUME WaitingIsWorked, UNCHANGED <<work, abandoned>>, \A j \in Job : Waits(j)' => Waits(j)
    PROVE  WaitingIsWorked'
BY DEF WaitingIsWorked

LEMMA WorkedStep ==
    ASSUME TypeOK, WaitingIsWorked, [Next]_vars
    PROVE  WaitingIsWorked'
<1> USE DEF Waits, Watching, UpdateStatus, TypeOK
<1>1. ASSUME NEW j \in Job, CreateJobOnce(j) PROVE WaitingIsWorked'
  BY <1>1, WorkedStays DEF CreateJobOnce
<1>2. ASSUME NEW n \in Node, NEW j \in Job, ClaimJob(n, j) PROVE WaitingIsWorked'
  <2>1. /\ \/ work'[n] = j /\ abandoned' = abandoned \ {j}
           \/ UNCHANGED work /\ abandoned' = abandoned \cup {j}
        /\ \A m \in Node : work[m] # NoJob => work'[m] = work[m]
        /\ \A k \in Job \ {j} : Waits(k)' => Waits(k)
    BY <1>2 DEF ClaimJob, Abandon
  <2> QED
    BY <2>1, NoJobAssumption DEF WaitingIsWorked
<1>3. ASSUME NEW n \in Node, Ends(n) PROVE WaitingIsWorked'
  <2>1. \A j \in Job \ abandoned' : Waits(j)' => Waits(j) /\ j # work[n]
    BY <1>3, EndsLeave, LeavesNothing DEF Final
  <2>2. \A m \in Node \ {n} : work'[m] = work[m]
    BY <1>3, EndsLeave DEF Leave
  <2>3. abandoned \subseteq abandoned'
    BY <1>3, EndsLeave DEF Abandon
  <2> QED
    BY <2>1, <2>2, <2>3 DEF WaitingIsWorked
<1>4. ASSUME NEW n \in Node, HearCancellation(n) PROVE WaitingIsWorked'
  BY <1>4, WorkedStays DEF HearCancellation
<1>5. ASSUME NEW r \in Requester, NEW j \in Job,
             CancelJob(r, j) \/ PatchStatus(r, j) \/ ReplaceJob(r, j)
      PROVE  WaitingIsWorked'
  BY <1>5, WorkedStays DEF CancelJob, PatchStatus, ReplaceJob
<1>6. ASSUME NEW r \in Requester, CancelPending(r) \/ CancelInProgress(r)
      PROVE  WaitingIsWorked'
  BY <1>6, CancelEffect, WorkedStays
<1>7. ASSUME NEW r \in Requester, SetStatus(r) PROVE WaitingIsWorked'
  <2>1. request[r].job \in Job
    BY <1>7, RequestedJob DEF SetStatus
  <2> QED
    BY <1>7, <2>1, WorkedStays DEF SetStatus
<1>8. CASE UNCHANGED vars
  BY <1>8, WorkedStays DEF vars
<1>9. ASSUME NEW n \in Node, ProgressFails(n) PROVE WaitingIsWorked'
  <2>1. /\ UNCHANGED <<work, abandoned, may>>
        /\ UNCHANGED status \/ UpdateStatus(work[n], "error")
    BY <1>9, ProgressType
  <2> QED
    BY <2>1, WorkedStays
<1>10. ASSUME NEW r \in Requester, RequestFails(r) PROVE WaitingIsWorked'
  BY <1>10, WorkedStays DEF RequestFails
<1> QED
  BY <1>1, <1>2, <1>3, <1>4, <1>5, <1>6, <1>7, <1>8, <1>9, <1>10 DEF Next, Ends

\* A job in progress has a worker -- and so has, where requests are watched for, one whose
\* cancellation is requested --, whoever else sets its status meanwhile, unless a node
\* that worked on it crashed or the update failed by which a worker claimed or left it.
THEOREM NoneLeftBehind == Spec => []InProgressIsWorked
<1>1. Init => WaitingIsWorked
  BY DEF Init, WaitingIsWorked, Waits
<1>2. TypeOK /\ WaitingIsWorked /\ [Next]_vars => WaitingIsWorked'
  BY WorkedStep
<1>3. WaitingIsWorked => InProgressIsWorked
  BY DEF WaitingIsWorked, Waits, InProgressIsWorked
<1>4. Spec => []WaitingIsWorked
  BY <1>1, <1>2, TypeCorrect, PTL DEF Spec
<1> QED
  BY <1>3, <1>4, PTL

-----------------------------------------------------------------------------
(* Batch reports, for every number of batches and of stops.                  *)

USE DEF BatchesAssumption, DistinctAssumption

\* What the proofs assume.
RowsSaved == "save" \notin Failures /\ "read" \notin Failures

\* The files up to the place that the data names hold the batches up to it.
Pace(d) ==
    /\ d.file_count = d.place /\ d.file_count <= Len(chunks)
    /\ \A i \in 1..d.file_count : chunks[i] = i

\* The inductive invariant.  The data in the store and those of the worker are both
\* what a next batch may start from.
ReportInv ==
    /\ data \in Data
    /\ jobData \in Data \cup {NotRunning}
    /\ chunks \in Seq(0..Batches)
    /\ Pace(data)
    /\ jobData # NotRunning => Pace(jobData)
    /\ ReportIsComplete

LEMMA ReportInvInit == ASSUME BatchesAssumption, ReportInit PROVE ReportInv
<1>1. data \in Data
  BY BatchesAssumption DEF ReportInit, Data
<1>2. Pace(data)
  BY DEF ReportInit, Pace
<1> QED
  BY <1>1, <1>2 DEF ReportInit, ReportInv, ReportIsComplete

\* A batch written to the file with its number leaves the files before it, and the
\* others where they were.
LEMMA WriteNext ==
    ASSUME BatchesAssumption, chunks \in Seq(0..Batches), NEW n \in 0..Batches, n < Batches, n <= Len(chunks),
           WriteChunk(n, n + 1)
    PROVE  /\ chunks' \in Seq(0..Batches)
           /\ Len(chunks') >= Len(chunks) /\ Len(chunks') >= n + 1
           /\ chunks'[n + 1] = n + 1
           /\ \A i \in 1..Len(chunks) : i # n + 1 => chunks'[i] = chunks[i]
<1>0. Batches \in Nat /\ n + 1 \in 0..Batches /\ Len(chunks) \in Nat
  BY BatchesAssumption
<1>1. CASE n < Len(chunks)
  <2>1. chunks' = [chunks EXCEPT ![n + 1] = n + 1] /\ n + 1 \in 1..Len(chunks)
    BY <1>0, <1>1 DEF WriteChunk
  <2> QED
    BY <1>0, <2>1
<1>2. CASE n = Len(chunks)
  <2>1. chunks' = Append(chunks, n + 1)
    BY <1>2 DEF WriteChunk
  <2> QED
    BY <1>0, <1>2, <2>1
<1> QED
  BY <1>0, <1>1, <1>2

\* So every place that the files kept pace with, they keep pace with; and the next one.
LEMMA PaceKept ==
    ASSUME BatchesAssumption, chunks \in Seq(0..Batches), NEW n \in 0..Batches, n < Batches, n <= Len(chunks),
           WriteChunk(n, n + 1), NEW d \in Data, Pace(d)
    PROVE  Pace(d)'
<1>1. d.file_count \in Nat /\ Len(chunks) \in Nat /\ n \in Nat
  BY BatchesAssumption DEF Data
<1>2. /\ Len(chunks') \in Nat /\ Len(chunks') >= Len(chunks)
      /\ chunks'[n + 1] = n + 1
      /\ \A i \in 1..Len(chunks) : i # n + 1 => chunks'[i] = chunks[i]
  BY WriteNext
<1>3. ASSUME NEW i \in 1..d.file_count PROVE chunks'[i] = i
  <2>1. i \in 1..Len(chunks) /\ chunks[i] = i
    BY <1>1 DEF Pace
  <2> QED
    BY <1>2, <2>1
<1> QED
  BY <1>1, <1>2, <1>3 DEF Pace

LEMMA PaceNext ==
    ASSUME BatchesAssumption, chunks \in Seq(0..Batches), NEW d \in Data, Pace(d), d.place < Batches,
           WriteChunk(d.place, d.place + 1),
           NEW e, e = [place |-> d.place + 1, file_count |-> d.file_count + 1]
    PROVE  e \in Data /\ Pace(e)'
<1>1. d.place \in 0..Batches /\ d.file_count = d.place /\ Batches \in Nat
      /\ d.place <= Len(chunks) /\ Len(chunks) \in Nat
  BY BatchesAssumption DEF Data, Pace
<1>2. e \in Data
  BY <1>1 DEF Data
<1>3. /\ d.place < Batches
      /\ chunks' \in Seq(0..Batches) /\ Len(chunks') >= d.place + 1
      /\ chunks'[d.place + 1] = d.place + 1
      /\ \A i \in 1..Len(chunks) : i # d.place + 1 => chunks'[i] = chunks[i]
  BY <1>1, WriteNext
<1>4. Len(chunks') \in Nat
  BY <1>3
<1>5. ASSUME NEW i \in 1..d.place + 1 PROVE chunks'[i] = i
  <2>1. CASE i = d.place + 1
    BY <1>3, <2>1
  <2>2. CASE i # d.place + 1
    <3>1. i \in 1..d.file_count /\ i \in 1..Len(chunks)
      BY <1>1, <2>2
    <3> QED
      BY <1>3, <2>2, <3>1 DEF Pace
  <2> QED
    BY <2>1, <2>2
<1>6. e.file_count = d.place + 1 /\ e.place = d.place + 1
  BY <1>1
<1> QED
  BY <1>2, <1>3, <1>4, <1>5, <1>6 DEF Pace

LEMMA ReportInvStep ==
    ASSUME BatchesAssumption, DistinctAssumption, RowsSaved, ReportInv, [ReportNext]_reportVars
    PROVE  ReportInv'
<1>1. CASE Claim
  BY <1>1 DEF Claim, ReportInv, Pace, ReportIsComplete
<1>2. CASE DoBatch
  <2>1. jobData \in Data /\ Pace(jobData) /\ jobData.place < Batches
    BY <1>2 DEF DoBatch, Working, ReportInv
  <2>2. WriteChunk(jobData.place, jobData.place + 1)
    BY <1>2, <2>1 DEF DoBatch, Pace
  <2>3. jobData' = [place |-> jobData.place + 1, file_count |-> jobData.file_count + 1]
    BY <1>2 DEF DoBatch
  <2>4. jobData' \in Data /\ Pace(jobData)'
    BY <2>1, <2>2, <2>3, PaceNext DEF ReportInv
  <2>5. jobData.place \in 0..Batches /\ jobData.place <= Len(chunks)
    BY <2>1 DEF Data, Pace
  <2>6. chunks' \in Seq(0..Batches) /\ Pace(data)'
    <3>1. chunks' \in Seq(0..Batches)
      BY <2>1, <2>2, <2>5, WriteNext DEF ReportInv
    <3>2. ASSUME NEW d \in Data, Pace(d) PROVE d.file_count <= Len(chunks')
                                    /\ \A i \in 1..d.file_count : chunks'[i] = i
      BY <2>1, <2>2, <2>5, <3>2, PaceKept DEF ReportInv, Pace
    <3>3. data' \in Data /\ data'.file_count = data'.place
          /\ data'.file_count <= Len(chunks')
          /\ \A i \in 1..data'.file_count : chunks'[i] = i
      <4>1. CASE data' = jobData'
        BY <2>4, <4>1 DEF Pace
      <4>2. CASE data' = data
        BY <3>2, <4>2 DEF ReportInv, Pace
      <4> QED
        BY <1>2, <4>1, <4>2 DEF DoBatch, SetJobProgress
    <3> QED
      BY <3>1, <3>3 DEF Pace
  <2>7. data' \in Data
    BY <1>2, <2>4 DEF DoBatch, SetJobProgress, ReportInv
  <2>8. ReportIsComplete'
    BY <1>2 DEF DoBatch, ReportInv, ReportIsComplete
  <2> QED
    BY <2>4, <2>6, <2>7, <2>8 DEF ReportInv, Pace
<1>3. CASE SaveFails \/ ReadFails
  BY <1>3 DEF SaveFails, ReadFails, RowsSaved
<1>4. CASE ParseFails
  BY <1>4, DistinctAssumption DEF ParseFails, ReportInv
<1>5. CASE Complete
  <2>1. jobData \in Data /\ Pace(jobData) /\ jobData.place = Batches
    BY <1>5 DEF Complete, Working, ReportInv
  <2>2. ReportIsComplete'
    <3>1. CASE report' = SubSeq(chunks, 1, jobData.file_count)
      <4>1. jobData.file_count = Batches /\ Batches \in Nat /\ Batches <= Len(chunks)
        BY <2>1, BatchesAssumption DEF Pace
      <4>2. \A i \in 1..Batches : chunks[i] = i
        BY <2>1, <4>1 DEF Pace
      <4>3. SubSeq(chunks, 1, Batches) = [i \in 1..Batches |-> chunks[i]]
        BY <4>1 DEF ReportInv
      <4> QED
        BY <3>1, <4>1, <4>2, <4>3 DEF ReportIsComplete
    <3>2. CASE report' = report
      BY <3>2 DEF ReportInv, ReportIsComplete
    <3> QED
      BY <1>5, <3>1, <3>2 DEF Complete
  <2> QED
    BY <1>5, <2>2 DEF Complete, ReportInv, Pace
<1>6. CASE StopReport
  BY <1>6 DEF StopReport, ReportInv, Pace, ReportIsComplete
<1>7. CASE CrashReport
  <2>1. jobData \in Data /\ Pace(jobData) /\ jobData' = NotRunning /\ UNCHANGED <<data, report>>
    BY <1>7 DEF CrashReport, Working, ReportInv
  <2>2. CASE UNCHANGED chunks
    BY <2>1, <2>2 DEF ReportInv, Pace, ReportIsComplete
  <2>3. CASE jobData.place < Batches /\ WriteChunk(jobData.file_count, jobData.place + 1)
    <3>1. /\ jobData.place \in 0..Batches /\ jobData.place <= Len(chunks)
          /\ WriteChunk(jobData.place, jobData.place + 1)
      BY <2>1, <2>3 DEF Data, Pace
    <3>2. chunks' \in Seq(0..Batches)
      BY <2>3, <3>1, WriteNext DEF ReportInv
    <3>3. Pace(data)'
      <4>1. ASSUME NEW d \in Data, Pace(d) PROVE d.file_count <= Len(chunks')
                                    /\ \A i \in 1..d.file_count : chunks'[i] = i
        BY <2>3, <3>1, <4>1, PaceKept DEF ReportInv, Pace
      <4> QED
        BY <2>1, <4>1 DEF ReportInv, Pace
    <3> QED
      BY <2>1, <3>2, <3>3 DEF ReportInv, ReportIsComplete
  <2> QED
    BY <1>7, <2>2, <2>3 DEF CrashReport
<1>8. CASE SetPending
  BY <1>8 DEF SetPending, ReportInv, Pace, ReportIsComplete
<1>9. CASE UNCHANGED reportVars
  BY <1>9 DEF reportVars, ReportInv, Pace, ReportIsComplete
<1> QED
  BY <1>1, <1>2, <1>3, <1>4, <1>5, <1>6, <1>7, <1>8, <1>9 DEF ReportNext

\* While rows can be read and files written, the report that is sent has every row once
\* and in order, and the files keep pace with the data, whatever is stopped, crashes or
\* is not recorded.
THEOREM CompleteReport ==
    ASSUME BatchesAssumption, DistinctAssumption, RowsSaved
    PROVE  ReportSpec => [](ReportIsComplete /\ FilesKeepPace)
<1>1. ReportInit => ReportInv
  BY ReportInvInit
<1>2. ReportInv /\ [ReportNext]_reportVars => ReportInv'
  BY ReportInvStep
<1>3. ReportInv => ReportIsComplete /\ FilesKeepPace
  BY DistinctAssumption DEF ReportInv, FilesKeepPace, Pace
<1> QED
  BY <1>1, <1>2, <1>3, PTL DEF ReportSpec
=============================================================================
