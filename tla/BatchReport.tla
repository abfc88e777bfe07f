------------------------------ MODULE BatchReport ------------------------------
(***************************************************************************)
(* A report that a BatchReportWorker makes in batches (channels/jobs/      *)
(* batch_report_worker.go, with export_users_to_csv and app/report.go):    *)
(* the rows of each batch go to a numbered file, the place reached and the *)
(* number of files go to the data of the job, and a worker that is stopped *)
(* leaves both to the one that claims the job next.                        *)
(*                                                                         *)
(* One job, worked on by one node at a time (JobServer).  The rows do not  *)
(* change meanwhile; those of a batch are one number.                      *)
(***************************************************************************)
EXTENDS Integers, Sequences

CONSTANTS
    Batches,     \* batches of rows there are
    MaxStops,    \* bound: stops and crashes of a worker
    Failures,    \* what may fail or happen: "save", "progress", "read", "compile", "crash"
    Nothing, NotRunning

BatchesAssumption == Batches \in Nat

VARIABLES
    jobStatus,   \* the job's status in the store
    data,        \* its Data there: place, file_count, or Nothing when lost
    jobData,     \* job.Data of the worker
    chunks,      \* the files, by their number
    report,      \* the file that was sent to the user
    stops

reportVars == <<jobStatus, data, jobData, chunks, report, stops>>

Empty == 0     \* the content of a file without rows
Data == [place : 0..Batches, file_count : 0..Batches + 1]

DistinctAssumption ==
    Nothing # NotRunning /\ Nothing \notin Data /\ NotRunning \notin Data

ReportInit ==
    /\ jobStatus = "pending"
    /\ data = [place |-> 0, file_count |-> 0]
    /\ jobData = NotRunning
    /\ chunks = << >>
    /\ report = Nothing
    /\ stops = 0

Claim ==
    /\ jobStatus = "pending"
    /\ jobStatus' = "in_progress"
    /\ jobData' = data
    /\ UNCHANGED <<data, chunks, report, stops>>

\* SaveReportChunk: a file is written over one that has its number.
WriteChunk(number, rows) ==
    chunks' = IF number < Len(chunks) THEN [chunks EXCEPT ![number + 1] = rows]
                                      ELSE Append(chunks, rows)

\* SetJobProgress; the worker goes on whether or not it succeeds.
SetJobProgress ==
    \/ data' = jobData'
    \/ "progress" \in Failures /\ UNCHANGED data

Working == jobData \notin {NotRunning, Nothing}

DoBatch ==
    /\ Working /\ jobData.place < Batches
    /\ WriteChunk(jobData.file_count, jobData.place + 1)
    /\ jobData' = [place |-> jobData.place + 1, file_count |-> jobData.file_count + 1]
    /\ SetJobProgress
    /\ UNCHANGED <<jobStatus, report, stops>>

\* processChunk drops the error of SaveReportChunk; getData has moved the place in the
\* data that they share.
SaveFails ==
    /\ "save" \in Failures
    /\ Working /\ jobData.place < Batches
    /\ jobData' = [jobData EXCEPT !.place = @ + 1]
    /\ SetJobProgress
    /\ UNCHANGED <<jobStatus, chunks, report, stops>>

\* getData wraps no error when the rows cannot be read: a batch without rows and
\* without data goes on.
ReadFails ==
    /\ "read" \in Failures
    /\ Working
    /\ WriteChunk(jobData.file_count, Empty)
    /\ jobData' = Nothing
    /\ SetJobProgress
    /\ UNCHANGED <<jobStatus, report, stops>>

\* parseJobMetadata finds no data.
ParseFails ==
    /\ jobData = Nothing
    /\ jobStatus' = "error"
    /\ jobData' = NotRunning
    /\ UNCHANGED <<data, chunks, report, stops>>

\* complete: compiled, sent, the files removed.  When that fails, so does the job.
Complete ==
    /\ Working /\ jobData.place = Batches
    /\ \/ /\ report' = SubSeq(chunks, 1, jobData.file_count)
          /\ jobStatus' = "success"
       \/ /\ "compile" \in Failures
          /\ jobStatus' = "error"
          /\ UNCHANGED report
    /\ jobData' = NotRunning
    /\ UNCHANGED <<data, chunks, stops>>

\* Worker.Stop: the job is pending again, with the data that was saved last.
StopReport ==
    /\ jobData # NotRunning /\ stops < MaxStops
    /\ jobStatus' = "pending"
    /\ jobData' = NotRunning
    /\ stops' = stops + 1
    /\ UNCHANGED <<data, chunks, report>>

\* The node crashes, after the rows were written; the job stays in progress.
CrashReport ==
    /\ "crash" \in Failures
    /\ Working /\ stops < MaxStops
    /\ \/ jobData.place < Batches /\ WriteChunk(jobData.file_count, jobData.place + 1)
       \/ UNCHANGED chunks
    /\ jobData' = NotRunning
    /\ stops' = stops + 1
    /\ UNCHANGED <<jobStatus, data, report>>

\* An administrator sets a job that no node works on to pending.
SetPending ==
    /\ "crash" \in Failures
    /\ jobStatus = "in_progress" /\ jobData = NotRunning
    /\ jobStatus' = "pending"
    /\ UNCHANGED <<data, jobData, chunks, report, stops>>

ReportNext ==
    \/ Claim \/ DoBatch \/ SaveFails \/ ReadFails \/ ParseFails
    \/ Complete \/ StopReport \/ CrashReport \/ SetPending

ReportSpec == ReportInit /\ [][ReportNext]_reportVars

-----------------------------------------------------------------------------
(* Properties.                                                             *)

\* The report that is sent has all rows, once and in order, however often its making was
\* interrupted.  (batch_report_worker.go:72 has the job end when a batch is not saved:
\* "Failed to save report batch. Exiting".)
ReportIsComplete == report # Nothing => report = [i \in 1..Batches |-> i]

\* A job has the files that the place it has reached calls for.
FilesKeepPace ==
    \A d \in {data, jobData} \ {Nothing, NotRunning} :
       /\ d.file_count = d.place /\ d.file_count <= Len(chunks)
       /\ \A i \in 1..d.file_count : chunks[i] = i

=============================================================================
