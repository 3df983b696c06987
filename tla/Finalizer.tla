------------------------------ MODULE Finalizer ------------------------------
(***************************************************************************)
(* The metadata finalizer: the job queue of FinalizerService               *)
(* (metadata-service/app/services/finalizer_service.py), the job records   *)
(* it keeps in MinIO, and the POST /finalize/async endpoint.               *)
(*                                                                         *)
(* The service is one asyncio loop: what runs between two awaits is one    *)
(* action, and only finalize_video runs elsewhere (in an executor).  The   *)
(* MinIO client answers a failed save with False, which the service        *)
(* ignores.  A crash, or a shutdown, empties the memory and not the store. *)
(***************************************************************************)
EXTENDS Naturals, Sequences, FiniteSets

CONSTANTS
  Requests,      \* the finalization requests
  MaxSecond,     \* bound: seconds the clock can show
  MaxCrashes,    \* bound: crashes of the service
  Outcomes,      \* what finalize_video may do: "raises" and "returns"
  None           \* no status, no record

Seconds == 1 .. MaxSecond
Statuses == {"queued", "processing", "completed", "failed"}
Records  == [job : Requests, status : Statuses]

(* default_metadata calls a function its module does not define, and the   *)
(* service unpacks a pair from the dict finalize_video returns: as         *)
(* committed, Outcomes is {"raises"}.  With "returns", the rest of         *)
(* _process_job is exercised as it is written.                             *)
ASSUME FinalizerAssumption ==
  /\ MaxSecond \in Nat \ {0} /\ MaxCrashes \in Nat
  /\ Outcomes \subseteq {"raises", "returns"}
  /\ None \notin Statuses \cup Records

VARIABLES
  second,         \* datetime.utcnow(), to the second
  pending_queue,
  active,         \* the jobs _process_queue workers are finalizing
  status,         \* status[r]: the job dict's status, None: not accepted
  job_id,         \* job_id[r]: the id the client was given, 0: none
  store,          \* store[id]: the record in MinIO, [job, status], or None
  unsaved,        \* history: jobs whose last save was refused
  lost,           \* jobs that were in memory when the service crashed
  crashes

vars == <<second, pending_queue, active, status, job_id, store, unsaved, lost,
          crashes>>

TypeOK ==
  /\ second \in Seconds
  /\ pending_queue \in Seq(Requests)
  /\ active \in SUBSET Requests
  /\ status \in [Requests -> Statuses \cup {None}]
  /\ job_id \in [Requests -> {0} \cup Seconds]
  /\ store \in [Seconds -> Records \cup {None}]
  /\ unsaved \in SUBSET Requests /\ lost \in SUBSET Requests
  /\ crashes \in 0 .. MaxCrashes

Init ==
  /\ second = 1
  /\ pending_queue = <<>> /\ active = {}
  /\ status = [r \in Requests |-> None]
  /\ job_id = [r \in Requests |-> 0]
  /\ store = [id \in Seconds |-> None]
  /\ unsaved = {} /\ lost = {} /\ crashes = 0

-----------------------------------------------------------------------------
Tick ==
  /\ second < MaxSecond
  /\ second' = second + 1
  /\ UNCHANGED <<pending_queue, active, status, job_id, store, unsaved, lost,
                 crashes>>

(* upload_json of job r's dict, now with status s, under its id. *)
Save(id, r, s) ==
  \/ /\ store' = [store EXCEPT ![id] = [job |-> r, status |-> s]]
     /\ unsaved' = unsaved \ {r}
  \/ /\ unsaved' = unsaved \cup {r}
     /\ UNCHANGED store

(* Mutant: the job is put before the others. *)
QueueFinalization_First(r) ==
  /\ status[r] = None
  /\ pending_queue' = <<r>> \o pending_queue
  /\ status' = [status EXCEPT ![r] = "queued"]
  /\ job_id' = [job_id EXCEPT ![r] = second]
  /\ Save(second, r, "queued")
  /\ UNCHANGED <<second, active, lost, crashes>>

(* POST /finalize/async: queue_finalization.  The id is the second. *)
QueueFinalization(r) ==
  /\ status[r] = None
  /\ pending_queue' = Append(pending_queue, r)
  /\ status' = [status EXCEPT ![r] = "queued"]
  /\ job_id' = [job_id EXCEPT ![r] = second]
  /\ Save(second, r, "queued")
  /\ UNCHANGED <<second, active, lost, crashes>>

(* Mutant: the worker does not wait for the job it is processing. *)
StartJob_NoWait ==
  /\ pending_queue # <<>>
  /\ LET r == Head(pending_queue) IN
       /\ active' = active \cup {r}
       /\ status' = [status EXCEPT ![r] = "processing"]
       /\ Save(job_id[r], r, "processing")
  /\ pending_queue' = Tail(pending_queue)
  /\ UNCHANGED <<second, job_id, lost, crashes>>

(* _process_queue pops a job, and _process_job hands it to the executor.   *)
(* The one worker awaits each job before it takes the next.                *)
StartJob ==
  /\ active = {}
  /\ pending_queue # <<>>
  /\ LET r == Head(pending_queue) IN
       /\ active' = active \cup {r}
       /\ status' = [status EXCEPT ![r] = "processing"]
       /\ Save(job_id[r], r, "processing")
  /\ pending_queue' = Tail(pending_queue)
  /\ UNCHANGED <<second, job_id, lost, crashes>>

(* Mutants: the error is raised to the worker before the job is marked;    *)
(* the final status is not saved; it is one the API does not know.         *)
EndJob_Unmarked(r) ==
  /\ r \in active
  /\ active' = active \ {r}
  /\ UNCHANGED <<status, store, unsaved, second, pending_queue, job_id, lost,
                 crashes>>

EndJob_Unsaved(r) ==
  /\ r \in active
  /\ active' = active \ {r}
  /\ status' = [status EXCEPT ![r] = "failed"]
  /\ UNCHANGED <<store, unsaved, second, pending_queue, job_id, lost, crashes>>

EndJob_OtherStatus(r) ==
  /\ r \in active
  /\ active' = active \ {r}
  /\ status' = [status EXCEPT ![r] = "done"]
  /\ Save(job_id[r], r, "done")
  /\ UNCHANGED <<second, pending_queue, job_id, lost, crashes>>

(* A job fails after all, maybe after it was saved as completed.           *)
SaveTwice(id, r) ==
  \/ Save(id, r, "failed")
  \/ /\ store' = [store EXCEPT ![id] = [job |-> r, status |-> "completed"]]
     /\ unsaved' = unsaved \cup {r}

(* _process_job when finalize_video is done: the results are uploaded, the *)
(* job is completed; or whatever was raised, by the removal of the         *)
(* thumbnail of a completed job too, makes it a failed one.                *)
EndJob(r) ==
  /\ r \in active
  /\ active' = active \ {r}
  /\ \/ /\ "returns" \in Outcomes
        /\ status' = [status EXCEPT ![r] = "completed"]
        /\ Save(job_id[r], r, "completed")
     \/ /\ status' = [status EXCEPT ![r] = "failed"]
        /\ \/ "raises" \in Outcomes /\ Save(job_id[r], r, "failed")
           \/ "returns" \in Outcomes /\ SaveTwice(job_id[r], r)
  /\ UNCHANGED <<second, pending_queue, job_id, lost, crashes>>

(* The process dies, or is shut down, and is started again: start() finds  *)
(* an empty queue.                                                         *)
Crash ==
  /\ crashes < MaxCrashes
  /\ crashes' = crashes + 1
  /\ lost' = lost \cup active \cup {pending_queue[k] : k \in DOMAIN pending_queue}
  /\ pending_queue' = <<>> /\ active' = {}
  /\ UNCHANGED <<second, status, job_id, store, unsaved>>

Next ==
  \/ Tick
  \/ \E r \in Requests : QueueFinalization(r)
  \/ StartJob
  \/ \E r \in Requests : EndJob(r)
  \/ Crash

Spec == Init /\ [][Next]_vars

(* The loop keeps polling its queue and finalize_video ends. *)
FairSpec ==
  Spec /\ WF_vars(StartJob) /\ \A r \in Requests : WF_vars(EndJob(r))

-----------------------------------------------------------------------------
(* Properties.                                                             *)

Ended(r) == status[r] \in {"completed", "failed"}
Queued(r) == \E k \in DOMAIN pending_queue : pending_queue[k] = r

(* No job is dropped, run twice or run beside another, short of a crash:   *)
(* an accepted job is in exactly one place, its status says which, and the *)
(* worker has one job at a time.                                           *)
NoJobLost ==
  /\ \A r, q \in active : r = q
  /\ \A r \in Requests \ lost :
       /\ Queued(r) <=> status[r] = "queued"
       /\ r \in active <=> status[r] = "processing"
  /\ \A j, k \in DOMAIN pending_queue : pending_queue[j] = pending_queue[k] => j = k

(* Jobs are taken in the order they were accepted: one that waits was not  *)
(* accepted in an earlier second than one that has been taken.             *)
FirstComeFirstServed ==
  \A r, q \in Requests :
    Queued(r) /\ q \notin lost /\ status[q] \in {"processing", "completed", "failed"}
      => job_id[q] <= job_id[r]

(* The finalizer is a JobService: requests are finalized one at a time,    *)
(* once each, in exactly the order queue_finalization accepted them, and   *)
(* only a crash loses one, and then every one that had not ended.          *)
JobState(r) ==
  IF r \in lost THEN "lost"
  ELSE CASE status[r] = None -> "new"
         [] status[r] = "queued" -> "waiting"
         [] status[r] = "processing" -> "running"
         [] OTHER -> "ended"

Service == INSTANCE JobService WITH
  Jobs <- Requests, state <- [r \in Requests |-> JobState(r)], line <- pending_queue

ImplementsJobService == Service!Spec

(* A record in the store is never ahead of the job it is about, and a job  *)
(* whose last save was not refused is shown as it is, unless another job   *)
(* has the same id.                                                        *)
Rank(s) == CASE s = "queued" -> 1 [] s = "processing" -> 2 [] OTHER -> 3
Shares(r) == \E q \in Requests \ {r} : job_id[q] = job_id[r]
StoreFollowsJobs ==
  \A r \in Requests : status[r] # None =>
    LET rec == store[job_id[r]] IN
      /\ rec # None /\ rec.job = r => Rank(rec.status) <= Rank(status[r])
      /\ r \notin unsaved /\ ~ Shares(r) => rec = [job |-> r, status |-> status[r]]

(* Every job that is accepted and not lost in a crash ends. *)
JobsEnd ==
  \A r \in Requests : status[r] # None ~> Ended(r) \/ r \in lost

(* What the documentation says, and the code does not do:                  *)

(* GET /finalize/job/{job_id} answers with the status of that job.         *)
RecordOfOwnJob ==
  \A r \in Requests :
    status[r] # None /\ store[job_id[r]] # None => store[job_id[r]].job = r
=============================================================================
