------------------------------- MODULE Intake -------------------------------
(***************************************************************************)
(* Submissions on disk: several service processes over one artifact root,  *)
(* the lock that lets one of them own it, its startup recovery of what an  *)
(* earlier owner left, the upload and registration of a run (submit_pdf    *)
(* down to the file system and the journal), cleanup_submission when a     *)
(* submission is given up, and the shutdown that unlocks the root.         *)
(*                                                                         *)
(* A submission is a coroutine of its process (task) which hands blocking  *)
(* calls to threads (BlockingCallTracker).  A task that is cancelled       *)
(* leaves its thread behind, so the two are separate here.  A run id is a  *)
(* fresh UUID: each run of Runs is submitted once.                         *)
(*                                                                         *)
(* file is the run's directory and what it holds: "absent"; "empty";       *)
(* "staged", the upload is being written; "stored", source/original.pdf;   *)
(* "aside", the source in the run's own quarantine; "quarantined", the     *)
(* directory in the root's.  fileMay is what a power loss may leave of it: *)
(* every value since the last fsync.  The journal's commits are durable.   *)
(* Queue places are LocalRunService's, and so is the worker: an accepted   *)
(* run is not followed further.                                            *)
(*                                                                         *)
(* Faults: "kill" ends a process, "power" all of them; "io", a call of the *)
(* file system raises; "database", one of the journal.                     *)
(***************************************************************************)
EXTENDS Naturals, FiniteSets

CONSTANTS Processes, Runs, MaxBoots, Faults, None

ASSUME IntakeAssumption ==
    /\ MaxBoots \in Nat
    /\ Faults \subseteq {"kill", "power", "io", "database"}
    /\ None \notin Processes

VARIABLES
    lock,      \* the process whose flock on .service.lock is granted
    phase,     \* per process, what start() and _shutdown() have reached
    closing,   \* LocalRunService._closing
    boots,     \* processes started so far
    known,     \* startup: the registered runs list_runs returned
    todo,      \* startup: the runs not visited yet
    owner,     \* per run, the process of its submission
    task,      \* per run, where its submission is
    thread,    \* per run, the blocking call in a thread
    file,
    fileMay,
    row,       \* runs: none, created, or bound to its source
    failed,    \* runs.status = 'failed'
    erred      \* history: a call on a run's directory or on the journal has raised

processVars == <<lock, phase, closing, boots, known, todo>>
submissionVars == <<owner, task, thread>>
diskVars == <<file, fileMay>>
journalVars == <<row, failed>>
vars == <<processVars, submissionVars, diskVars, journalVars, erred>>

Phases == {"down", "booting", "raised", "recovering", "auditing", "ready", "unready",
           "closed"}
Uploading == {"receive", "sync"}
Submitting == Uploading \cup {"validate", "register", "enqueue"}
CleaningUp == {"settle", "settleRegistered", "quarantining", "failing"}
Live == Submitting \cup CleaningUp
RegisterCalls == {"create", "insert", "store", "bind"}
Files == {"absent", "empty", "staged", "stored", "aside", "quarantined"}
InRuns(f) == f \in {"empty", "staged", "stored", "aside"}

Init ==
    /\ lock = None
    /\ phase = [p \in Processes |-> "down"]
    /\ closing = [p \in Processes |-> FALSE]
    /\ boots = 0
    /\ known = [p \in Processes |-> {}]
    /\ todo = [p \in Processes |-> {}]
    /\ owner = [r \in Runs |-> None]
    /\ task = [r \in Runs |-> "none"]
    /\ thread = [r \in Runs |-> "none"]
    /\ file = [r \in Runs |-> "absent"]
    /\ fileMay = [r \in Runs |-> {"absent"}]
    /\ row = [r \in Runs |-> "none"]
    /\ failed = [r \in Runs |-> FALSE]
    /\ erred = FALSE

-----------------------------------------------------------------------------

To(p, next) == phase' = [phase EXCEPT ![p] = next]
Goto(r, next) == task' = [task EXCEPT ![r] = next]
Call(r, call) == thread' = [thread EXCEPT ![r] = call]
Write(r, f) ==
    /\ file' = [file EXCEPT ![r] = f]
    /\ fileMay' = [fileMay EXCEPT ![r] = @ \cup {f}]
WriteDurably(r, f) ==
    /\ file' = [file EXCEPT ![r] = f]
    /\ fileMay' = [fileMay EXCEPT ![r] = {f}]

TasksOf(p) == {r \in Runs : owner[r] = p /\ task[r] \in Live}
ThreadsOf(p) == {r \in Runs : owner[r] = p /\ thread[r] # "none"}

-----------------------------------------------------------------------------
(* start(): the lock, then recover_durable_runs in a thread.               *)

BootMutant(p) ==
    /\ phase[p] = "down"
    /\ boots <= MaxBoots
    /\ boots' = boots + 1
    /\ To(p, "booting")
    /\ closing' = [closing EXCEPT ![p] = FALSE]
    /\ UNCHANGED <<lock, known, todo, submissionVars, diskVars, journalVars, erred>>
Boot(p) ==
    /\ phase[p] = "down"
    /\ boots < MaxBoots
    /\ boots' = boots + 1
    /\ To(p, "booting")
    /\ closing' = [closing EXCEPT ![p] = FALSE]
    /\ UNCHANGED <<lock, known, todo, submissionVars, diskVars, journalVars, erred>>

Acquire(p) ==
    /\ phase[p] = "booting"
    /\ lock = None
    /\ lock' = p
    /\ To(p, "recovering")
    /\ UNCHANGED <<closing, boots, known, todo, submissionVars, diskVars, journalVars, erred>>

(* ArtifactRootLockedError: another process owns the root, or the lock's   *)
(* file cannot be opened.                                                  *)
RefuseLock(p) ==
    /\ phase[p] = "booting"
    /\ lock # None \/ "io" \in Faults
    /\ To(p, "unready")
    /\ UNCHANGED <<lock, closing, boots, known, todo, submissionVars, diskVars, journalVars, erred>>

(* Any other error of acquire(), which start() raises: before the flock,   *)
(* or in writing the process id after it.  Then the flock stays, since the *)
(* startup task keeps the error and the error's traceback the open file.   *)
AcquireRaises(p) ==
    /\ "io" \in Faults
    /\ phase[p] = "booting"
    /\ UNCHANGED lock \/ (lock = None /\ lock' = p)
    /\ To(p, "raised")
    /\ UNCHANGED <<closing, boots, known, todo, submissionVars, diskVars, journalVars, erred>>

ListRunsMutant(p) ==
    /\ phase[p] = "recovering"
    /\ known' = [known EXCEPT ![p] = {r \in Runs : row[r] # "none"}]
    /\ todo' = [todo EXCEPT ![p] = {r \in Runs : row[r] # "none"}]
    /\ To(p, "auditing")
    /\ UNCHANGED <<lock, closing, boots, submissionVars, diskVars, journalVars, erred>>
ListRuns(p) ==
    /\ phase[p] = "recovering"
    /\ known' = [known EXCEPT ![p] = {r \in Runs : row[r] # "none"}]
    /\ todo' = [todo EXCEPT ![p] = {r \in Runs : row[r] # "none" \/ InRuns(file[r])}]
    /\ To(p, "auditing")
    /\ UNCHANGED <<lock, closing, boots, submissionVars, diskVars, journalVars, erred>>

Visit(p, r) ==
    /\ phase[p] = "auditing"
    /\ r \in todo[p]
    /\ todo' = [todo EXCEPT ![p] = @ \ {r}]
    /\ UNCHANGED <<lock, phase, closing, boots, known, submissionVars, row, erred>>

(* _quarantine_unregistered *)
QuarantineUnregistered(p, r) ==
    /\ Visit(p, r)
    /\ r \notin known[p]
    /\ WriteDurably(r, "quarantined")
    /\ UNCHANGED failed

(* recover_run of a registered run: a source the journal does not name is  *)
(* set aside (_quarantine_unreferenced_source), one it names is audited.   *)
RecoverRegistered(p, r) ==
    /\ Visit(p, r)
    /\ r \in known[p]
    /\ todo[p] \subseteq known[p]
    /\ IF row[r] = "created" /\ file[r] = "stored"
       THEN WriteDurably(r, "aside")
       ELSE UNCHANGED diskVars
    /\ failed' = [failed EXCEPT ![r] = @ \/ (row[r] = "bound" /\ file[r] # "stored")]

(* startup_recovery_failed: the lock is kept until close(). *)
RecoveryFailsMutant(p) ==
    /\ Faults \cap {"io", "database"} # {}
    /\ phase[p] \in {"recovering", "auditing"}
    /\ To(p, "closed")
    /\ todo' = [todo EXCEPT ![p] = {}]
    /\ erred' = TRUE
    /\ UNCHANGED <<lock, closing, boots, known, submissionVars, diskVars, journalVars>>
RecoveryFails(p) ==
    /\ Faults \cap {"io", "database"} # {}
    /\ phase[p] \in {"recovering", "auditing"}
    /\ To(p, "unready")
    /\ todo' = [todo EXCEPT ![p] = {}]
    /\ erred' = TRUE
    /\ UNCHANGED <<lock, closing, boots, known, submissionVars, diskVars, journalVars>>

FinishRecovery(p) ==
    /\ phase[p] = "auditing"
    /\ todo[p] = {}
    /\ To(p, "ready")
    /\ UNCHANGED <<lock, closing, boots, known, todo, submissionVars, diskVars, journalVars, erred>>

-----------------------------------------------------------------------------
(* close(): waits for startup, for the admitted calls and for the threads  *)
(* before it unlocks the root.  A startup that raised makes it raise too,  *)
(* before it has unlocked anything, so there is no Shutdown from "raised". *)

Close(p) ==
    /\ phase[p] \in {"booting", "raised", "recovering", "auditing", "ready", "unready"}
    /\ ~closing[p]
    /\ closing' = [closing EXCEPT ![p] = TRUE]
    /\ UNCHANGED <<lock, phase, boots, known, todo, submissionVars, diskVars, journalVars, erred>>

ShutdownMutant(p) ==
    /\ closing[p]
    /\ phase[p] \in {"ready", "unready"}
    /\ TasksOf(p) = {}
    /\ lock' = IF lock = p THEN None ELSE lock
    /\ To(p, "closed")
    /\ UNCHANGED <<closing, boots, known, todo, submissionVars, diskVars, journalVars, erred>>
Shutdown(p) ==
    /\ closing[p]
    /\ phase[p] \in {"ready", "unready"}
    /\ TasksOf(p) = {}
    /\ ThreadsOf(p) = {}
    /\ lock' = IF lock = p THEN None ELSE lock
    /\ To(p, "closed")
    /\ UNCHANGED <<closing, boots, known, todo, submissionVars, diskVars, journalVars, erred>>

(* The process is over, and the flock it may still hold with it.           *)
Exit(p) ==
    /\ phase[p] \in {"closed", "raised"}
    /\ lock' = IF lock = p THEN None ELSE lock
    /\ To(p, "down")
    /\ UNCHANGED <<closing, boots, known, todo, submissionVars, diskVars, journalVars, erred>>

-----------------------------------------------------------------------------
(* submit_pdf and UploadPreserver.preserve. *)

OnlySubmission == UNCHANGED <<processVars, owner>>
OnlyTask(r, next) ==
    Goto(r, next) /\ OnlySubmission /\ UNCHANGED <<thread, diskVars, journalVars, erred>>

Submit(p, r) ==
    /\ phase[p] = "ready" /\ ~closing[p]
    /\ task[r] = "none"
    /\ owner' = [owner EXCEPT ![r] = p]
    /\ \/ Goto(r, "receive")
          /\ file' = [file EXCEPT ![r] = "staged"]
          /\ fileMay' = [fileMay EXCEPT ![r] = @ \cup {"empty", "staged"}]
          /\ UNCHANGED erred
       \/ /\ "io" \in Faults /\ erred' = TRUE
          /\ Goto(r, "settle")
          /\ Write(r, "empty") \/ UNCHANGED diskVars
    /\ UNCHANGED <<processVars, thread, journalVars>>

(* Too large, empty, not a PDF, a write error, or the client is gone: the  *)
(* staged file is removed.                                                 *)
RefuseUpload(r) ==
    /\ task[r] = "receive"
    /\ Goto(r, "settle")
    /\ Write(r, "empty")
    /\ OnlySubmission
    /\ UNCHANGED <<thread, journalVars, erred>>

(* Written and synchronized to its last byte, then renamed. *)
Publish(r) ==
    /\ task[r] = "receive"
    /\ Goto(r, "sync")
    /\ Write(r, "stored")
    /\ OnlySubmission
    /\ UNCHANGED <<thread, journalVars, erred>>

(* The source, run and runs directories; validation starts. *)
SyncUploadMutant(r) ==
    /\ task[r] = "sync"
    /\ Goto(r, "validate")
    /\ Call(r, "validate")
    /\ OnlySubmission
    /\ UNCHANGED <<diskVars, journalVars, erred>>
SyncUpload(r) ==
    /\ task[r] = "sync"
    /\ WriteDurably(r, file[r])
    /\ Goto(r, "validate")
    /\ Call(r, "validate")
    /\ OnlySubmission
    /\ UNCHANGED <<journalVars, erred>>

SyncFails(r) ==
    /\ "io" \in Faults /\ erred' = TRUE
    /\ task[r] = "sync"
    /\ Goto(r, "settle")
    /\ OnlySubmission
    /\ UNCHANGED <<thread, diskVars, journalVars>>

(* The validator's thread; its verdict matters while the task awaits it.   *)
ValidateEnds(r) ==
    /\ thread[r] = "validate"
    /\ \/ task[r] = "validate" /\ Goto(r, "register") /\ Call(r, "create")
       \/ task[r] = "validate" /\ Goto(r, "settle") /\ Call(r, "none")
       \/ task[r] # "validate" /\ UNCHANGED task /\ Call(r, "none")
    /\ OnlySubmission
    /\ UNCHANGED <<diskVars, journalVars, erred>>

-----------------------------------------------------------------------------
(* register_submission, in its thread: create_run makes what is missing of *)
(* the run's directories and run.json, then the row; store_source looks at *)
(* the source, then binds it.                                              *)

RegisterStep(r, call, next) ==
    /\ thread[r] = call
    /\ Call(r, next)
    /\ OnlySubmission

CreateFiles(r) ==
    /\ RegisterStep(r, "create", "insert")
    /\ IF InRuns(file[r])
       THEN UNCHANGED diskVars
       ELSE WriteDurably(r, "empty")
    /\ UNCHANGED <<task, journalVars, erred>>

InsertRun(r) ==
    /\ RegisterStep(r, "insert", "store")
    /\ row' = [row EXCEPT ![r] = "created"]
    /\ UNCHANGED <<task, diskVars, failed, erred>>

CheckSource(r) ==
    /\ RegisterStep(r, "store", "bind")
    /\ file[r] = "stored"
    /\ UNCHANGED <<task, diskVars, journalVars, erred>>

BindSource(r) ==
    /\ RegisterStep(r, "bind", "none")
    /\ row' = [row EXCEPT ![r] = "bound"]
    /\ task' = [task EXCEPT ![r] = IF @ = "register" THEN "enqueue" ELSE @]
    /\ UNCHANGED <<diskVars, failed, erred>>

RegistrationFails(r) ==
    /\ thread[r] \in RegisterCalls
    /\ \/ "io" \in Faults /\ thread[r] \in {"create", "store"} /\ erred' = TRUE
       \/ "database" \in Faults /\ erred' = TRUE
       \/ thread[r] = "store" /\ file[r] # "stored" /\ UNCHANGED erred
    /\ Call(r, "none")
    /\ task' = [task EXCEPT ![r] = IF @ = "register" THEN "settleRegistered" ELSE @]
    /\ OnlySubmission
    /\ UNCHANGED <<diskVars, journalVars>>

(* enqueue_reserved; the client gets its answer. *)
Enqueue(r) ==
    /\ task[r] = "enqueue"
    /\ OnlyTask(r, "accepted")

(* The caller is cancelled at an await. *)
LeaveMutant(r) ==
    /\ task[r] \in {"validate", "register", "enqueue"}
    /\ OnlyTask(r, "done")
Leave(r) ==
    /\ task[r] \in {"validate", "register", "enqueue"}
    /\ OnlyTask(r, IF task[r] = "validate" THEN "settle" ELSE "settleRegistered")

-----------------------------------------------------------------------------
(* cleanup_submission *)

Settled(r) == ThreadsOf(owner[r]) = {}

NothingToQuarantine(r) ==
    /\ task[r] = "settle"
    /\ Settled(r)
    /\ ~InRuns(file[r])
    /\ OnlyTask(r, "done")

QuarantineMutant(r) ==
    /\ task[r] = "settle"
    /\ InRuns(file[r])
    /\ WriteDurably(r, "quarantined")
    /\ Goto(r, "done")
    /\ OnlySubmission
    /\ UNCHANGED <<thread, journalVars, erred>>
Quarantine(r) ==
    /\ task[r] = "settle"
    /\ Settled(r)
    /\ InRuns(file[r])
    /\ Goto(r, "quarantining")
    /\ Call(r, "quarantine")
    /\ OnlySubmission
    /\ UNCHANGED <<diskVars, journalVars, erred>>

(* Its own errors are dropped; a cancellation waits for the thread. *)
QuarantineEnds(r) ==
    /\ thread[r] = "quarantine"
    /\ \/ WriteDurably(r, "quarantined") /\ UNCHANGED erred
       \/ "io" \in Faults /\ erred' = TRUE /\ UNCHANGED diskVars
    /\ Call(r, "none")
    /\ Goto(r, "done")
    /\ OnlySubmission
    /\ UNCHANGED journalVars

FailRun(r) ==
    /\ task[r] = "settleRegistered"
    /\ Settled(r)
    /\ Goto(r, "failing")
    /\ Call(r, "fail")
    /\ OnlySubmission
    /\ UNCHANGED <<diskVars, journalVars, erred>>

(* fail_run: a run that was never inserted is a RunNotFoundError, and every *)
(* error is suppressed.                                                    *)
FailRunEndsMutant(r) ==
    /\ thread[r] = "fail"
    /\ row[r] # "none"
    /\ failed' = [failed EXCEPT ![r] = TRUE]
    /\ UNCHANGED erred
    /\ Call(r, "none")
    /\ task' = [task EXCEPT ![r] = IF @ = "failing" THEN "done" ELSE @]
    /\ OnlySubmission
    /\ UNCHANGED <<diskVars, row>>
FailRunEnds(r) ==
    /\ thread[r] = "fail"
    /\ \/ failed' = [failed EXCEPT ![r] = row[r] # "none"] /\ UNCHANGED erred
       \/ "database" \in Faults /\ erred' = TRUE /\ UNCHANGED failed
    /\ Call(r, "none")
    /\ task' = [task EXCEPT ![r] = IF @ = "failing" THEN "done" ELSE @]
    /\ OnlySubmission
    /\ UNCHANGED <<diskVars, row>>

(* A second cancellation returns from the cleanup, the call goes on. *)
LeaveCleanup(r) ==
    /\ task[r] = "failing"
    /\ OnlyTask(r, "done")

-----------------------------------------------------------------------------

Ends(S) ==
    /\ phase' = [p \in Processes |-> IF p \in S THEN "down" ELSE phase[p]]
    /\ lock' = IF lock \in S THEN None ELSE lock
    /\ todo' = [p \in Processes |-> IF p \in S THEN {} ELSE todo[p]]
    /\ task' = [r \in Runs |->
         IF owner[r] \in S /\ (task[r] \in Live \/ thread[r] # "none") THEN "dead" ELSE task[r]]
    /\ thread' = [r \in Runs |-> IF owner[r] \in S THEN "none" ELSE thread[r]]
    /\ UNCHANGED <<closing, boots, known, owner, journalVars, erred>>

Kill(p) ==
    /\ "kill" \in Faults
    /\ phase[p] # "down"
    /\ Ends({p})
    /\ UNCHANGED diskVars

PowerLoss ==
    /\ "power" \in Faults
    /\ \E p \in Processes : phase[p] # "down"
    /\ Ends(Processes)
    /\ file' \in [Runs -> Files]
    /\ \A r \in Runs : file'[r] \in fileMay[r]
    /\ fileMay' = [r \in Runs |-> {file'[r]}]

Startup(p) ==
    \/ Acquire(p) \/ RefuseLock(p) \/ AcquireRaises(p)
    \/ ListRuns(p) \/ RecoveryFails(p) \/ FinishRecovery(p)
    \/ \E r \in Runs : QuarantineUnregistered(p, r) \/ RecoverRegistered(p, r)

Submission(r) ==
    \/ RefuseUpload(r) \/ Publish(r) \/ SyncUpload(r) \/ SyncFails(r) \/ ValidateEnds(r)
    \/ CreateFiles(r) \/ InsertRun(r) \/ CheckSource(r) \/ BindSource(r)
    \/ RegistrationFails(r) \/ Enqueue(r)
    \/ NothingToQuarantine(r) \/ Quarantine(r) \/ QuarantineEnds(r)
    \/ FailRun(r) \/ FailRunEnds(r)

Next ==
    \/ \E p \in Processes :
         \/ Boot(p) \/ Startup(p) \/ Close(p) \/ Shutdown(p) \/ Exit(p) \/ Kill(p)
         \/ \E r \in Runs : Submit(p, r)
    \/ \E r \in Runs : Submission(r) \/ Leave(r) \/ LeaveCleanup(r)
    \/ PowerLoss

Spec == Init /\ [][Next]_vars

(* The event loop runs what is ready and threads end; nobody has to boot,  *)
(* submit, leave or close.                                                 *)
FairSpec ==
    /\ Spec
    /\ \A p \in Processes : WF_vars(Startup(p)) /\ WF_vars(Shutdown(p))
    /\ \A r \in Runs : WF_vars(Submission(r))

-----------------------------------------------------------------------------
(* Properties. *)

TypeOK ==
    /\ lock \in Processes \cup {None}
    /\ phase \in [Processes -> Phases]
    /\ closing \in [Processes -> BOOLEAN]
    /\ boots \in 0..MaxBoots
    /\ known \in [Processes -> SUBSET Runs]
    /\ todo \in [Processes -> SUBSET Runs]
    /\ owner \in [Runs -> Processes \cup {None}]
    /\ task \in [Runs -> Live \cup {"none", "accepted", "done", "dead"}]
    /\ thread \in [Runs -> RegisterCalls \cup {"none", "validate", "quarantine", "fail"}]
    /\ file \in [Runs -> Files]
    /\ fileMay \in [Runs -> SUBSET Files]
    /\ \A r \in Runs : file[r] \in fileMay[r]
    /\ row \in [Runs -> {"none", "created", "bound"}]
    /\ failed \in [Runs -> BOOLEAN]
    /\ erred \in BOOLEAN

(* Whatever runs on behalf of a process - its recovery, a submission, a    *)
(* thread a cancelled submission left behind - runs only while the process *)
(* owns the artifact root.                                                 *)
OwnerWritesAlone ==
    \A p \in Processes :
        phase[p] \in {"recovering", "auditing"} \/ TasksOf(p) \cup ThreadsOf(p) # {} => lock = p

(* A run whose source the journal names has that source, also after a      *)
(* power loss; a client that got a run id finds such a run.                *)
BoundHasSource ==
    \A r \in Runs :
        /\ row[r] = "bound" => fileMay[r] = {"stored"}
        /\ task[r] = "accepted" => row[r] = "bound"

(* No directory is moved away from under the submission or the thread that *)
(* works in it, neither by a cleanup nor by another process's startup.     *)
WorkUndisturbed ==
    \A r \in Runs :
        /\ task[r] = "receive" => file[r] = "staged"
        /\ task[r] \in {"sync", "validate", "register", "enqueue"} => file[r] = "stored"
        /\ thread[r] \in RegisterCalls \cup {"validate"} => file[r] = "stored"

(* A ready service has no run directory the journal does not know, but for *)
(* the submissions under way, unless a call raised on the way.             *)
ReadyRootIsTidy ==
    ~erred /\ (\E p \in Processes : phase[p] = "ready") =>
        \A r \in Runs : InRuns(file[r]) /\ row[r] = "none" => task[r] \in Live

(* A submission given up is failed in the journal or out of the runs       *)
(* directory once its cleanup is over, at whichever await it was given up, *)
(* whatever was killed meanwhile, unless a call raised on the way.         *)
LeftBehind(r) ==
    task[r] = "done" /\ thread[r] = "none" /\ ~failed[r] /\ InRuns(file[r])

AbandonedSettled == ~erred => \A r \in Runs : ~LeftBehind(r)

(* cleanup_submission: "Settle detached work, then fail or quarantine the  *)
(* partial submission", whatever made the submission fail.                 *)
FailedSubmissionSettled == \A r \in Runs : ~LeftBehind(r)

(* Every submission ends: with an answer, or with its cleanup over (its    *)
(* place in the queue is returned), unless its process does.               *)
SubmissionsEnd == \A r \in Runs : task[r] \in Live ~> task[r] \notin Live

(* close() gives the artifact root back, however its submissions, threads  *)
(* and recovery ended, unless the startup itself had raised.               *)
ClosingUnlocks == \A p \in Processes : closing[p] ~> lock # p \/ phase[p] = "raised"

(* LocalRunService.close: "Quiesce publishers before releasing exclusive   *)
(* artifact-root ownership", also after a startup that raised.             *)
ClosingAlwaysUnlocks == \A p \in Processes : closing[p] ~> lock # p
=============================================================================
