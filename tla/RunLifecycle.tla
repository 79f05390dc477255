----------------------------- MODULE RunLifecycle -----------------------------
(***************************************************************************)
(* One run from registration to a terminal status: the processes that      *)
(* drive the journal of RunJournal.                                        *)
(*                                                                         *)
(*   - intake registers the upload and queues it (LocalRunService);        *)
(*   - the worker takes the queued item and runs DocumentProcessor,        *)
(*     PageRunner, AttemptRunner and finalize_run over it;                 *)
(*   - a client may cancel at any moment the service is ready, and resume  *)
(*     a failed run once the worker has released it;                       *)
(*   - the process may crash between any two steps; startup recovery then  *)
(*     audits the run and queues what is still interrupted.                *)
(*                                                                         *)
(* Intake, worker, resume preparation and startup never own the same run   *)
(* at the same time (SingleRunWorker.reserve, wait_until_released and the  *)
(* artifact-root lock), so one program counter stands for the owner; the   *)
(* canceller and the crash interleave with each of its steps.              *)
(*                                                                         *)
(* Faults names what may go wrong besides a crash: "storage", a commit or  *)
(* final publication that raises before or after its transaction (the      *)
(* fault hooks of the storage layer); "render", a page image or final      *)
(* artifact that cannot be produced; "corruption", a referenced artifact   *)
(* changed from outside; "analyzer", usage metadata of another attempt in  *)
(* an analyzer's answer; "config", a restart with another configuration.   *)
(***************************************************************************)
EXTENDS RunJournal

CONSTANT Faults

ASSUME FaultsAssumption ==
    Faults \subseteq {"crash", "storage", "render", "corruption", "analyzer", "config"}

VARIABLES
    pc,           \* where the owner of the run is
    resuming,     \* WorkItem.resume of the queued or active item
    caller,       \* who called recover_run
    token,        \* the active item's CancellationToken
    lateToken,    \* a cancel() has not yet reached cancel_active
    base,         \* the commit the runner's memory and structure come from
    attemptNo,    \* the ordinal the runner expects its attempt to get
    outcome,      \* failure class the owner is about to record
    seenStatus,   \* RunHandle.status as loaded by _resume_run
    sameConfig    \* this service's fingerprint equals the run's

procVars == <<resuming, caller, token, lateToken, base, attemptNo, outcome,
              seenStatus, sameConfig>>
vars == <<journalVars, corrupt, pc, procVars>>

IntakePcs == {"register", "accept"}
RecoveryPcs == {"quarantine", "reset", "finish"}
StartupPcs == {"claim", "refail"}
ResumerPcs == {"recheck", "requeue", "enqueue"}
PreparePcs == {"load", "check", "mark", "render", "prepared", "bind", "initial",
               "initialPublish", "initialTxn", "rerequeue", "remark"}
PagePcs == {"page", "begin", "model", "materialize", "stage", "publish", "commit"}
SettlePcs == {"failAttempt", "backoff", "discard", "dropCommit", "failRun", "release"}
FinalPcs == {"finalCheck", "finalPrepare", "finalTxn", "finalUpdate", "finalAudit", "dropFinal"}
Pcs == {"down", "idle", "queued"} \cup IntakePcs \cup RecoveryPcs \cup StartupPcs
       \cup ResumerPcs \cup PreparePcs \cup PagePcs \cup SettlePcs \cup FinalPcs

Callers == {"startup", "startupFailed", "resumer", "worker", "reconcile"}
Outcomes == {"none", "retry", "cancelled", "integrity", "other"}

TypeOK ==
    /\ JournalTypeOK
    /\ pc \in Pcs
    /\ resuming \in BOOLEAN
    /\ caller \in Callers
    /\ token \in BOOLEAN
    /\ lateToken \in BOOLEAN
    /\ base \in Commits
    /\ attemptNo \in Nat \ {0}
    /\ outcome \in Outcomes
    /\ seenStatus \in Statuses
    /\ sameConfig \in BOOLEAN

Init ==
    /\ JournalInit
    /\ pc = "register"
    /\ resuming = FALSE
    /\ caller = "startup"
    /\ token = FALSE
    /\ lateToken = FALSE
    /\ base = InitialCommit
    /\ attemptNo = 1
    /\ outcome = "none"
    /\ seenStatus = "not_started"
    /\ sameConfig = TRUE

-----------------------------------------------------------------------------
(* Helpers of the owner's steps. *)

Goto(next) == pc' = next /\ UNCHANGED procVars

(* The owner is gone and its locals with it. *)
ForgetLocals ==
    /\ resuming' = FALSE
    /\ caller' = "startup"
    /\ token' = FALSE
    /\ base' = InitialCommit
    /\ attemptNo' = 1
    /\ outcome' = "none"
    /\ seenStatus' = "not_started"

GoIdle == pc' = "idle" /\ ForgetLocals /\ UNCHANGED <<lateToken, sameConfig>>

(* Put the work item in the worker's queue. *)
Enqueue(resume) ==
    /\ pc' = "queued"
    /\ resuming' = resume
    /\ caller' = "startup"
    /\ UNCHANGED <<token, lateToken, base, attemptNo, outcome, seenStatus, sameConfig>>

FailWith(class) ==
    /\ pc' = "failRun"
    /\ outcome' = class
    /\ UNCHANGED <<resuming, caller, token, lateToken, base, attemptNo,
                   seenStatus, sameConfig>>

CallRecovery(who) ==
    /\ pc' = "quarantine"
    /\ caller' = who
    /\ UNCHANGED <<resuming, token, lateToken, base, attemptNo, outcome,
                   seenStatus, sameConfig>>

JournalUnchanged == UNCHANGED <<journalVars, corrupt>>

CancelledMutant == token

(* CancellationScope.cancelled. *)
Cancelled == token \/ cancelRequested

StartupRunning ==
    \/ pc \in StartupPcs
    \/ pc \in RecoveryPcs /\ caller \in {"startup", "startupFailed"}
ServiceReady == pc \notin {"down"} \cup IntakePcs /\ ~StartupRunning

ResumerRunning == pc \in ResumerPcs \/ (pc \in RecoveryPcs /\ caller = "resumer")
WorkerActive == ServiceReady /\ pc \notin {"idle", "queued"} /\ ~ResumerRunning

(* Page the runner works on, and the loop's end. *)
Page == base[1] + 1
AllPagesDone == base[1] = NumPages

-----------------------------------------------------------------------------
(* Intake: store_source binds the upload, then the run is queued. *)

Register ==
    /\ pc = "register"
    /\ RecordArtifact("source")
    /\ UNCHANGED corrupt
    /\ Goto("accept")

Accept ==
    /\ pc = "accept"
    /\ JournalUnchanged
    /\ Enqueue(FALSE)

(* The caller leaves before the run is queued: cleanup_submission fails it. *)
AbandonSubmission ==
    /\ pc \in IntakePcs
    /\ MarkRunFailed("other")
    /\ UNCHANGED corrupt
    /\ GoIdle

-----------------------------------------------------------------------------
(* The client. *)

(* The final transaction locks the database from its first statement on,   *)
(* and so across the validation of the files; every other transaction is   *)
(* one step.                                                               *)
WriteLocked == pc = "finalUpdate"

Cancel ==
    /\ ServiceReady
    /\ ~WriteLocked
    /\ RequestCancel
    /\ lateToken' = (lateToken \/ cancelRequested')
    /\ UNCHANGED <<corrupt, pc, resuming, caller, token, base, attemptNo, outcome,
                   seenStatus, sameConfig>>

(* cancel() continues after its awaited transaction: cancel_active reaches *)
(* whichever activation of the run is current by then.                     *)
DeliverToken ==
    /\ lateToken
    /\ lateToken' = FALSE
    /\ token' = (token \/ WorkerActive)
    /\ JournalUnchanged
    /\ UNCHANGED <<pc, resuming, caller, base, attemptNo, outcome, seenStatus,
                   sameConfig>>

(* resume(): released, reserved, then _prepare_resume claims the run. *)
Resume ==
    /\ pc = "idle"
    /\ sameConfig
    /\ ClaimResume
    /\ UNCHANGED corrupt
    /\ CallRecovery("resumer")

(* The checks _prepare_resume makes on its own claim after recovery. *)
RecheckClaim ==
    /\ pc = "recheck"
    /\ UNCHANGED corrupt
    /\ \/ /\ status # "resuming"
          /\ UNCHANGED journalVars
          /\ GoIdle
       \/ /\ status = "resuming" /\ ~HasAttemptBudget
          /\ FailResumingRun("other")
          /\ GoIdle
       \/ /\ status = "resuming" /\ HasAttemptBudget
          /\ UNCHANGED journalVars
          /\ Goto("requeue")

RequeueForResume ==
    /\ pc = "requeue"
    /\ RequeueFailedPage
    /\ UNCHANGED corrupt
    /\ Goto("enqueue")

(* An unexpected error during preparation rolls the claim back. *)
RollBackResume ==
    /\ ResumerRunning /\ pc # "enqueue"
    /\ "storage" \in Faults
    /\ FailResumingRun("integrity")
    /\ UNCHANGED corrupt
    /\ GoIdle

EnqueueResumed ==
    /\ pc = "enqueue"
    /\ JournalUnchanged
    /\ Enqueue(TRUE)

(* The resuming client disconnects: rollback_abandoned_resume. *)
AbandonResume ==
    /\ pc = "enqueue"
    /\ IF status = "resuming" THEN MarkRunFailed("other") ELSE UNCHANGED journalVars
    /\ UNCHANGED corrupt
    /\ GoIdle

-----------------------------------------------------------------------------
(* recover_run, for each of its callers. *)

RecoverQuarantine ==
    /\ pc = "quarantine"
    /\ QuarantineOrphans
    /\ UNCHANGED corrupt
    /\ Goto("reset")

RecoverReset ==
    /\ pc = "reset"
    /\ ResetInterruptedAttempt
    /\ UNCHANGED corrupt
    /\ Goto("finish")

AfterRecovery ==
    CASE caller = "startup" -> "claim"
      [] caller = "startupFailed" -> "refail"
      [] caller = "resumer" -> "recheck"
      [] caller \in {"worker", "reconcile"} -> "rerequeue"

RecoverFinish ==
    /\ pc = "finish"
    /\ UNCHANGED corrupt
    /\ \/ /\ AuditOk
          /\ FinishRecovery
          /\ Goto(AfterRecovery)
       \/ /\ ~AuditOk
          /\ MarkIntegrityFailed
          /\ IF caller \in {"worker", "reconcile"} THEN FailWith("integrity") ELSE GoIdle

(* DurableProcessingRepository.recover_run goes on to requeue a failed     *)
(* page and to load the checkpoint; page_commit_is_durable then tells      *)
(* whether the uncertain commit happened.                                  *)
CheckpointCommit == CHOOSE c \in ledger : c[1] = head
NextAttemptMutant(h) == IF h < NumPages /\ attempts[h + 1] # <<>>
                        THEN Len(attempts[h + 1]) ELSE 1
NextAttempt(h) == IF h < NumPages THEN Len(attempts[h + 1]) + 1 ELSE 1

(* The head moved to the page and holds what the runner submitted. *)
CommitHappened == head = Page /\ CheckpointCommit = <<Page, attemptNo>>

ContinueFromMutant(next, commit, attempt) ==
    /\ pc' = next
    /\ attemptNo' = attempt
    /\ UNCHANGED <<resuming, caller, token, lateToken, base, outcome, seenStatus, sameConfig>>

ContinueFrom(next, commit, attempt) ==
    /\ pc' = next
    /\ base' = commit
    /\ attemptNo' = attempt
    /\ UNCHANGED <<resuming, caller, token, lateToken, outcome, seenStatus, sameConfig>>

LoadCheckpointMutant ==
    \/ ~AuditOk /\ FailWith("integrity")
    \/ /\ AuditOk /\ caller = "worker"
       /\ ContinueFrom("remark", CheckpointCommit, NextAttempt(head))
    \/ /\ AuditOk /\ caller = "reconcile"
       /\ Goto(IF CommitHappened THEN "page" ELSE "stage")

LoadCheckpoint ==
    \/ ~AuditOk /\ FailWith("integrity")
    \/ /\ AuditOk /\ caller = "worker"
       /\ ContinueFrom("remark", CheckpointCommit, NextAttempt(head))
    \/ /\ AuditOk /\ caller = "reconcile" /\ CommitHappened
       /\ ContinueFrom("page", <<Page, attemptNo>>, 1)
    \/ /\ AuditOk /\ caller = "reconcile" /\ ~CommitHappened
       /\ FailWith(IF head = Page - 1 THEN "other" ELSE "integrity")

RequeueAndLoad ==
    /\ pc = "rerequeue"
    /\ UNCHANGED corrupt
    /\ \/ RequeueFailedPage /\ LoadCheckpoint
       \/ RequeueRefused /\ UNCHANGED journalVars /\ FailWith("integrity")

-----------------------------------------------------------------------------
(* The worker takes the item; DocumentProcessor prepares the run. *)

WorkerTake ==
    /\ pc = "queued"
    /\ JournalUnchanged
    /\ IF status \in Terminal THEN GoIdle ELSE Goto("load")

LoadRun ==
    /\ pc = "load"
    /\ JournalUnchanged
    /\ pc' = "check"
    /\ seenStatus' = status
    /\ UNCHANGED <<resuming, caller, token, lateToken, base, attemptNo, outcome, sameConfig>>

CheckClaim ==
    /\ pc = "check"
    /\ JournalUnchanged
    /\ \/ Cancelled /\ FailWith("cancelled")
       \/ /\ ~Cancelled
          /\ IF "source" \in journaled /\ (resuming => seenStatus = "resuming")
             THEN Goto(IF resuming THEN "render" ELSE "mark")
             ELSE FailWith("other")

EnterRunning(next) ==
    /\ UNCHANGED corrupt
    /\ \/ MarkRunRunning /\ Goto(next)
       \/ ~CanRun /\ UNCHANGED journalVars /\ FailWith("other")

MarkRegistered == pc = "mark" /\ EnterRunning("render")

(* prepare_preserved_path renders; verify_prepared checks recorded renders. *)
Render ==
    /\ pc = "render"
    /\ "renders" \notin journaled
    /\ "renders" \notin files
    /\ files' = files \cup {"renders"}
    /\ UNCHANGED <<runVars, pageVars, journaled, published, sealed, corrupt>>
    /\ Goto("prepared")

VerifyRenders ==
    /\ pc = "render"
    /\ "renders" \in journaled
    /\ JournalUnchanged
    /\ Goto("prepared")

PreparationFails ==
    /\ pc = "render"
    /\ "render" \in Faults \/ corrupt \/ "renders" \in files \ journaled
    /\ files' \in {files, files \cup {"renders"}}
    /\ UNCHANGED <<runVars, pageVars, journaled, published, sealed, corrupt>>
    /\ FailWith(IF resuming THEN "integrity" ELSE "other")

CheckPrepared ==
    /\ pc = "prepared"
    /\ JournalUnchanged
    /\ \/ Cancelled /\ FailWith("cancelled")
       \/ ~Cancelled /\ head = NoHead /\ Goto("bind")
       \/ ~Cancelled /\ head # NoHead /\ CallRecovery("worker")

RecordRenders ==
    /\ pc = "bind"
    /\ RecordArtifact("renders")
    /\ UNCHANGED corrupt
    /\ Goto("initial")

(* initialize_artifacts: prepare_commit for page 0, then its transaction,  *)
(* then load_checkpoint, which audits the run.                             *)
StageInitial ==
    /\ pc = "initial"
    /\ StageCommit
    /\ UNCHANGED corrupt
    /\ Goto("initialPublish")

PublishInitial ==
    /\ pc = "initialPublish"
    /\ UNCHANGED corrupt
    /\ \/ PublishCommit(0, 0) /\ Goto("initialTxn")
       \/ DestinationTaken(0) /\ UNCHANGED journalVars /\ FailWith("other")

RecordInitial ==
    /\ pc = "initialTxn"
    /\ RecordInitialCommit
    /\ UNCHANGED corrupt
    /\ IF AuditOk'
       THEN ContinueFrom(IF resuming THEN "remark" ELSE "page", InitialCommit, 1)
       ELSE FailWith("other")

InitialCommitFault ==
    /\ pc \in {"initialPublish", "initialTxn"}
    /\ "storage" \in Faults
    /\ JournalUnchanged
    /\ FailWith("other")

CheckResumed ==
    /\ pc = "remark"
    /\ Cancelled
    /\ JournalUnchanged
    /\ FailWith("cancelled")

MarkResumed == pc = "remark" /\ EnterRunning("page")

-----------------------------------------------------------------------------
(* PageRunner.run and AttemptRunner.analyze. *)

(* scope.check at the head of the page loop and of the attempt loop. *)
NextPage ==
    /\ pc = "page"
    /\ JournalUnchanged
    /\ \/ Cancelled /\ FailWith("cancelled")
       \/ ~Cancelled /\ AllPagesDone /\ Goto("finalCheck")
       \/ ~Cancelled /\ ~AllPagesDone /\ ~BudgetLeft(attemptNo - 1) /\ FailWith("other")
       \/ ~Cancelled /\ ~AllPagesDone /\ BudgetLeft(attemptNo - 1) /\ Goto("begin")

Begin ==
    /\ pc = "begin"
    /\ UNCHANGED corrupt
    /\ BeginPageAttempt(Page)
    /\ IF Len(attempts'[Page]) = attemptNo
       THEN Goto("model")
       ELSE /\ pc' = "failAttempt"
            /\ outcome' = "integrity"
            /\ attemptNo' = Len(attempts'[Page])
            /\ UNCHANGED <<resuming, caller, token, lateToken, base, seenStatus,
                           sameConfig>>

BeginRefused ==
    /\ pc = "begin"
    /\ ~CanBegin(Page)
    /\ JournalUnchanged
    /\ FailWith(IF cancelRequested THEN "cancelled" ELSE "other")

FailAttemptWith(class) ==
    /\ pc' = "failAttempt"
    /\ outcome' = class
    /\ UNCHANGED <<resuming, caller, token, lateToken, base, attemptNo,
                   seenStatus, sameConfig>>

(* The analyzer answers; cancellation is read before the answer is used.   *)
(* A transient error is retried while the attempt budget lasts.            *)
ModelAnswers ==
    /\ pc = "model"
    /\ JournalUnchanged
    /\ \/ Cancelled /\ Goto("discard")
       \/ ~Cancelled /\ Goto("materialize")
       \/ ~Cancelled /\ BudgetLeft(attemptNo) /\ FailAttemptWith("retry")
       \/ ~Cancelled /\ FailAttemptWith("other")
       \/ ~Cancelled /\ "analyzer" \in Faults /\ FailAttemptWith("integrity")

Materialize ==
    /\ pc = "materialize"
    /\ JournalUnchanged
    /\ \/ Cancelled /\ Goto("discard")
       \/ ~Cancelled /\ Goto("stage")
       \/ ~Cancelled /\ FailAttemptWith("other")

Discard ==
    /\ pc = "discard"
    /\ DiscardAttempt(Page, attemptNo)
    /\ UNCHANGED corrupt
    /\ FailWith("cancelled")

FailAttempt ==
    /\ pc = "failAttempt"
    /\ UNCHANGED corrupt
    /\ \/ cancelRequested /\ DiscardAttempt(Page, attemptNo) /\ FailWith("cancelled")
       \/ /\ FailPageAttempt(Page, attemptNo, outcome, outcome = "retry")
          /\ Goto(IF outcome = "retry" THEN "backoff" ELSE "failRun")

Backoff ==
    /\ pc = "backoff"
    /\ JournalUnchanged
    /\ \/ Cancelled /\ FailWith("cancelled")
       \/ ~Cancelled /\ ContinueFrom("page", base, attemptNo + 1)

-----------------------------------------------------------------------------
(* commit_page as the runner calls it.  From "stage" on commit_started is  *)
(* set, so whatever is raised sends the runner to page_commit_is_durable.  *)

Stage ==
    /\ pc = "stage"
    /\ StageCommit
    /\ UNCHANGED corrupt
    /\ Goto("publish")

Publish ==
    /\ pc = "publish"
    /\ UNCHANGED corrupt
    /\ \/ PublishCommit(Page, attemptNo) /\ Goto("commit")
       \/ DestinationTaken(Page) /\ UNCHANGED journalVars /\ CallRecovery("reconcile")

CommitMutant ==
    /\ pc = "commit"
    /\ UNCHANGED corrupt
    /\ CommitPage(Page, attemptNo)
    /\ ContinueFrom("page", <<Page, attemptNo>>, 1)

(* The transaction: the claim is validated, then cancellation is read. *)
Commit ==
    /\ pc = "commit"
    /\ UNCHANGED corrupt
    /\ \/ /\ ~CommitClaimValid(Page, attemptNo)
          /\ UNCHANGED journalVars
          /\ CallRecovery("reconcile")
       \/ /\ CommitClaimValid(Page, attemptNo) /\ Cancelled
          /\ DiscardAttempt(Page, attemptNo)
          /\ Goto("dropCommit")
       \/ /\ ~Cancelled
          /\ CommitPage(Page, attemptNo)
          /\ ContinueFrom("page", <<Page, attemptNo>>, 1)

(* An exception before the transaction commits, or after it did. *)
CommitFault ==
    /\ pc \in {"stage", "publish", "commit"}
    /\ "storage" \in Faults \/ (corrupt /\ pc = "stage")
    /\ \/ UNCHANGED journalVars
       \/ pc = "commit" /\ ~Cancelled /\ CommitPage(Page, attemptNo)
    /\ UNCHANGED corrupt
    /\ CallRecovery("reconcile")

DropCommit ==
    /\ pc = "dropCommit"
    /\ QuarantineCommit(Page, attemptNo)
    /\ UNCHANGED corrupt
    /\ FailWith("cancelled")

-----------------------------------------------------------------------------
(* completion.finalize_run, prepare_final_manifest and finalize_run. *)

AuditCompletion ==
    /\ pc = "finalCheck"
    /\ JournalUnchanged
    /\ \/ Cancelled /\ FailWith("cancelled")
       \/ ~Cancelled /\ AuditOk /\ head = NumPages /\ Goto("finalPrepare")
       \/ ~Cancelled /\ ~(AuditOk /\ head = NumPages) /\ FailWith("integrity")

PrepareFinal ==
    /\ pc = "finalPrepare"
    /\ NoIssues
    /\ PublishFinal
    /\ UNCHANGED corrupt
    /\ Goto("finalTxn")

PrepareFinalFails ==
    /\ pc = "finalPrepare"
    /\ "storage" \in Faults \/ ~NoIssues
    /\ JournalUnchanged
    /\ FailWith("integrity")

(* The final transaction: status and cancellation are read and the files   *)
(* are validated,                                                          *)
ValidateFinal ==
    /\ pc = "finalTxn"
    /\ status = "running"
    /\ ~Cancelled
    /\ FinalCandidateValid
    /\ JournalUnchanged
    /\ Goto("finalUpdate")

(* then cancellation is read again and the status written.                 *)
Finalize ==
    /\ pc = "finalUpdate"
    /\ ~Cancelled
    /\ CompleteRun
    /\ UNCHANGED corrupt
    /\ Goto("finalAudit")

FinalizeCancelled ==
    /\ \/ pc = "finalTxn" /\ status = "running"
       \/ pc = "finalUpdate"
    /\ Cancelled
    /\ CancelFinalization
    /\ UNCHANGED corrupt
    /\ Goto("dropFinal")

FinalizeRefused ==
    /\ pc = "finalTxn"
    /\ status # "running" \/ (~Cancelled /\ ~FinalCandidateValid)
    /\ JournalUnchanged
    /\ FailWith("integrity")

(* An error before the final transaction commits, or after it did.         *)
FinalizeFaultMutant ==
    /\ pc \in {"finalTxn", "finalUpdate"}
    /\ "storage" \in Faults
    /\ UNCHANGED corrupt
    /\ \/ UNCHANGED journalVars
       \/ pc = "finalUpdate" /\ ~Cancelled /\ CompleteRun
    /\ FailWith("integrity")

FinalizeFault ==
    /\ pc \in {"finalTxn", "finalUpdate"}
    /\ "storage" \in Faults
    /\ UNCHANGED corrupt
    /\ \/ UNCHANGED journalVars /\ FailWith("integrity")
       \/ /\ pc = "finalUpdate" /\ ~Cancelled
          /\ CompleteRun
          /\ Goto("finalAudit")

(* The audit that follows publication, or audit_completion when finalizing *)
(* raised: an audited completed run stands, anything else fails.           *)
ConfirmFinal ==
    /\ pc = "finalAudit"
    /\ JournalUnchanged
    /\ IF AuditOk THEN Goto("release") ELSE FailWith("integrity")

DropFinal ==
    /\ pc = "dropFinal"
    /\ QuarantineFinal
    /\ UNCHANGED corrupt
    /\ FailWith("cancelled")

-----------------------------------------------------------------------------
(* failed_result, then the worker's _ensure_terminal and its finally block. *)

FailRun ==
    /\ pc = "failRun"
    /\ MarkRunFailed(outcome)
    /\ UNCHANGED corrupt
    /\ Goto("release")

Release ==
    /\ pc = "release"
    /\ UNCHANGED corrupt
    /\ IF status \in Terminal
       THEN UNCHANGED journalVars
       ELSE MarkRunFailed(IF Cancelled THEN "cancelled" ELSE "other")
    /\ GoIdle

-----------------------------------------------------------------------------
(* Crash, restart and startup recovery. *)

Crash ==
    /\ "crash" \in Faults
    /\ pc # "down"
    /\ JournalUnchanged
    /\ pc' = "down"
    /\ ForgetLocals
    /\ lateToken' = FALSE
    /\ UNCHANGED sameConfig

Startup(who, class) ==
    /\ pc' = "quarantine"
    /\ caller' = who
    /\ outcome' = class
    /\ UNCHANGED <<resuming, token, lateToken, base, attemptNo, seenStatus>>

(* recover_durable_runs up to the run's recover_run. *)
Restart ==
    /\ pc = "down"
    /\ UNCHANGED corrupt
    /\ sameConfig' \in {TRUE} \cup (IF "config" \in Faults THEN {FALSE} ELSE {})
    /\ \/ /\ status = "completed"
          /\ AuditCompletedRun
          /\ pc' = "idle"
          /\ ForgetLocals
          /\ UNCHANGED lateToken
       \/ /\ status = "failed"
          /\ UNCHANGED journalVars
          /\ Startup("startupFailed", failure)
       \/ /\ status \notin Terminal /\ ~sameConfig'
          /\ MarkRunFailed("other")
          /\ pc' = "idle"
          /\ ForgetLocals
          /\ UNCHANGED lateToken
       \/ /\ status \notin Terminal /\ sameConfig'
          /\ UNCHANGED journalVars
          /\ Startup("startup", "none")

(* _audit_failed records the failure it found before recovery once more.   *)
StartupRefail ==
    /\ pc = "refail"
    /\ MarkRunFailed(IF outcome = "none" THEN "other" ELSE outcome)
    /\ UNCHANGED corrupt
    /\ GoIdle

StartupClaim ==
    /\ pc = "claim"
    /\ UNCHANGED corrupt
    /\ \/ /\ status = "failed"
          /\ UNCHANGED journalVars
          /\ GoIdle
       \/ /\ status # "failed" /\ ~HasAttemptBudget
          /\ MarkRunFailed("other")
          /\ GoIdle
       \/ /\ status # "failed" /\ HasAttemptBudget
          /\ ClaimRecoveredRun
          /\ IF status' = "resuming" THEN Enqueue(TRUE) ELSE GoIdle

(* A referenced artifact changes outside the program. *)
Corrupt ==
    /\ "corruption" \in Faults
    /\ journaled # {}
    /\ corrupt' = TRUE
    /\ UNCHANGED <<journalVars, pc, procVars>>

-----------------------------------------------------------------------------
IntakeStep == Register \/ Accept
ResumerStep == RecheckClaim \/ RequeueForResume \/ EnqueueResumed
RecoveryStep == RecoverQuarantine \/ RecoverReset \/ RecoverFinish \/ RequeueAndLoad
PrepareStep == WorkerTake \/ LoadRun \/ CheckClaim \/ MarkRegistered \/ Render
               \/ VerifyRenders \/ PreparationFails \/ CheckPrepared \/ RecordRenders
               \/ StageInitial \/ PublishInitial \/ RecordInitial \/ CheckResumed
               \/ MarkResumed
PageStep == NextPage \/ Begin \/ BeginRefused \/ ModelAnswers \/ Materialize \/ Discard
            \/ FailAttempt \/ Backoff \/ Stage \/ Publish \/ Commit \/ DropCommit
FinalStep == AuditCompletion \/ PrepareFinal \/ PrepareFinalFails \/ ValidateFinal
             \/ Finalize \/ FinalizeCancelled \/ FinalizeRefused \/ ConfirmFinal
             \/ DropFinal
SettleStep == FailRun \/ Release
StartupStep == StartupRefail \/ StartupClaim

(* What the event loop and its threads keep doing on their own. *)
OwnerStep == IntakeStep \/ ResumerStep \/ RecoveryStep \/ PrepareStep \/ PageStep
             \/ FinalStep \/ SettleStep \/ StartupStep

ClientStep == Cancel \/ DeliverToken \/ Resume \/ AbandonSubmission \/ AbandonResume
FaultStep == RollBackResume \/ InitialCommitFault \/ CommitFault \/ FinalizeFault
             \/ Corrupt

Next == OwnerStep \/ ClientStep \/ FaultStep \/ Crash \/ Restart

Spec == Init /\ [][Next]_vars
FairSpec == Spec /\ WF_vars(OwnerStep)

-----------------------------------------------------------------------------
(* Safety. *)

(* The journal is what audit_run demands of it in every state a crash can  *)
(* leave: one commit per page of the prefix 0..head, each with its         *)
(* directory on disk and its attempt completed, and an attempt running     *)
(* only for the page after the head, as its newest.                        *)
LedgerInvariant ==
    /\ CompletedPrefix
    /\ LedgerIsPrefix
    /\ CommitsOwnAttempts
    /\ CommitsBacked
    /\ AttemptOwnership

(* A run is published as completed only whole: every page committed, final *)
(* output in place with the recovery log as it stands, nothing unreferenced*)
(* left behind, and no cancellation accepted on the way (finalize_run).    *)
CompletedIsWhole ==
    status = "completed" => /\ FinalOutputIntact
                            /\ NoOrphans
                            /\ ~cancelRequested

(* Crashes, cancellations and resumes never buy a page more model attempts *)
(* than max_model_attempts (begin_page_attempt, _has_attempt_budget).      *)
AttemptBudget == \A p \in Pages : Len(attempts[p]) <= MaxAttempts

(* The worker releases a run only once it is terminal, with no page left   *)
(* running under the configuration that can resume it.                     *)
ReleasedSettled ==
    pc = "idle" => /\ status \in Terminal
                   /\ \A p \in Pages : pageStatus[p] = "running" => ~sameConfig

HoldsAttempt == pc \in {"model", "materialize", "stage", "publish", "commit",
                        "failAttempt", "discard"}
(* What the runner holds in memory agrees with the journal at every step   *)
(* it takes: its memory comes from the head commit and its attempt is the  *)
(* newest one of the first incomplete page, or the one that begins next    *)
(* (PageRunner, checkpoint, page_commit_is_durable).                       *)
RunnerAtHead ==
    /\ pc \in PagePcs => base \in ledger /\ base[1] = head
    /\ HoldsAttempt => /\ AttemptActive(Page, attemptNo)
                       /\ attemptNo = Len(attempts[Page])
    /\ pc \in {"page", "begin"} /\ ~AllPagesDone => attemptNo = Len(attempts[Page]) + 1

(* Nothing an earlier crash or error left on disk is in the way of what    *)
(* the owner publishes next (prepare_commit, render_preserved).            *)
DestinationsFree ==
    /\ pc = "publish" => ~DestinationTaken(Page)
    /\ pc = "initialPublish" => ~DestinationTaken(0)
    /\ pc = "render" => "renders" \notin files \ journaled
    /\ pc \in {"finalTxn", "finalUpdate"} => "final" \in files

(* A run that ends after its cancellation was accepted ends as cancelled,  *)
(* or as corrupt, and never as completed or as an ordinary failure.        *)
FlaggedOutcome ==
    status \in Terminal /\ cancelRequested =>
        status = "failed" /\ failure \in {"cancelled", "integrity"}

(* recover_run never rejects what the program itself did: whatever crashes,*)
(* storage errors, cancellations and restarts came before it, its audit    *)
(* finds no issue, unless an artifact was altered from outside.            *)
RecoveryAccepts == pc \in {"finish", "rerequeue"} /\ ~corrupt => AuditOk

(* A run that was published is not then reported as failed: whatever is    *)
(* raised around the final transaction is reconciled with the journal      *)
(* (completion.finalize_run), unless an artifact was altered from outside  *)
(* since the files were validated.                                         *)
PublishedReported == pc = "failRun" /\ status = "completed" => corrupt

(* README.md: a page without a durable commit is pending in a cancelled run. *)
CancelledPagesPending ==
    pc = "idle" /\ status = "failed" /\ failure = "cancelled" =>
        \A p \in Pages : pageStatus[p] \in {"pending", "completed"}

(* storage/cancellation.py: verified corruption fails the run closed, and  *)
(* no cancellation turns it into a resumable failure.                      *)
CorruptionStays == [][failure = "integrity" => failure' = "integrity"]_vars

-----------------------------------------------------------------------------
(* Refinement and liveness. *)

Contract == INSTANCE RunContract WITH
                completedPages <- IF head = NoHead THEN 0 ELSE head

(* What a client observes of a run follows RunContract. *)
ImplementsContract == Contract!Spec

(* Work the service has accepted ends, or the process stops: no wait of    *)
(* the owner depends on anything but its own steps.                        *)
AcceptedWorkEnds == pc \notin {"idle", "down"} ~> pc \in {"idle", "down"}

(* An accepted cancellation takes effect: the flagged run fails, unless    *)
(* the process stops first.                                                *)
CancellationTakesEffect ==
    cancelRequested /\ status = "running" ~> status = "failed" \/ pc = "down"
===============================================================================
