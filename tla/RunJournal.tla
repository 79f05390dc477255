------------------------------ MODULE RunJournal ------------------------------
(***************************************************************************)
(* The durable state of one run and the operations of RunRepository on it: *)
(* the row of the runs table, its pages, attempts and commits, and the     *)
(* directories beneath runs/<run_id>.  Each operator below is one SQLite   *)
(* IMMEDIATE transaction or one atomic rename; the processes that call     *)
(* them, in which order, are in RunLifecycle.                              *)
(*                                                                         *)
(* Abstractions.  A commit is identified by its page and by the ordinal of *)
(* the attempt that wrote it (the code hashes a manifest that holds both). *)
(* Failure classes other than "cancelled" and "integrity" are one class,   *)
(* "other": no transition tells them apart.  The phase label, timestamps   *)
(* and messages are left out.                                              *)
(***************************************************************************)
EXTENDS Integers, Sequences, FiniteSets

CONSTANTS
    NumPages,     \* pages of the document
    MaxAttempts   \* Settings.max_model_attempts

ASSUME PagesAssumption == NumPages \in Nat \ {0}
ASSUME AttemptsAssumption == MaxAttempts \in 1..3

VARIABLES
    status,           \* runs.status
    cancelRequested,  \* runs.cancel_requested
    failure,          \* runs.failure_class
    head,             \* runs.head_page, NoHead while head_commit_id is NULL
    ledger,           \* commits: the set of <<page, attempt>> recorded
    pageStatus,       \* pages.status
    attempts,         \* attempts: per page, the statuses by ordinal
    journaled,        \* artifacts the runs row references
    files,            \* artifacts other than commits present on disk
    published,        \* commit directories present on disk
    sealed,           \* final/recovery_events.json equals recovery_events
    corrupt           \* some referenced artifact was altered from outside

runVars == <<status, cancelRequested, failure>>
pageVars == <<head, ledger, pageStatus, attempts>>
artifactVars == <<journaled, files, published, sealed>>
journalVars == <<status, cancelRequested, failure, head, ledger, pageStatus,
                 attempts, journaled, files, published, sealed>>

Pages == 1..NumPages
NoHead == -1
InitialCommit == <<0, 0>>

Statuses == {"not_started", "running", "completed", "failed", "resuming"}
Terminal == {"completed", "failed"}
Failures == {"none", "cancelled", "integrity", "other"}
PageStatuses == {"pending", "running", "completed", "failed"}
AttemptStatuses == {"running", "completed", "failed", "cancelled", "interrupted"}
JournaledArtifacts == {"source", "renders", "final"}
Artifacts == JournaledArtifacts \cup {"staging"}
Commits == {InitialCommit} \cup (Pages \X (Nat \ {0}))

JournalTypeOK ==
    /\ status \in Statuses
    /\ cancelRequested \in BOOLEAN
    /\ failure \in Failures
    /\ head \in {NoHead} \cup (0..NumPages)
    /\ ledger \subseteq Commits
    /\ pageStatus \in [Pages -> PageStatuses]
    /\ attempts \in [Pages -> Seq(AttemptStatuses)]
    /\ journaled \subseteq JournaledArtifacts
    /\ files \subseteq Artifacts
    /\ published \subseteq Commits
    /\ sealed \in BOOLEAN
    /\ corrupt \in BOOLEAN

(* create_run has inserted the row; the upload already sits at source/.    *)
JournalInit ==
    /\ status = "not_started"
    /\ cancelRequested = FALSE
    /\ failure = "none"
    /\ head = NoHead
    /\ ledger = {}
    /\ pageStatus = [p \in Pages |-> "pending"]
    /\ attempts = [p \in Pages |-> <<>>]
    /\ journaled = {}
    /\ files = {"source"}
    /\ published = {}
    /\ sealed = FALSE
    /\ corrupt = FALSE

-----------------------------------------------------------------------------
(* What audit_run checks. *)

OrphanCommitsMutant == {c \in published \ ledger : c[1] <= head}

OrphanFiles == files \ journaled
OrphanCommits == published \ ledger
NoOrphans == OrphanFiles = {} /\ OrphanCommits = {}

(* _check_page_rows: completed pages are exactly 1..head. *)
CompletedPrefix == {p \in Pages : pageStatus[p] = "completed"} = 1..head

(* _check_commits: one ledger row for each page of 0..head. *)
LedgerIsPrefix ==
    /\ {c[1] : c \in ledger} = 0..head
    /\ \A c, d \in ledger : c[1] = d[1] => c = d

RunningAttempts(p) == {k \in DOMAIN attempts[p] : attempts[p][k] = "running"}

(* validate_attempt_state: a running page is the first incomplete one and  *)
(* owns its newest attempt; no other attempt is running.                   *)
AttemptOwnership ==
    \A p \in Pages :
        IF pageStatus[p] = "running"
        THEN p = head + 1 /\ attempts[p] # <<>> /\ RunningAttempts(p) = {Len(attempts[p])}
        ELSE RunningAttempts(p) = {}

(* completed_attempt_index: a committed page's attempt is the completed one. *)
CommitsOwnAttempts ==
    \A p \in Pages : \A k \in DOMAIN attempts[p] :
        attempts[p][k] = "completed" <=> <<p, k>> \in ledger

CommitsBacked == ledger \subseteq published
ArtifactsBacked == journaled \subseteq files

(* check_completed_output. *)
FinalOutputIntact ==
    status = "completed" => /\ head = NumPages
                            /\ "final" \in journaled \cap files
                            /\ sealed

NoIssues ==
    /\ ~corrupt
    /\ CompletedPrefix
    /\ LedgerIsPrefix
    /\ AttemptOwnership
    /\ CommitsOwnAttempts
    /\ CommitsBacked
    /\ ArtifactsBacked
    /\ FinalOutputIntact

AuditOk == NoIssues /\ NoOrphans

-----------------------------------------------------------------------------
(* Run status: cancellation.py and lifecycle.py. *)

SetFailed(class) == status' = "failed" /\ failure' = class

(* The outcomes mark_run_failed leaves as they are. *)
OutcomeStands(class) ==
    \/ status = "completed"
    \/ status = "failed" /\ failure = "cancelled" /\ class # "cancelled"

MarkRunFailedMutant(class) ==
    /\ IF OutcomeStands(class) THEN UNCHANGED <<status, failure>> ELSE SetFailed(class)
    /\ UNCHANGED <<cancelRequested, pageVars, artifactVars>>

(* mark_run_failed: a pending cancellation wins over the incoming class. *)
MarkRunFailed(class) ==
    /\ IF OutcomeStands(class)
       THEN UNCHANGED <<status, failure>>
       ELSE SetFailed(IF cancelRequested THEN "cancelled" ELSE class)
    /\ UNCHANGED <<cancelRequested, pageVars, artifactVars>>

MarkIntegrityFailed ==
    /\ IF status = "completed" THEN UNCHANGED <<status, failure>> ELSE SetFailed("integrity")
    /\ UNCHANGED <<cancelRequested, pageVars, artifactVars>>

FailResumingRun(class) ==
    /\ \/ status \in Terminal /\ UNCHANGED <<status, failure>>
       \/ status = "resuming" /\ SetFailed(class)
    /\ UNCHANGED <<cancelRequested, pageVars, artifactVars>>

RequestCancel ==
    /\ \/ /\ status \in Terminal
          /\ UNCHANGED runVars
       \/ /\ status \in {"not_started", "resuming"}
          /\ SetFailed("cancelled")
          /\ cancelRequested' = TRUE
       \/ /\ status = "running"
          /\ cancelRequested' = TRUE
          /\ UNCHANGED <<status, failure>>
    /\ UNCHANGED <<pageVars, artifactVars>>

CanRun == status \in {"not_started", "running", "resuming"} /\ ~cancelRequested

MarkRunRunning ==
    /\ CanRun
    /\ status' = "running"
    /\ UNCHANGED <<cancelRequested, failure, pageVars, artifactVars>>

(* mark_run_running(resuming=True). *)
ClaimResume ==
    /\ status = "failed"
    /\ failure # "integrity"
    /\ status' = "resuming"
    /\ cancelRequested' = FALSE
    /\ failure' = "none"
    /\ journaled' = journaled \ {"final"}
    /\ UNCHANGED <<pageVars, files, published, sealed>>

(* claim_recovered_run. *)
ClaimRecoveredRun ==
    /\ IF status \in Terminal THEN UNCHANGED <<status, failure>>
       ELSE IF cancelRequested THEN SetFailed("cancelled")
       ELSE status' = "resuming" /\ UNCHANGED failure
    /\ UNCHANGED <<cancelRequested, pageVars, artifactVars>>

Incomplete == {p \in Pages : pageStatus[p] # "completed"}
FirstIncomplete == CHOOSE p \in Incomplete : \A q \in Incomplete : p <= q

(* The page a resume has to requeue: the first incomplete one, when failed. *)
MustRequeue == Incomplete # {} /\ pageStatus[FirstIncomplete] = "failed"

BudgetLeftMutant(used) == used <= MaxAttempts

(* Another attempt is allowed after so many. *)
BudgetLeft(used) == used < MaxAttempts

(* _has_attempt_budget, used by startup and by _prepare_resume. *)
HasAttemptBudget == Incomplete # {} => BudgetLeft(Len(attempts[FirstIncomplete]))

(* _finish_recovery_state. *)
FinishRecovery ==
    /\ \/ status \in Terminal /\ UNCHANGED <<status, failure>>
       \/ status \notin Terminal /\ cancelRequested /\ SetFailed("cancelled")
       \/ status = "resuming" /\ ~cancelRequested /\ UNCHANGED <<status, failure>>
       \/ /\ status \in {"not_started", "running"} /\ ~cancelRequested
          /\ IF MustRequeue
             THEN status' = "failed" /\ UNCHANGED failure
             ELSE failure' = "none" /\ UNCHANGED status
    /\ UNCHANGED <<cancelRequested, pageVars, artifactVars>>

-----------------------------------------------------------------------------
(* Page attempts and commits: page_operations.py.  A caller names its      *)
(* attempt by page p and ordinal k.                                        *)

AttemptActive(p, k) == k \in DOMAIN attempts[p] /\ attempts[p][k] = "running"

SetAttempt(p, k, s) == attempts' = [attempts EXCEPT ![p] = [@ EXCEPT ![k] = s]]
SetPage(p, s) == pageStatus' = [pageStatus EXCEPT ![p] = s]

CanBegin(p) ==
    /\ status = "running"
    /\ head # NoHead
    /\ ~cancelRequested
    /\ p = head + 1
    /\ pageStatus[p] = "pending"

BeginPageAttempt(p) ==
    /\ CanBegin(p)
    /\ attempts' = [attempts EXCEPT ![p] = Append(@, "running")]
    /\ SetPage(p, "running")
    /\ UNCHANGED <<runVars, head, ledger, artifactVars>>

DiscardAttemptMutant(p, k) ==
    /\ AttemptActive(p, k)
    /\ SetAttempt(p, k, "cancelled")
    /\ SetFailed("cancelled")
    /\ UNCHANGED <<cancelRequested, head, ledger, pageStatus, artifactVars>>

(* _discard_in_transaction. *)
DiscardAttempt(p, k) ==
    /\ AttemptActive(p, k)
    /\ SetAttempt(p, k, "cancelled")
    /\ SetPage(p, "pending")
    /\ SetFailed("cancelled")
    /\ UNCHANGED <<cancelRequested, head, ledger, artifactVars>>

FailPageAttemptMutant(p, k, class, willRetry) ==
    /\ AttemptActive(p, k)
    /\ ~cancelRequested
    /\ SetAttempt(p, k, "failed")
    /\ SetPage(p, IF willRetry THEN "pending" ELSE "failed")
    /\ SetFailed(class)
    /\ UNCHANGED <<cancelRequested, head, ledger, artifactVars>>

(* fail_page_attempt without a pending cancellation. *)
FailPageAttempt(p, k, class, willRetry) ==
    /\ AttemptActive(p, k)
    /\ ~cancelRequested
    /\ SetAttempt(p, k, "failed")
    /\ SetPage(p, IF willRetry THEN "pending" ELSE "failed")
    /\ IF willRetry THEN UNCHANGED <<status, failure>> ELSE SetFailed(class)
    /\ UNCHANGED <<cancelRequested, head, ledger, artifactVars>>

(* _validate_commit_claim. *)
CommitClaimValid(p, k) ==
    /\ status = "running"
    /\ p = head + 1
    /\ pageStatus[p] = "running"
    /\ AttemptActive(p, k)

CommitPageMutant(p, k) ==
    /\ CommitClaimValid(p, k)
    /\ ledger' = ledger \cup {<<p, k>>}
    /\ SetAttempt(p, k, "completed")
    /\ SetPage(p, "completed")
    /\ UNCHANGED <<runVars, head, artifactVars>>

CommitPage(p, k) ==
    /\ CommitClaimValid(p, k)
    /\ ledger' = ledger \cup {<<p, k>>}
    /\ SetAttempt(p, k, "completed")
    /\ SetPage(p, "completed")
    /\ head' = p
    /\ UNCHANGED <<runVars, artifactVars>>

(* requeue_failed_page, called for the first incomplete page when it failed. *)
CanRequeue == status \in {"failed", "resuming"}
RequeueRefused == MustRequeue /\ ~CanRequeue

RequeueFailedPage ==
    /\ IF MustRequeue
       THEN CanRequeue /\ SetPage(FirstIncomplete, "pending")
       ELSE UNCHANGED pageStatus
    /\ UNCHANGED <<runVars, head, ledger, attempts, artifactVars>>

(* initialize_artifacts: the transaction that records the initial commit.  *)
RecordInitialCommit ==
    /\ head = NoHead
    /\ ledger' = ledger \cup {InitialCommit}
    /\ head' = 0
    /\ UNCHANGED <<runVars, pageStatus, attempts, artifactVars>>

-----------------------------------------------------------------------------
(* Artifacts and recovery: commits.py, finalization.py, recovery_support.py. *)

RecordArtifact(a) ==
    /\ journaled' = journaled \cup {a}
    /\ UNCHANGED <<runVars, pageVars, files, published, sealed>>

StageCommit ==
    /\ files' = files \cup {"staging"}
    /\ UNCHANGED <<runVars, pageVars, journaled, published, sealed>>

DestinationTaken(p) == \E c \in published : c[1] = p

(* prepare_commit: the rename of the staged directory. *)
PublishCommit(p, k) ==
    /\ ~DestinationTaken(p)
    /\ files' = files \ {"staging"}
    /\ published' = published \cup {<<p, k>>}
    /\ UNCHANGED <<runVars, pageVars, journaled, sealed>>

(* commit_page after a cancelled transaction: quarantine(prepared.path). *)
QuarantineCommit(p, k) ==
    /\ published' = published \ {<<p, k>>}
    /\ UNCHANGED <<runVars, pageVars, journaled, files, sealed>>

QuarantineOrphansMutant ==
    /\ files' = files \ OrphanFiles
    /\ UNCHANGED <<runVars, pageVars, journaled, published, sealed>>

(* Recovery moves every unreferenced artifact aside and logs each move, so *)
(* a recovery log written earlier into final/ is no longer the ledger's.   *)
QuarantineOrphans ==
    /\ files' = files \ OrphanFiles
    /\ published' = published \ OrphanCommits
    /\ sealed' = (sealed /\ (NoOrphans \/ status = "completed"))
    /\ UNCHANGED <<runVars, pageVars, journaled>>

ResetInterruptedAttemptMutant ==
    /\ IF head + 1 \in Pages /\ pageStatus[head + 1] = "running"
       THEN SetPage(head + 1, "pending") /\ sealed' = FALSE
       ELSE UNCHANGED <<pageStatus, sealed>>
    /\ UNCHANGED <<runVars, head, ledger, attempts, journaled, files, published>>

(* _reset_interrupted_attempt. *)
ResetInterruptedAttempt ==
    /\ IF head + 1 \in Pages /\ pageStatus[head + 1] = "running"
       THEN /\ SetAttempt(head + 1, Len(attempts[head + 1]), "interrupted")
            /\ SetPage(head + 1, "pending")
            /\ sealed' = FALSE
       ELSE UNCHANGED <<pageStatus, attempts, sealed>>
    /\ UNCHANGED <<runVars, head, ledger, journaled, files, published>>

(* prepare_final_manifest: orphans are quarantined, then final/ is renamed *)
(* into place holding a copy of the recovery ledger.                       *)
PublishFinal ==
    /\ files' = (files \ OrphanFiles) \cup {"final"}
    /\ published' = published \ OrphanCommits
    /\ sealed' = TRUE
    /\ UNCHANGED <<runVars, pageVars, journaled>>

(* _validate_final_candidate, with final/ the one orphan allowed. *)
FinalCandidateValid ==
    /\ NoIssues
    /\ head = NumPages
    /\ OrphanFiles \subseteq {"final"}
    /\ OrphanCommits = {}
    /\ "final" \in files
    /\ sealed

CompleteRun ==
    /\ status' = "completed"
    /\ failure' = "none"
    /\ journaled' = journaled \cup {"final"}
    /\ UNCHANGED <<cancelRequested, pageVars, files, published, sealed>>

CancelFinalization ==
    /\ SetFailed("cancelled")
    /\ UNCHANGED <<cancelRequested, pageVars, artifactVars>>

QuarantineFinal ==
    /\ files' = files \ {"final"}
    /\ UNCHANGED <<runVars, pageVars, journaled, published, sealed>>

(* mark_completed_integrity_failed: orphans move aside, corruption demotes. *)
AuditCompletedRun ==
    /\ status = "completed"
    /\ files' = files \ OrphanFiles
    /\ published' = published \ OrphanCommits
    /\ IF NoIssues THEN UNCHANGED <<status, failure>> ELSE SetFailed("integrity")
    /\ UNCHANGED <<cancelRequested, pageVars, journaled, sealed>>
===============================================================================
