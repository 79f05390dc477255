---------------------------- MODULE RunDisk_proofs ----------------------------
(***************************************************************************)
(* The directories of the run against the journal, for every number of     *)
(* pages, every attempt budget and every set of faults: what is published  *)
(* is whole, nothing is in the way of what is published next, recovery     *)
(* never refuses what the program left behind, and a released run is       *)
(* settled.                                                                *)
(*                                                                         *)
(* DiskInv says which unreferenced artifacts may exist at each step of the *)
(* owner: none while it works on journaled state, and otherwise only the   *)
(* one it is about to reference or has just given up.                      *)
(***************************************************************************)
EXTENDS RunLedger_proofs

(* Steps at which every file and every commit directory is referenced.     *)
TidyPcs == {"accept", "reset", "finish", "claim", "refail", "recheck", "requeue", "enqueue",
            "queued", "load", "check", "mark", "render", "initial", "rerequeue", "remark",
            "page", "begin", "model", "materialize", "stage", "failAttempt", "backoff",
            "discard", "finalCheck", "finalPrepare", "finalAudit"}

OnlyOrphans(someFiles, someCommits) ==
    OrphanFiles \subseteq someFiles /\ OrphanCommits \subseteq someCommits

OrphansInv ==
    /\ pc \in TidyPcs => NoOrphans
    /\ pc = "register" => "source" \in files /\ OnlyOrphans({"source"}, {})
    /\ pc \in {"prepared", "bind"} => "renders" \in files /\ OnlyOrphans({"renders"}, {})
    /\ pc \in {"initialPublish", "publish"} => OnlyOrphans({"staging"}, {})
    /\ pc = "initialTxn" => OnlyOrphans({}, {InitialCommit})
    /\ pc = "commit" => OnlyOrphans({}, {<<Page, attemptNo>>})
    /\ pc = "finalTxn" => "final" \in files /\ sealed /\ OnlyOrphans({"final"}, {})

DiskInv ==
    /\ ArtifactsBacked
    /\ "final" \in journaled => status \in Terminal
    /\ pc = "dropFinal" => "final" \notin journaled
    /\ CompletedIsWhole
    /\ OrphansInv

LEMMA DiskStay ==
    ASSUME DiskInv, UNCHANGED <<journalVars, pc, base, attemptNo>>
    PROVE  DiskInv'
  BY DEF DiskInv, OrphansInv, ArtifactsBacked, CompletedIsWhole, FinalOutputIntact, NoOrphans,
         OnlyOrphans, OrphanFiles, OrphanCommits, Page, journalVars

(* A step that changes no artifact and no commit row, and ends where all   *)
(* is referenced if it started there or where nothing is asked.            *)
LEMMA DiskFrame ==
    ASSUME DiskInv, UNCHANGED <<ledger, head, journaled, files, published, sealed>>,
           status' = "completed" => status = "completed" /\ UNCHANGED cancelRequested,
           status' \notin Terminal => status \notin Terminal,
           \/ pc \in TidyPcs /\ pc' \in TidyPcs
           \/ pc' \in {"quarantine", "failRun", "release", "idle", "down", "dropCommit"}
    PROVE  DiskInv'
<1>1. ArtifactsBacked' /\ CompletedIsWhole'
  BY DEF DiskInv, ArtifactsBacked, CompletedIsWhole, FinalOutputIntact, NoOrphans,
         OrphanFiles, OrphanCommits
<1>2. OrphansInv' /\ (pc' = "dropFinal" => "final" \notin journaled')
  BY DEF DiskInv, OrphansInv, TidyPcs, NoOrphans, OrphanFiles, OrphanCommits
<1>3. QED
  BY <1>1, <1>2 DEF DiskInv

(* The update at the end of the final transaction leaves nothing behind.   *)
LEMMA UpdateCompletes ==
    ASSUME UpdateInv, DiskInv, pc = "finalUpdate", CompleteRun, pc' = "finalAudit"
    PROVE  DiskInv'
<1>1. /\ head = NumPages /\ OrphanFiles \subseteq {"final"} /\ OrphanCommits = {}
      /\ "final" \in files /\ sealed /\ ~cancelRequested
  BY DEF UpdateInv, ReadyToPublish
<1>2. /\ status' = "completed" /\ journaled' = journaled \cup {"final"}
      /\ UNCHANGED <<cancelRequested, head, ledger, files, published, sealed>>
  BY DEF CompleteRun, pageVars
<1>3. OrphanFiles' = {} /\ OrphanCommits' = {}
  BY <1>1, <1>2 DEF OrphanFiles, OrphanCommits
<1>4. ArtifactsBacked'
  BY <1>1, <1>2 DEF DiskInv, ArtifactsBacked
<1>5. QED
  BY <1>1, <1>2, <1>3, <1>4
     DEF DiskInv, OrphansInv, CompletedIsWhole, FinalOutputIntact, NoOrphans, TidyPcs,
         Terminal

LEMMA DiskStep ==
    ASSUME IInv, LedgerInv, StatusInv, FlagInv, UpdateInv, DiskInv, Next
    PROVE  DiskInv'
<1> USE DEF DiskInv, OrphansInv, ArtifactsBacked, CompletedIsWhole, FinalOutputIntact,
            NoOrphans, OnlyOrphans, OrphanFiles, OrphanCommits, TidyPcs, SettledPcs,
            PublishedPcs, Terminal, SetFailed
<1>1. status \in Statuses /\ caller \in Callers
  BY DEF IInv, TypeOK, JournalTypeOK
<1>2. pc \notin PublishedPcs => status # "completed"
  BY DEF StatusInv
<1>3. CASE IntakeStep \/ ResumerStep
  BY <1>1, <1>2, <1>3
     DEF IntakeStep, Register, Accept, ResumerStep, RecheckClaim, RequeueForResume,
         EnqueueResumed, Goto, GoIdle, Enqueue, RecordArtifact, FailResumingRun,
         RequeueFailedPage, JournalUnchanged, journalVars, pageVars, runVars, artifactVars
<1>4. CASE StartupStep \/ SettleStep
  BY <1>1, <1>2, <1>4
     DEF StartupStep, StartupRefail, StartupClaim, SettleStep, FailRun, Release, Goto,
         GoIdle, Enqueue, MarkRunFailed, OutcomeStands, ClaimRecoveredRun,
         JournalUnchanged, journalVars, pageVars, artifactVars
<1>5. CASE RecoveryStep
  <2>1. CASE RecoverQuarantine
    BY <1>2, <2>1 DEF RecoverQuarantine, QuarantineOrphans, Goto, runVars, pageVars
  <2>2. CASE RecoverReset
    BY <1>2, <2>2 DEF RecoverReset, ResetInterruptedAttempt, Goto, runVars
  <2>3. CASE RecoverFinish
    BY <1>1, <1>2, <2>3
       DEF RecoverFinish, FinishRecovery, MarkIntegrityFailed, AfterRecovery, Callers,
           Goto, GoIdle, FailWith, pageVars, artifactVars
  <2>4. CASE RequeueAndLoad
    BY <1>2, <2>4
       DEF RequeueAndLoad, RequeueFailedPage, LoadCheckpoint, FailWith, ContinueFrom,
           journalVars, runVars, artifactVars
  <2>5. QED
    BY <1>5, <2>1, <2>2, <2>3, <2>4 DEF RecoveryStep
<1>6. CASE PrepareStep
  <2>1. CASE WorkerTake \/ LoadRun \/ CheckClaim \/ MarkRegistered \/ CheckResumed
             \/ MarkResumed
    BY <1>1, <1>2, <2>1, DiskFrame
       DEF WorkerTake, LoadRun, CheckClaim, MarkRegistered, CheckResumed, MarkResumed,
           EnterRunning, MarkRunRunning, CanRun, JournalUnchanged, Goto, GoIdle, FailWith,
           journalVars, pageVars, artifactVars
  <2>2. CASE Render \/ VerifyRenders \/ PreparationFails \/ CheckPrepared
    BY <1>2, <2>2
       DEF Render, VerifyRenders, PreparationFails, CheckPrepared, JournalUnchanged, Goto,
           FailWith, CallRecovery, journalVars, runVars, pageVars
  <2>3. CASE RecordRenders \/ StageInitial
    BY <1>2, <2>3
       DEF RecordRenders, StageInitial, RecordArtifact, StageCommit, Goto, runVars, pageVars
  <2>4. CASE PublishInitial
    <3>1. CASE PublishCommit(0, 0) /\ Goto("initialTxn")
      <4>1. UNCHANGED <<runVars, pageVars, journaled, sealed>> /\ pc' = "initialTxn"
        BY <3>1 DEF PublishCommit, Goto
      <4>2. /\ files' = files \ {"staging"} /\ published' = published \cup {InitialCommit}
            /\ "staging" \notin journaled
        BY <3>1 DEF PublishCommit, InitialCommit, IInv, TypeOK, JournalTypeOK,
                    JournaledArtifacts
      <4>3. OrphanFiles' = {} /\ OrphanCommits' \subseteq {InitialCommit}
        BY <2>4, <4>1, <4>2 DEF PublishInitial, pageVars
      <4>4. ArtifactsBacked'
        BY <4>1, <4>2
      <4>5. QED
        BY <1>2, <2>4, <4>1, <4>2, <4>3, <4>4 DEF PublishInitial, runVars, pageVars
    <3>2. CASE UNCHANGED journalVars /\ FailWith("other")
      BY <3>2, DiskFrame DEF FailWith, journalVars
    <3>3. QED
      BY <2>4, <3>1, <3>2 DEF PublishInitial
  <2>5. CASE RecordInitial
    <3>1. /\ UNCHANGED <<runVars, artifactVars>> /\ ledger' = ledger \cup {InitialCommit}
          /\ pc' \in {"remark", "page", "failRun"}
      BY <2>5 DEF RecordInitial, RecordInitialCommit, ContinueFrom, FailWith
    <3>2. OrphanFiles' = {} /\ OrphanCommits' = {}
      BY <2>5, <3>1 DEF RecordInitial, artifactVars
    <3>3. QED
      BY <1>2, <2>5, <3>1, <3>2 DEF RecordInitial, runVars, artifactVars
  <2>6. QED
    BY <1>6, <2>1, <2>2, <2>3, <2>4, <2>5 DEF PrepareStep
<1>7. CASE PageStep
  <2>1. CASE NextPage \/ Begin \/ BeginRefused \/ ModelAnswers \/ Materialize \/ Backoff
    BY <1>2, <2>1
       DEF NextPage, Begin, BeginRefused, ModelAnswers, Materialize, Backoff, Goto,
           FailWith, FailAttemptWith, ContinueFrom, BeginPageAttempt, JournalUnchanged,
           journalVars, runVars, artifactVars
  <2>2. CASE Discard \/ FailAttempt
    BY <1>2, <2>2
       DEF Discard, FailAttempt, DiscardAttempt, FailPageAttempt, Goto, FailWith,
           artifactVars
  <2>3. CASE Stage
    BY <1>2, <2>3 DEF Stage, StageCommit, Goto, runVars, pageVars
  <2>4. CASE Commit \/ DropCommit
    BY <1>2, <2>4
       DEF Commit, DropCommit, CommitPage, DiscardAttempt, QuarantineCommit, Goto,
           FailWith, CallRecovery, ContinueFrom, journalVars, runVars, pageVars,
           artifactVars
  <2>5. CASE Publish
    <3>1. CASE PublishCommit(Page, attemptNo) /\ Goto("commit")
      <4>1. UNCHANGED <<Page, attemptNo, runVars, pageVars, journaled, sealed>> /\ pc' = "commit"
        BY <3>1 DEF PublishCommit, Goto, procVars, Page
      <4>2. /\ files' = files \ {"staging"} /\ published' = published \cup {<<Page, attemptNo>>}
            /\ "staging" \notin journaled
        BY <3>1 DEF PublishCommit, IInv, TypeOK, JournalTypeOK, JournaledArtifacts
      <4>3. OrphanFiles' = {} /\ OrphanCommits' \subseteq {<<Page, attemptNo>>}
        BY <2>5, <4>1, <4>2 DEF Publish, pageVars
      <4>4. ArtifactsBacked'
        BY <4>1, <4>2
      <4>5. QED
        BY <1>2, <2>5, <4>1, <4>2, <4>3, <4>4 DEF Publish, runVars, pageVars
    <3>2. CASE UNCHANGED journalVars /\ CallRecovery("reconcile")
      BY <3>2, DiskFrame DEF CallRecovery, journalVars
    <3>3. QED
      BY <2>5, <3>1, <3>2 DEF Publish
  <2>6. QED
    BY <1>7, <2>1, <2>2, <2>3, <2>4, <2>5 DEF PageStep
<1>8. CASE FinalStep
  <2>1. CASE AuditCompletion \/ PrepareFinal \/ PrepareFinalFails \/ FinalizeRefused
    BY <1>1, <1>2, <2>1
       DEF AuditCompletion, PrepareFinal, PrepareFinalFails, FinalizeRefused,
           JournalUnchanged, PublishFinal, Goto, FailWith, runVars, pageVars, artifactVars,
           journalVars
  <2>2. CASE ValidateFinal \/ ConfirmFinal
    BY <1>1, <1>2, <2>2
       DEF ValidateFinal, ConfirmFinal, JournalUnchanged, Goto, FailWith, journalVars
  <2>3. CASE Finalize
    BY <2>3, UpdateCompletes DEF Finalize, Goto
  <2>4. CASE FinalizeCancelled
    <3>1. UNCHANGED <<pageVars, artifactVars>> /\ status' = "failed" /\ pc' = "dropFinal"
      BY <2>4 DEF FinalizeCancelled, CancelFinalization, Goto
    <3>2. "final" \notin journaled
      BY <1>1, <1>2, <2>4 DEF FinalizeCancelled, UpdateInv, ReadyToPublish
    <3>3. QED
      BY <3>1, <3>2 DEF pageVars, artifactVars
  <2>5. CASE DropFinal
    BY <1>1, <1>2, <2>5 DEF DropFinal, QuarantineFinal, FailWith, runVars, pageVars
  <2>6. QED
    BY <1>8, <2>1, <2>2, <2>3, <2>4, <2>5 DEF FinalStep
<1>9. CASE ClientStep
  <2>1. CASE Cancel \/ DeliverToken
    BY <1>1, <2>1
       DEF Cancel, DeliverToken, RequestCancel, JournalUnchanged, Page, runVars, pageVars,
           artifactVars, journalVars
  <2>2. CASE Resume
    BY <2>2 DEF Resume, ClaimResume, CallRecovery, pageVars
  <2>3. CASE AbandonSubmission \/ AbandonResume
    BY <1>1, <1>2, <2>3
       DEF AbandonSubmission, AbandonResume, MarkRunFailed, OutcomeStands, GoIdle, IntakePcs,
           pageVars, artifactVars, journalVars
  <2>4. QED
    BY <1>9, <2>1, <2>2, <2>3 DEF ClientStep
<1>10. CASE FaultStep
  <2>1. CASE RollBackResume \/ InitialCommitFault
    BY <1>2, <2>1
       DEF RollBackResume, InitialCommitFault, ResumerRunning, ResumerPcs, RecoveryPcs,
           FailResumingRun, JournalUnchanged, GoIdle, FailWith, pageVars, artifactVars,
           journalVars
  <2>2. CASE CommitFault
    BY <1>2, <2>2
       DEF CommitFault, CommitPage, CallRecovery, runVars, artifactVars, journalVars
  <2>3. CASE FinalizeFault
    <3>1. CASE UNCHANGED journalVars /\ FailWith("integrity")
      BY <3>1, DiskFrame DEF FailWith, journalVars
    <3>2. CASE pc = "finalUpdate" /\ CompleteRun /\ Goto("finalAudit")
      BY <3>2, UpdateCompletes DEF Goto
    <3>3. QED
      BY <2>3, <3>1, <3>2 DEF FinalizeFault
  <2>4. CASE Corrupt
    BY <2>4, DiskStay DEF Corrupt, procVars
  <2>5. QED
    BY <1>10, <2>1, <2>2, <2>3, <2>4 DEF FaultStep
<1>11. CASE Crash
  BY <1>11, DiskFrame DEF Crash, JournalUnchanged, journalVars
<1>12. CASE Restart
  <2>1. CASE AuditCompletedRun /\ pc' = "idle"
    BY <2>1 DEF AuditCompletedRun, pageVars
  <2>2. CASE ~AuditCompletedRun
    BY <1>1, <1>12, <2>2, DiskFrame
       DEF Restart, Startup, MarkRunFailed, OutcomeStands, pageVars, artifactVars, journalVars
  <2>3. QED
    BY <1>12, <2>1, <2>2 DEF Restart, AuditCompletedRun
<1>13. QED
  BY <1>3, <1>4, <1>5, <1>6, <1>7, <1>8, <1>9, <1>10, <1>11, <1>12 DEF Next, OwnerStep

LEMMA DiskHolds == Spec => []DiskInv
<1>1. Init => DiskInv
  BY DEF Init, JournalInit, DiskInv, OrphansInv, ArtifactsBacked, CompletedIsWhole,
         FinalOutputIntact, NoOrphans, OnlyOrphans, OrphanFiles, OrphanCommits, TidyPcs
<1>2. /\ IInv /\ LedgerInv /\ StatusInv /\ FlagInv /\ UpdateInv /\ DiskInv
      /\ [Next]_vars
      => DiskInv'
  BY DiskStep, DiskStay DEF vars, procVars
<1>3. QED
  BY <1>1, <1>2, InvariantHolds, LedgerHolds, StatusHolds, FlagHolds, UpdateHolds, PTL
     DEF Spec

(* A run is published as completed only whole: every page committed, final *)
(* output in place with the recovery log as it stands, nothing unreferenced*)
(* left behind and no cancellation accepted on the way (finalize_run), and *)
(* no crash, cancellation or restart afterwards undoes any of it.          *)
THEOREM CompletedIsWholeHolds == Spec => []CompletedIsWhole
<1>1. DiskInv => CompletedIsWhole
  BY DEF DiskInv
<1>2. QED
  BY <1>1, DiskHolds, PTL

(* Nothing an earlier crash or error left on disk is in the way of what    *)
(* the owner publishes next (prepare_commit, render_preserved).  The       *)
(* destination of a page is free because every directory is referenced by  *)
(* then and the journal has no commit beyond its head.                     *)
THEOREM DestinationsFreeHolds == Spec => []DestinationsFree
<1>1. IInv /\ LedgerInv /\ RunnerInv /\ FreshInv /\ UpdateInv /\ DiskInv
      => DestinationsFree
  <2> SUFFICES ASSUME IInv, LedgerInv, RunnerInv, FreshInv, UpdateInv, DiskInv
               PROVE  DestinationsFree
    OBVIOUS
  <2>1. head \in {NoHead} \cup (0..NumPages) /\ NumPages \in Nat
    BY PagesAssumption DEF IInv, TypeOK, JournalTypeOK
  <2>2. pc \in {"publish", "initialPublish"} => published \subseteq ledger
    BY DEF DiskInv, OrphansInv, OnlyOrphans, OrphanCommits
  <2>3. \A c \in ledger : c[1] \in 0..head
    BY DEF LedgerInv, Ledger, LedgerInvariant, LedgerIsPrefix
  <2>4. pc = "publish" => Page = head + 1 /\ head # NoHead
    BY DEF RunnerInv, RunnerPcs, PagePcs, Page, IInv, ControlInv, HoldsPage
  <2>5. pc = "publish" => ~DestinationTaken(Page)
    BY <2>1, <2>2, <2>3, <2>4 DEF DestinationTaken, NoHead
  <2>6. pc = "initialPublish" => ~DestinationTaken(0)
    BY <2>1, <2>2, <2>3 DEF DestinationTaken, NoHead, FreshInv, FreshPcs
  <2>7. pc = "render" => "renders" \notin files \ journaled
    BY DEF DiskInv, OrphansInv, TidyPcs, NoOrphans, OrphanFiles
  <2>8. QED
    BY <2>5, <2>6, <2>7
       DEF DestinationsFree, DiskInv, OrphansInv, UpdateInv, ReadyToPublish
<1>2. QED
  BY <1>1, InvariantHolds, LedgerHolds, RunnerHolds, FreshHolds, UpdateHolds, DiskHolds,
     PTL

(* recover_run never rejects what the program itself did: whatever crashes,*)
(* storage errors, cancellations and restarts came before it, its audit    *)
(* finds no issue, unless an artifact was altered from outside.            *)
THEOREM RecoveryAcceptsHolds == Spec => []RecoveryAccepts
<1>1. LedgerInv /\ DiskInv => RecoveryAccepts
  BY DEF LedgerInv, Ledger, LedgerInvariant, DiskInv, OrphansInv, TidyPcs, CompletedIsWhole,
         RecoveryAccepts, AuditOk, NoIssues, FinalOutputIntact
<1>2. QED
  BY <1>1, LedgerHolds, DiskHolds, PTL

(* Only the failed audit after publication takes a completed run to the    *)
(* owner's failure path; whatever else ends there began unpublished.       *)
LEMMA ToFailRun ==
    ASSUME IInv, StatusInv, UpdateInv, Next, pc' = "failRun", status' = "completed"
    PROVE  \/ pc = "finalAudit" /\ ConfirmFinal
           \/ pc = "failRun" /\ status = "completed" /\ corrupt' \in {corrupt, TRUE}
<1> USE DEF SetFailed
<1>1. status = "completed" => pc \in {"release", "idle", "down", "finalAudit", "failRun"}
  BY DEF StatusInv, PublishedPcs, SettledPcs
<1>2. status \in Statuses /\ caller \in Callers
  BY DEF IInv, TypeOK, JournalTypeOK
<1>3. CASE IntakeStep \/ ResumerStep \/ StartupStep \/ SettleStep
  BY <1>3
     DEF IntakeStep, Register, Accept, ResumerStep, RecheckClaim, RequeueForResume,
         EnqueueResumed, StartupStep, StartupRefail, StartupClaim, SettleStep, FailRun,
         Release, Goto, GoIdle, Enqueue
<1>4. CASE RecoveryStep
  BY <1>1, <1>2, <1>4
     DEF RecoveryStep, RecoverQuarantine, RecoverReset, RecoverFinish, AfterRecovery,
         RequeueAndLoad, RequeueFailedPage, MarkIntegrityFailed, Callers, Goto, journalVars,
         runVars
<1>5. CASE PrepareStep
  BY <1>1, <1>5
     DEF PrepareStep, WorkerTake, LoadRun, CheckClaim, MarkRegistered, Render,
         VerifyRenders, PreparationFails, CheckPrepared, RecordRenders, StageInitial,
         PublishInitial, RecordInitial, CheckResumed, MarkResumed, EnterRunning, Goto,
         JournalUnchanged, RecordInitialCommit, journalVars, runVars
<1>6. CASE PageStep
  BY <1>1, <1>6
     DEF PageStep, NextPage, Begin, BeginRefused, ModelAnswers, Materialize, Discard,
         FailAttempt, Backoff, Stage, Publish, Commit, DropCommit, JournalUnchanged,
         DiscardAttempt, FailPageAttempt, QuarantineCommit, Goto, FailAttemptWith,
         CallRecovery, ContinueFrom, journalVars, runVars
<1>7. CASE FinalStep
  BY <1>1, <1>7
     DEF FinalStep, AuditCompletion, PrepareFinal, PrepareFinalFails, ValidateFinal,
         Finalize, ConfirmFinal, FinalizeCancelled, FinalizeRefused, DropFinal,
         JournalUnchanged, QuarantineFinal, Goto, journalVars, runVars
<1>8. CASE ClientStep
  BY <1>1, <1>8
     DEF ClientStep, Cancel, DeliverToken, Resume, AbandonSubmission, AbandonResume,
         RequestCancel, JournalUnchanged, GoIdle, CallRecovery, journalVars, runVars
<1>9. CASE FaultStep
  BY <1>1, <1>9
     DEF FaultStep, RollBackResume, InitialCommitFault, CommitFault, FinalizeFault, Corrupt,
         JournalUnchanged, GoIdle, CallRecovery, Goto, journalVars
<1>10. CASE Crash \/ Restart
  BY <1>10 DEF Crash, Restart, Startup
<1>11. QED
  BY <1>3, <1>4, <1>5, <1>6, <1>7, <1>8, <1>9, <1>10 DEF Next, OwnerStep

(* A run that was published is not then reported as failed: a completed    *)
(* run is only in the hands of the worker that published it, and what its  *)
(* update left the audit accepts, unless an artifact was altered from      *)
(* outside between the validation and that audit (completion.finalize_run).*)
THEOREM PublishedReportedHolds == Spec => []PublishedReported
<1>1. Init => PublishedReported
  BY DEF Init, PublishedReported
<1>2. /\ IInv /\ LedgerInv /\ StatusInv /\ UpdateInv /\ DiskInv /\ PublishedReported
      /\ [Next]_vars
      => PublishedReported'
  <2> SUFFICES ASSUME IInv, LedgerInv, StatusInv, UpdateInv, DiskInv, PublishedReported,
                      [Next]_vars, pc' = "failRun", status' = "completed"
               PROVE  corrupt'
    BY DEF PublishedReported
  <2>1. CASE UNCHANGED vars
    BY <2>1 DEF vars, journalVars, PublishedReported
  <2>2. CASE Next
    <3>1. \/ pc = "finalAudit" /\ ConfirmFinal
          \/ pc = "failRun" /\ status = "completed" /\ corrupt' \in {corrupt, TRUE}
      BY <2>2, ToFailRun
    <3>2. ASSUME pc = "finalAudit", ConfirmFinal PROVE corrupt'
      <4>1. ~AuditOk /\ UNCHANGED corrupt
        BY <3>2 DEF ConfirmFinal, Goto, JournalUnchanged
      <4>2. NoOrphans /\ ArtifactsBacked /\ FinalOutputIntact
        BY <3>2 DEF DiskInv, OrphansInv, TidyPcs, CompletedIsWhole, FinalOutputIntact
      <4>3. corrupt
        BY <4>1, <4>2 DEF AuditOk, NoIssues, LedgerInv, Ledger, LedgerInvariant
      <4>4. QED
        BY <4>1, <4>3
    <3>3. QED
      BY <3>1, <3>2 DEF PublishedReported
  <2>3. QED
    BY <2>1, <2>2
<1>3. QED
  BY <1>1, <1>2, InvariantHolds, LedgerHolds, StatusHolds, UpdateHolds, DiskHolds, PTL
     DEF Spec

-----------------------------------------------------------------------------
(* Running pages.  A page is left running only by a crash or by a failure  *)
(* in the middle of its attempt, and recovery resets it before the run is  *)
(* released, unless another configuration's service fails the run unread.  *)

RunningPages == {p \in Pages : pageStatus[p] = "running"}

SettledInv ==
    /\ pc = "idle" => status \in Terminal
    /\ RunningPages # {} => \/ pc \in AttemptPcs \cup {"down"}
                            \/ pc \in {"quarantine", "reset"} /\ caller # "resumer"
                            \/ pc = "idle" /\ ~sameConfig

LEMMA NoneRunning ==
    ASSUME pc' # "idle" \/ status' \in Terminal, RunningPages' = {}
    PROVE  SettledInv'
  BY DEF SettledInv

(* No page is left running where the owner does not handle an attempt, so  *)
(* a step that starts there and begins none leaves none.                   *)
LEMMA NoneStarted ==
    ASSUME SettledInv, UNCHANGED pageStatus,
           pc \notin AttemptPcs \cup {"down", "idle"},
           pc \notin {"quarantine", "reset"} \/ caller = "resumer",
           pc' # "idle" \/ status' \in Terminal
    PROVE  SettledInv'
  BY NoneRunning DEF SettledInv, RunningPages

(* Whatever ends an attempt leaves no page running: there was one at most. *)
LEMMA EndLeavesNoneRunning ==
    ASSUME JournalTypeOK, Ledger, NEW t \in PageStatuses \ {"running"},
           SetPage(head + 1, t)
    PROVE  RunningPages' = {}
<1>1. \A p \in Pages : pageStatus[p] = "running" => p = head + 1
  BY DEF Ledger, LedgerInvariant, AttemptOwnership
<1>2. \A p \in Pages : pageStatus'[p] = IF p = head + 1 THEN t ELSE pageStatus[p]
  BY DEF SetPage, JournalTypeOK
<1>3. QED
  BY <1>1, <1>2 DEF RunningPages

LEMMA SettledStep ==
    ASSUME IInv, LedgerInv, RunnerInv, StatusInv, DiskInv, SettledInv, Next
    PROVE  SettledInv'
<1>1. /\ JournalTypeOK /\ Ledger
      /\ status \in Statuses /\ caller \in Callers
  BY DEF IInv, TypeOK, JournalTypeOK, LedgerInv
<1> USE DEF AttemptPcs, Terminal, SetFailed
<1>2. pc \in AttemptPcs => Page = head + 1
  BY DEF RunnerInv, RunnerPcs, PagePcs, Page
<1>3. CASE IntakeStep \/ ResumerStep
  <2>1. CASE RequeueForResume
    <3>1. RunningPages' \subseteq RunningPages
      BY <1>1, <2>1 DEF RequeueForResume, RequeueFailedPage, SetPage, RunningPages, JournalTypeOK
    <3>2. QED
      BY <2>1, <3>1 DEF RequeueForResume, Goto, SettledInv
  <2>2. CASE ~RequeueForResume
    BY <1>1, <1>3, <2>2, NoneStarted
       DEF IntakeStep, Register, Accept, ResumerStep, RecheckClaim, EnqueueResumed, Goto,
           GoIdle, Enqueue, RecordArtifact, FailResumingRun, JournalUnchanged, journalVars,
           pageVars, StatusInv, ResumerPcs
  <2>3. QED
    BY <2>1, <2>2
<1>4. CASE StartupStep \/ SettleStep
  BY <1>1, <1>4, NoneStarted
     DEF StartupStep, StartupRefail, StartupClaim, SettleStep, FailRun, Release, Goto,
         GoIdle, Enqueue, MarkRunFailed, OutcomeStands, ClaimRecoveredRun,
         JournalUnchanged, journalVars, pageVars
<1>5. CASE RecoveryStep
  <2>1. CASE RecoverQuarantine
    BY <2>1
       DEF RecoverQuarantine, QuarantineOrphans, Goto, pageVars, procVars, SettledInv,
           RunningPages
  <2>2. CASE RecoverReset
    <3>1. CASE head + 1 \in Pages /\ pageStatus[head + 1] = "running"
      <4>1. SetPage(head + 1, "pending") /\ "pending" \in PageStatuses \ {"running"}
        BY <2>2, <3>1 DEF RecoverReset, ResetInterruptedAttempt, PageStatuses
      <4>2. QED
        BY <1>1, <2>2, <4>1, EndLeavesNoneRunning, NoneRunning DEF RecoverReset, Goto
    <3>2. CASE ~(head + 1 \in Pages /\ pageStatus[head + 1] = "running")
      <4>1. RunningPages = {} /\ UNCHANGED pageStatus
        BY <1>1, <2>2, <3>2
           DEF RecoverReset, ResetInterruptedAttempt, Ledger, LedgerInvariant,
               AttemptOwnership, RunningPages
      <4>2. QED
        BY <2>2, <4>1, NoneRunning DEF RecoverReset, Goto, RunningPages
    <3>3. QED
      BY <3>1, <3>2
  <2>3. CASE RecoverFinish
    BY <1>1, <2>3, NoneStarted
       DEF RecoverFinish, FinishRecovery, MarkIntegrityFailed, AfterRecovery, Callers,
           Goto, GoIdle, FailWith, pageVars
  <2>4. CASE RequeueAndLoad
    <3>1. RunningPages' \subseteq RunningPages
      BY <1>1, <2>4
         DEF RequeueAndLoad, RequeueFailedPage, SetPage, RunningPages, JournalTypeOK,
             journalVars
    <3>2. pc' # "idle" /\ pc = "rerequeue"
      BY <2>4 DEF RequeueAndLoad, LoadCheckpoint, FailWith, ContinueFrom
    <3>3. QED
      BY <3>1, <3>2 DEF SettledInv
  <2>5. QED
    BY <1>5, <2>1, <2>2, <2>3, <2>4 DEF RecoveryStep
<1>6. CASE PrepareStep
  BY <1>1, <1>6, NoneStarted
     DEF PrepareStep, WorkerTake, LoadRun, CheckClaim, MarkRegistered, Render,
         VerifyRenders, PreparationFails, CheckPrepared, RecordRenders, StageInitial,
         PublishInitial, RecordInitial, CheckResumed, MarkResumed, EnterRunning, Goto,
         GoIdle, FailWith, CallRecovery, ContinueFrom, JournalUnchanged, MarkRunRunning,
         RecordArtifact, StageCommit, PublishCommit, RecordInitialCommit, journalVars,
         pageVars
<1>7. CASE PageStep
  <2>1. CASE NextPage \/ BeginRefused \/ Backoff \/ DropCommit
    BY <2>1, NoneStarted
       DEF NextPage, BeginRefused, Backoff, DropCommit, JournalUnchanged, QuarantineCommit,
           Goto, FailWith, ContinueFrom, journalVars, pageVars
  <2>2. CASE Begin
    BY <2>2 DEF Begin, Goto, SettledInv
  <2>3. CASE ModelAnswers \/ Materialize \/ Stage \/ Publish
    BY <2>3
       DEF ModelAnswers, Materialize, Stage, Publish, Goto, FailAttemptWith, CallRecovery,
           SettledInv
  <2>4. CASE Discard
    <3>1. SetPage(head + 1, "pending") /\ pc' # "idle"
      BY <1>2, <2>4 DEF Discard, DiscardAttempt, FailWith
    <3>2. QED
      BY <1>1, <3>1, EndLeavesNoneRunning, NoneRunning DEF PageStatuses
  <2>5. CASE FailAttempt
    <3>1. pc' # "idle" /\ \E t \in PageStatuses \ {"running"} : SetPage(head + 1, t)
      BY <1>2, <2>5
         DEF FailAttempt, DiscardAttempt, FailPageAttempt, FailWith, Goto, PageStatuses
    <3>2. QED
      BY <1>1, <3>1, EndLeavesNoneRunning, NoneRunning
  <2>6. CASE Commit
    <3>1. CASE CallRecovery("reconcile")
      BY <3>1 DEF CallRecovery, SettledInv
    <3>2. CASE pc' # "idle" /\ \E t \in {"pending", "completed"} : SetPage(head + 1, t)
      BY <1>1, <3>2, EndLeavesNoneRunning, NoneRunning DEF PageStatuses
    <3>3. QED
      BY <1>2, <2>6, <3>1, <3>2
         DEF Commit, CommitPage, DiscardAttempt, Goto, ContinueFrom
  <2>7. QED
    BY <1>7, <2>1, <2>2, <2>3, <2>4, <2>5, <2>6 DEF PageStep
<1>8. CASE FinalStep
  BY <1>8, NoneStarted
     DEF FinalStep, AuditCompletion, PrepareFinal, PrepareFinalFails, ValidateFinal,
         Finalize, ConfirmFinal, FinalizeCancelled, FinalizeRefused, DropFinal,
         JournalUnchanged, PublishFinal,
         CompleteRun, CancelFinalization, QuarantineFinal, Goto, FailWith, pageVars,
         journalVars
<1>9. CASE ClientStep
  <2>1. CASE Cancel \/ DeliverToken
    BY <1>1, <2>1
       DEF Cancel, DeliverToken, RequestCancel, JournalUnchanged, SettledInv, RunningPages,
           runVars, pageVars, journalVars
  <2>2. CASE Resume
    BY <2>2
       DEF Resume, ClaimResume, CallRecovery, SettledInv, RunningPages, pageVars
  <2>3. CASE AbandonSubmission \/ AbandonResume
    BY <1>1, <2>3, NoneStarted
       DEF AbandonSubmission, AbandonResume, MarkRunFailed, OutcomeStands, GoIdle, IntakePcs,
           StatusInv, ResumerPcs, pageVars, journalVars
  <2>4. QED
    BY <1>9, <2>1, <2>2, <2>3 DEF ClientStep
<1>10. CASE FaultStep
  <2>1. CASE CommitFault
    BY <2>1 DEF CommitFault, CallRecovery, SettledInv
  <2>2. CASE Corrupt
    BY <2>2 DEF Corrupt, SettledInv, RunningPages, journalVars, procVars
  <2>3. CASE RollBackResume \/ InitialCommitFault \/ FinalizeFault
    BY <1>1, <2>3, NoneStarted
       DEF RollBackResume, InitialCommitFault, FinalizeFault, ResumerRunning, ResumerPcs,
           RecoveryPcs, FailResumingRun, CompleteRun, JournalUnchanged, GoIdle, FailWith,
           Goto, pageVars, journalVars
  <2>4. QED
    BY <1>10, <2>1, <2>2, <2>3 DEF FaultStep
<1>11. CASE Crash
  BY <1>11 DEF Crash, SettledInv
<1>12. CASE Restart
  <2>1. status = "completed" => RunningPages = {}
    <3>1. status = "completed" => head = NumPages
      BY DEF DiskInv, CompletedIsWhole, FinalOutputIntact
    <3>2. QED
      BY <1>1, <3>1, PagesAssumption
         DEF Ledger, LedgerInvariant, AttemptOwnership, RunningPages, Pages
  <2>2. QED
    BY <1>12, <2>1
       DEF Restart, Startup, AuditCompletedRun, MarkRunFailed, OutcomeStands, SettledInv,
           RunningPages, pageVars, journalVars
<1>13. QED
  BY <1>3, <1>4, <1>5, <1>6, <1>7, <1>8, <1>9, <1>10, <1>11, <1>12 DEF Next, OwnerStep

(* The worker releases a run only once it is terminal, with no page left   *)
(* running under the configuration that can resume it (_ensure_terminal,   *)
(* recover_run, rollback_abandoned_resume).                                *)
THEOREM ReleasedSettledHolds == Spec => []ReleasedSettled
<1>1. Init => SettledInv
  BY DEF Init, JournalInit, SettledInv, RunningPages
<1>2. IInv /\ LedgerInv /\ RunnerInv /\ StatusInv /\ DiskInv /\ SettledInv /\ [Next]_vars
      => SettledInv'
  BY SettledStep DEF SettledInv, RunningPages, vars, procVars, journalVars
<1>3. SettledInv => ReleasedSettled
  BY DEF SettledInv, ReleasedSettled, RunningPages, AttemptPcs
<1>4. QED
  BY <1>1, <1>2, <1>3, InvariantHolds, LedgerHolds, RunnerHolds, StatusHolds, DiskHolds, PTL
     DEF Spec

===============================================================================
