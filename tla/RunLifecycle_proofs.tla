------------------------- MODULE RunLifecycle_proofs -------------------------
(***************************************************************************)
(* Theorems about RunLifecycle, for every number of pages, every attempt   *)
(* budget and every set of faults.                                         *)
(***************************************************************************)
EXTENDS RunLifecycle, TLAPS

-----------------------------------------------------------------------------
(* Sequences of attempt statuses. *)

(* An update at any index, in the domain or not, keeps a sequence's type.  *)
LEMMA UpdateKeepsSeq ==
    ASSUME NEW S, NEW s \in Seq(S), NEW k, NEW v \in S
    PROVE  [s EXCEPT ![k] = v] \in Seq(S)
<1> DEFINE t == [s EXCEPT ![k] = v]
<1>1. Len(s) \in Nat /\ s \in [1..Len(s) -> S]
  OBVIOUS
<1>2. t \in [1..Len(s) -> S]
  BY <1>1
<1>3. QED
  BY <1>1, <1>2

LEMMA AppendKeepsSeq ==
    ASSUME NEW S, NEW s \in Seq(S), NEW v \in S
    PROVE  /\ Append(s, v) \in Seq(S)
           /\ Len(Append(s, v)) \in Nat \ {0}
  OBVIOUS

(* The attempts table keeps its type when one attempt's status is set.     *)
LEMMA SetAttemptType ==
    ASSUME attempts \in [Pages -> Seq(AttemptStatuses)],
           NEW p, NEW k, NEW s \in AttemptStatuses,
           SetAttempt(p, k, s)
    PROVE  attempts' \in [Pages -> Seq(AttemptStatuses)]
<1>1. CASE p \in Pages
  <2>1. attempts[p] \in Seq(AttemptStatuses)
    BY <1>1
  <2>2. [attempts[p] EXCEPT ![k] = s] \in Seq(AttemptStatuses)
    BY <2>1, UpdateKeepsSeq
  <2>3. attempts' = [attempts EXCEPT ![p] = [attempts[p] EXCEPT ![k] = s]]
    BY DEF SetAttempt
  <2>4. QED
    BY <1>1, <2>2, <2>3
<1>2. CASE p \notin Pages
  BY <1>2 DEF SetAttempt
<1>3. QED
  BY <1>1, <1>2

(* An active attempt names a real ordinal. *)
LEMMA ActiveOrdinal ==
    ASSUME JournalTypeOK, NEW p \in Pages, NEW k, AttemptActive(p, k)
    PROVE  k \in Nat \ {0}
<1>1. attempts[p] \in Seq(AttemptStatuses)
  BY DEF JournalTypeOK
<1>2. QED
  BY <1>1 DEF AttemptActive

-----------------------------------------------------------------------------
(* The operations of the journal preserve its type. *)

(* Operations on the row of the runs table. *)
LEMMA RunRowTypes ==
    ASSUME JournalTypeOK, UNCHANGED corrupt
    PROVE  /\ \A c \in Failures : MarkRunFailed(c) => JournalTypeOK'
           /\ \A c \in Failures : FailResumingRun(c) => JournalTypeOK'
           /\ MarkIntegrityFailed => JournalTypeOK'
           /\ RequestCancel => JournalTypeOK'
           /\ MarkRunRunning => JournalTypeOK'
           /\ ClaimRecoveredRun => JournalTypeOK'
           /\ FinishRecovery => JournalTypeOK'
           /\ CancelFinalization => JournalTypeOK'
<1> USE DEF JournalTypeOK, SetFailed, Statuses, Failures, pageVars, artifactVars
<1>1. ASSUME NEW c \in Failures, MarkRunFailed(c) PROVE JournalTypeOK'
  BY <1>1 DEF MarkRunFailed
<1>2. ASSUME NEW c \in Failures, FailResumingRun(c) PROVE JournalTypeOK'
  BY <1>2 DEF FailResumingRun
<1>3. ASSUME MarkIntegrityFailed PROVE JournalTypeOK'
  BY <1>3 DEF MarkIntegrityFailed
<1>4. ASSUME RequestCancel PROVE JournalTypeOK'
  BY <1>4 DEF RequestCancel, runVars
<1>5. ASSUME MarkRunRunning PROVE JournalTypeOK'
  BY <1>5 DEF MarkRunRunning
<1>6. ASSUME ClaimRecoveredRun PROVE JournalTypeOK'
  BY <1>6 DEF ClaimRecoveredRun
<1>7. ASSUME FinishRecovery PROVE JournalTypeOK'
  BY <1>7 DEF FinishRecovery
<1>8. ASSUME CancelFinalization PROVE JournalTypeOK'
  BY <1>8 DEF CancelFinalization
<1>9. QED
  BY <1>1, <1>2, <1>3, <1>4, <1>5, <1>6, <1>7, <1>8

(* Operations on pages, attempts and commits. *)
LEMMA PageTypes ==
    ASSUME JournalTypeOK, UNCHANGED corrupt, NEW p, NEW k
    PROVE  /\ BeginPageAttempt(p) => JournalTypeOK'
           /\ DiscardAttempt(p, k) => JournalTypeOK'
           /\ \A c, r : FailPageAttempt(p, k, c, r) /\ (r \/ c \in Failures) => JournalTypeOK'
           /\ p \in Pages /\ CommitPage(p, k) => JournalTypeOK'
           /\ RequeueFailedPage => JournalTypeOK'
           /\ RecordInitialCommit => JournalTypeOK'
           /\ ResetInterruptedAttempt => JournalTypeOK'
<1> USE DEF runVars, artifactVars
<1>1. ASSUME BeginPageAttempt(p) PROVE JournalTypeOK'
  <2>1. attempts' \in [Pages -> Seq(AttemptStatuses)]
    BY <1>1, AppendKeepsSeq DEF BeginPageAttempt, JournalTypeOK, AttemptStatuses
  <2>2. QED
    BY <1>1, <2>1 DEF BeginPageAttempt, SetPage, JournalTypeOK, PageStatuses
<1>2. ASSUME DiscardAttempt(p, k) PROVE JournalTypeOK'
  <2>1. attempts' \in [Pages -> Seq(AttemptStatuses)]
    BY <1>2, SetAttemptType DEF DiscardAttempt, JournalTypeOK, AttemptStatuses
  <2>2. QED
    BY <1>2, <2>1 DEF DiscardAttempt, SetPage, SetFailed, JournalTypeOK, PageStatuses,
                      Statuses, Failures
<1>3. ASSUME NEW c, NEW r, FailPageAttempt(p, k, c, r), r \/ c \in Failures
      PROVE  JournalTypeOK'
  <2>1. attempts' \in [Pages -> Seq(AttemptStatuses)]
    BY <1>3, SetAttemptType DEF FailPageAttempt, JournalTypeOK, AttemptStatuses
  <2>2. QED
    BY <1>3, <2>1 DEF FailPageAttempt, SetPage, SetFailed, JournalTypeOK, PageStatuses,
                      Statuses
<1>4. ASSUME p \in Pages, CommitPage(p, k) PROVE JournalTypeOK'
  <2>1. attempts' \in [Pages -> Seq(AttemptStatuses)]
    BY <1>4, SetAttemptType DEF CommitPage, JournalTypeOK, AttemptStatuses
  <2>2. k \in Nat \ {0}
    BY <1>4, ActiveOrdinal DEF CommitPage, CommitClaimValid
  <2>3. ledger' \subseteq Commits
    BY <1>4, <2>2 DEF CommitPage, JournalTypeOK, Commits
  <2>4. head' \in {NoHead} \cup (0..NumPages)
    BY <1>4, PagesAssumption DEF CommitPage, Pages
  <2>5. QED
    BY <1>4, <2>1, <2>3, <2>4 DEF CommitPage, SetPage, JournalTypeOK, PageStatuses
<1>5. ASSUME RequeueFailedPage PROVE JournalTypeOK'
  BY <1>5 DEF RequeueFailedPage, SetPage, JournalTypeOK, PageStatuses
<1>6. ASSUME RecordInitialCommit PROVE JournalTypeOK'
  BY <1>6, PagesAssumption DEF RecordInitialCommit, JournalTypeOK, Commits
<1>7. ASSUME ResetInterruptedAttempt PROVE JournalTypeOK'
  <2>1. attempts' \in [Pages -> Seq(AttemptStatuses)]
    BY <1>7, SetAttemptType DEF ResetInterruptedAttempt, JournalTypeOK, AttemptStatuses
  <2>2. QED
    BY <1>7, <2>1 DEF ResetInterruptedAttempt, SetPage, JournalTypeOK, PageStatuses
<1>8. QED
  BY <1>1, <1>2, <1>3, <1>4, <1>5, <1>6, <1>7

(* Operations on artifacts. *)
LEMMA ArtifactTypes ==
    ASSUME JournalTypeOK, UNCHANGED corrupt
    PROVE  /\ \A a \in JournaledArtifacts : RecordArtifact(a) => JournalTypeOK'
           /\ StageCommit => JournalTypeOK'
           /\ \A p, k : PublishCommit(p, k) /\ <<p, k>> \in Commits => JournalTypeOK'
           /\ \A p, k : QuarantineCommit(p, k) => JournalTypeOK'
           /\ QuarantineOrphans => JournalTypeOK'
           /\ PublishFinal => JournalTypeOK'
           /\ CompleteRun => JournalTypeOK'
           /\ QuarantineFinal => JournalTypeOK'
           /\ AuditCompletedRun => JournalTypeOK'
           /\ ClaimResume => JournalTypeOK'
<1> USE DEF JournalTypeOK, runVars, pageVars, Artifacts, JournaledArtifacts
<1>1. ASSUME NEW a \in JournaledArtifacts, RecordArtifact(a) PROVE JournalTypeOK'
  BY <1>1 DEF RecordArtifact
<1>2. ASSUME StageCommit PROVE JournalTypeOK'
  BY <1>2 DEF StageCommit
<1>3. ASSUME NEW p, NEW k, PublishCommit(p, k), <<p, k>> \in Commits PROVE JournalTypeOK'
  BY <1>3 DEF PublishCommit
<1>4. ASSUME NEW p, NEW k, QuarantineCommit(p, k) PROVE JournalTypeOK'
  BY <1>4 DEF QuarantineCommit
<1>5. ASSUME QuarantineOrphans PROVE JournalTypeOK'
  BY <1>5 DEF QuarantineOrphans
<1>6. ASSUME PublishFinal PROVE JournalTypeOK'
  BY <1>6 DEF PublishFinal
<1>7. ASSUME CompleteRun PROVE JournalTypeOK'
  BY <1>7 DEF CompleteRun, Statuses, Failures
<1>8. ASSUME QuarantineFinal PROVE JournalTypeOK'
  BY <1>8 DEF QuarantineFinal
<1>9. ASSUME AuditCompletedRun PROVE JournalTypeOK'
  BY <1>9 DEF AuditCompletedRun, SetFailed, Statuses, Failures
<1>10. ASSUME ClaimResume PROVE JournalTypeOK'
  BY <1>10 DEF ClaimResume, Statuses, Failures
<1>11. QED
  BY <1>1, <1>2, <1>3, <1>4, <1>5, <1>6, <1>7, <1>8, <1>9, <1>10

-----------------------------------------------------------------------------
(* The inductive invariant of type correctness.  TypeOK alone is not       *)
(* inductive: what a step writes depends on where the owner came from.  A  *)
(* class is recorded only where it is a failure class, the runner names a  *)
(* page only while one is left, and recovery returns a checkpoint to a     *)
(* worker only once the run has one.                                       *)

HoldsPage == {"begin", "model", "materialize", "stage", "publish", "commit",
              "failAttempt", "discard", "dropCommit"}
RecoveringFor(who) == pc \in RecoveryPcs \cup {"rerequeue"} /\ caller = who

ControlInv ==
    /\ pc = "failRun" => outcome \in {"cancelled", "integrity", "other"}
    /\ pc = "failAttempt" => outcome \in {"retry", "integrity", "other"}
    /\ pc = "refail" \/ RecoveringFor("startupFailed") => outcome \in Failures
    /\ pc \in HoldsPage \/ RecoveringFor("reconcile") => Page \in Pages
    /\ pc \in HoldsPage \ {"begin"} => head # NoHead
    /\ RecoveringFor("worker") \/ RecoveringFor("reconcile") => head # NoHead
    /\ pc = "rerequeue" => caller \in {"worker", "reconcile"}

IInv == TypeOK /\ ControlInv

LEMMA UnchangedTypes ==
    ASSUME JournalTypeOK, UNCHANGED <<journalVars, corrupt>>
    PROVE  JournalTypeOK'
  BY DEF JournalTypeOK, journalVars

(* What a worker adopts from an audited checkpoint is a recorded commit.   *)
LEMMA CheckpointTypes ==
    ASSUME JournalTypeOK, AuditOk, head # NoHead
    PROVE  /\ CheckpointCommit \in Commits
           /\ NextAttempt(head) \in Nat \ {0}
<1>1. head \in 0..NumPages
  BY DEF JournalTypeOK
<1>2. \E c \in ledger : c[1] = head
  BY <1>1 DEF AuditOk, NoIssues, LedgerIsPrefix
<1>3. CheckpointCommit \in Commits
  BY <1>2 DEF CheckpointCommit, JournalTypeOK
<1>4. NextAttempt(head) \in Nat \ {0}
  <2>1. CASE head < NumPages
    <3>1. head + 1 \in Pages
      BY <1>1, <2>1, PagesAssumption DEF Pages
    <3>2. attempts[head + 1] \in Seq(AttemptStatuses)
      BY <3>1 DEF JournalTypeOK
    <3>3. QED
      BY <2>1, <3>2 DEF NextAttempt
  <2>2. CASE ~(head < NumPages)
    BY <2>2 DEF NextAttempt
  <2>3. QED
    BY <2>1, <2>2
<1>5. QED
  BY <1>3, <1>4

(* The runner's page exists as long as one is left. *)
LEMMA PageLeft ==
    ASSUME base \in Commits
    PROVE  /\ base[1] \in 0..NumPages
           /\ ~AllPagesDone => Page \in Pages
  BY PagesAssumption DEF Commits, InitialCommit, Pages, AllPagesDone, Page

LEMMA OrdinalsTyped ==
    ASSUME JournalTypeOK, NEW p \in Pages, BeginPageAttempt(p)
    PROVE  Len(attempts'[p]) \in Nat \ {0}
<1>1. attempts[p] \in Seq(AttemptStatuses) /\ "running" \in AttemptStatuses
  BY DEF JournalTypeOK, AttemptStatuses
<1>2. attempts'[p] = Append(attempts[p], "running")
  BY DEF BeginPageAttempt, JournalTypeOK
<1>3. QED
  BY <1>1, <1>2, AppendKeepsSeq

-----------------------------------------------------------------------------
(* Control moves: each keeps the inductive invariant where its target is   *)
(* one ControlInv allows, whatever the journal operation beside it did.    *)

(* Program counters at which ControlInv asks for nothing. *)
PlainPcs == Pcs \ (HoldsPage \cup RecoveryPcs \cup {"failRun", "refail", "rerequeue"})

ProcTypeOK ==
    /\ pc \in Pcs
    /\ resuming \in BOOLEAN
    /\ caller \in Callers
    /\ token \in BOOLEAN
    /\ lateToken \in BOOLEAN
    /\ base \in Commits
    /\ attemptNo \in Nat \ {0}
    /\ outcome \in Outcomes
    /\ seenStatus \in Statuses
    /\ sameConfig \in BOOLEAN

LEMMA SplitTypes == TypeOK <=> JournalTypeOK /\ ProcTypeOK
  BY DEF TypeOK, ProcTypeOK

LEMMA PlainMove ==
    ASSUME JournalTypeOK', ProcTypeOK', pc' \in PlainPcs
    PROVE  IInv'
<1>1. ControlInv'
  BY DEF PlainPcs, ControlInv, RecoveringFor, HoldsPage
<1>2. QED
  BY <1>1, SplitTypes DEF IInv, TypeOK, ProcTypeOK

LEMMA GotoPlain ==
    ASSUME IInv, JournalTypeOK', NEW next \in PlainPcs, Goto(next)
    PROVE  IInv'
<1>1. ProcTypeOK /\ pc' \in Pcs
  BY SplitTypes DEF IInv, Goto, PlainPcs
<1>2. ProcTypeOK'
  BY <1>1 DEF ProcTypeOK, Goto, procVars
<1>3. QED
  BY <1>2, PlainMove DEF Goto

LEMMA ForgetTypes ==
    ASSUME ForgetLocals
    PROVE  /\ resuming' \in BOOLEAN /\ caller' \in Callers /\ token' \in BOOLEAN
           /\ base' \in Commits /\ attemptNo' \in Nat \ {0}
           /\ outcome' \in Outcomes /\ seenStatus' \in Statuses
<1>1. base' \in Commits /\ attemptNo' \in Nat \ {0}
  BY DEF ForgetLocals, Commits
<1>2. resuming' \in BOOLEAN /\ token' \in BOOLEAN
  BY DEF ForgetLocals
<1>3. QED
  BY <1>1, <1>2 DEF ForgetLocals, Callers, Outcomes, Statuses

LEMMA IdleMove ==
    ASSUME IInv, JournalTypeOK', GoIdle
    PROVE  IInv'
<1>1. ProcTypeOK
  BY SplitTypes DEF IInv
<1>2. pc' \in Pcs /\ pc' \in PlainPcs
  BY DEF GoIdle, PlainPcs, Pcs, HoldsPage, RecoveryPcs
<1>3. ProcTypeOK'
  BY <1>1, <1>2, ForgetTypes DEF ProcTypeOK, GoIdle
<1>4. QED
  BY <1>2, <1>3, PlainMove

LEMMA EnqueueMove ==
    ASSUME IInv, JournalTypeOK', NEW r \in BOOLEAN, Enqueue(r)
    PROVE  IInv'
<1>1. ProcTypeOK
  BY SplitTypes DEF IInv
<1>2. pc' \in Pcs /\ pc' \in PlainPcs
  BY DEF Enqueue, PlainPcs, Pcs, HoldsPage, RecoveryPcs
<1>3. ProcTypeOK'
  BY <1>1, <1>2 DEF ProcTypeOK, Enqueue, Callers
<1>4. QED
  BY <1>2, <1>3, PlainMove

LEMMA ContinueMove ==
    ASSUME IInv, JournalTypeOK', NEW next \in PlainPcs, NEW c \in Commits,
           NEW n \in Nat \ {0}, ContinueFrom(next, c, n)
    PROVE  IInv'
<1>1. ProcTypeOK /\ pc' \in Pcs /\ pc' \in PlainPcs
  BY SplitTypes DEF IInv, ContinueFrom, PlainPcs
<1>2. ProcTypeOK'
  BY <1>1 DEF ProcTypeOK, ContinueFrom
<1>3. QED
  BY <1>1, <1>2, PlainMove

LEMMA FailMove ==
    ASSUME IInv, JournalTypeOK', NEW class \in {"cancelled", "integrity", "other"},
           FailWith(class)
    PROVE  IInv'
<1>1. ProcTypeOK
  BY SplitTypes DEF IInv
<1>2. pc' = "failRun" /\ pc' \in Pcs
  BY DEF FailWith, Pcs, SettlePcs
<1>3. ProcTypeOK'
  BY <1>1, <1>2 DEF ProcTypeOK, FailWith, Outcomes
<1>4. ControlInv'
  BY <1>2 DEF ControlInv, FailWith, RecoveringFor, HoldsPage, RecoveryPcs
<1>5. QED
  BY <1>3, <1>4, SplitTypes DEF IInv, TypeOK, ProcTypeOK

LEMMA HoldMove ==
    ASSUME IInv, JournalTypeOK', NEW next \in HoldsPage \ {"failAttempt"}, Goto(next),
           Page \in Pages, next = "begin" \/ head' # NoHead
    PROVE  IInv'
<1>1. ProcTypeOK
  BY SplitTypes DEF IInv
<1>2. pc' \in Pcs /\ pc' = next
  BY DEF Goto, Pcs, HoldsPage, PagePcs, SettlePcs
<1>3. ProcTypeOK'
  BY <1>1, <1>2 DEF ProcTypeOK, Goto, procVars
<1>4. ControlInv'
  BY <1>2 DEF ControlInv, Goto, procVars, RecoveringFor, HoldsPage, RecoveryPcs, Page
<1>5. QED
  BY <1>3, <1>4, SplitTypes DEF IInv, TypeOK, ProcTypeOK

LEMMA FailAttemptMove ==
    ASSUME IInv, JournalTypeOK', NEW class \in {"retry", "integrity", "other"},
           FailAttemptWith(class), Page \in Pages, head' # NoHead
    PROVE  IInv'
<1>1. ProcTypeOK
  BY SplitTypes DEF IInv
<1>2. pc' \in Pcs /\ pc' = "failAttempt"
  BY DEF FailAttemptWith, Pcs, SettlePcs
<1>3. ProcTypeOK'
  BY <1>1, <1>2 DEF ProcTypeOK, FailAttemptWith, Outcomes
<1>4. ControlInv'
  BY <1>2 DEF ControlInv, FailAttemptWith, RecoveringFor, HoldsPage, RecoveryPcs, Page
<1>5. QED
  BY <1>3, <1>4, SplitTypes DEF IInv, TypeOK, ProcTypeOK

LEMMA CallMove ==
    ASSUME IInv, JournalTypeOK', NEW who \in {"resumer", "worker", "reconcile"},
           CallRecovery(who), who = "resumer" \/ head' # NoHead,
           who = "reconcile" => Page \in Pages
    PROVE  IInv'
<1>1. ProcTypeOK
  BY SplitTypes DEF IInv
<1>2. pc' \in Pcs /\ pc' = "quarantine" /\ caller' = who
  BY DEF CallRecovery, Pcs, RecoveryPcs
<1>3. ProcTypeOK'
  BY <1>1, <1>2 DEF ProcTypeOK, CallRecovery, Callers
<1>4. ControlInv'
  BY <1>2 DEF ControlInv, CallRecovery, RecoveringFor, HoldsPage, RecoveryPcs, Page
<1>5. QED
  BY <1>3, <1>4, SplitTypes DEF IInv, TypeOK, ProcTypeOK

LEMMA StartupMove ==
    ASSUME IInv, JournalTypeOK', NEW who \in {"startup", "startupFailed"},
           NEW class \in Failures, Startup(who, class), sameConfig' \in BOOLEAN
    PROVE  IInv'
<1>1. ProcTypeOK
  BY SplitTypes DEF IInv
<1>2. pc' \in Pcs /\ pc' = "quarantine" /\ caller' = who
  BY DEF Startup, Pcs, RecoveryPcs
<1>3. ProcTypeOK'
  BY <1>1, <1>2 DEF ProcTypeOK, Startup, Callers, Failures, Outcomes
<1>4. ControlInv'
  BY <1>2 DEF ControlInv, Startup, RecoveringFor, HoldsPage, RecoveryPcs
<1>5. QED
  BY <1>3, <1>4, SplitTypes DEF IInv, TypeOK, ProcTypeOK

(* Recovery goes on, and returns to the caller that asked for it. *)
LEMMA RecoveryMove ==
    ASSUME IInv, JournalTypeOK', pc \in RecoveryPcs, UNCHANGED head,
           NEW next \in RecoveryPcs \cup {AfterRecovery}, Goto(next)
    PROVE  IInv'
<1>1. ProcTypeOK /\ ControlInv
  BY SplitTypes DEF IInv
<1>2. AfterRecovery \in {"claim", "refail", "recheck", "rerequeue"}
  BY <1>1 DEF AfterRecovery, ProcTypeOK, Callers
<1>3. pc' \in Pcs /\ pc' = next
  BY <1>2 DEF Goto, Pcs, RecoveryPcs, StartupPcs, ResumerPcs, PreparePcs
<1>4. ProcTypeOK'
  BY <1>1, <1>3 DEF ProcTypeOK, Goto, procVars
<1>5. CASE next \in RecoveryPcs
  <2>1. ControlInv'
    BY <1>1, <1>3, <1>5 DEF ControlInv, Goto, procVars, RecoveringFor, HoldsPage,
                            RecoveryPcs, Page
  <2>2. QED
    BY <1>4, <2>1, SplitTypes DEF IInv, TypeOK, ProcTypeOK
<1>6. CASE next = AfterRecovery
  <2>1. next = "rerequeue" => caller \in {"worker", "reconcile"}
    BY <1>1, <1>6 DEF AfterRecovery, ProcTypeOK, Callers
  <2>2. next = "refail" => caller = "startupFailed"
    BY <1>1, <1>6 DEF AfterRecovery, ProcTypeOK, Callers
  <2>3. ControlInv'
    BY <1>1, <1>2, <1>3, <1>6, <2>1, <2>2
       DEF ControlInv, Goto, procVars, RecoveringFor, HoldsPage, RecoveryPcs, Page
  <2>4. QED
    BY <1>4, <2>3, SplitTypes DEF IInv, TypeOK, ProcTypeOK
<1>7. QED
  BY <1>5, <1>6

-----------------------------------------------------------------------------
(* failed_result and the end of the worker's item.                         *)
LEMMA SettlePreserves ==
    ASSUME IInv, SettleStep
    PROVE  IInv'
<1> JournalTypeOK /\ base \in Commits
  BY DEF IInv, TypeOK
<1>1. CASE FailRun
  <2>1. JournalTypeOK'
    BY <1>1, RunRowTypes DEF FailRun, IInv, TypeOK, ControlInv, Failures
  <2>2. QED
    BY <1>1, <2>1, GotoPlain DEF FailRun, PlainPcs, Pcs, SettlePcs, HoldsPage, RecoveryPcs
<1>2. CASE Release
  <2>1. JournalTypeOK'
    BY <1>2, RunRowTypes, UnchangedTypes DEF Release, Failures
  <2>2. QED
    BY <1>2, <2>1, IdleMove DEF Release
<1>3. QED
  BY <1>1, <1>2 DEF SettleStep

(* Intake, the preparation of a resume and the end of startup recovery.    *)
LEMMA ResumePreserves ==
    ASSUME IInv, ResumerStep \/ IntakeStep \/ StartupStep
    PROVE  IInv'
<1> JournalTypeOK /\ base \in Commits
  BY DEF IInv, TypeOK
<1>1. CASE Register
  <2>1. JournalTypeOK'
    BY <1>1, ArtifactTypes DEF Register, JournaledArtifacts
  <2>2. QED
    BY <1>1, <2>1, GotoPlain DEF Register, PlainPcs, Pcs, IntakePcs, HoldsPage, RecoveryPcs
<1>2. CASE Accept
  <2>1. JournalTypeOK'
    BY <1>2, UnchangedTypes DEF Accept, JournalUnchanged
  <2>2. QED
    BY <1>2, <2>1, EnqueueMove DEF Accept
<1>3. CASE RecheckClaim
  <2>1. JournalTypeOK'
    BY <1>3, RunRowTypes, UnchangedTypes DEF RecheckClaim, Failures
  <2>2. QED
    BY <1>3, <2>1, IdleMove, GotoPlain DEF RecheckClaim, PlainPcs, Pcs, ResumerPcs, HoldsPage, RecoveryPcs
<1>4. CASE RequeueForResume
  <2>1. JournalTypeOK'
    BY <1>4, PageTypes DEF RequeueForResume
  <2>2. QED
    BY <1>4, <2>1, GotoPlain DEF RequeueForResume, PlainPcs, Pcs, ResumerPcs, HoldsPage, RecoveryPcs
<1>5. CASE EnqueueResumed
  <2>1. JournalTypeOK'
    BY <1>5, UnchangedTypes DEF EnqueueResumed, JournalUnchanged
  <2>2. QED
    BY <1>5, <2>1, EnqueueMove DEF EnqueueResumed
<1>6. CASE StartupRefail
  <2>1. JournalTypeOK'
    BY <1>6, RunRowTypes DEF StartupRefail, IInv, TypeOK, ControlInv, Failures
  <2>2. QED
    BY <1>6, <2>1, IdleMove DEF StartupRefail
<1>7. CASE StartupClaim
  <2>1. JournalTypeOK'
    BY <1>7, RunRowTypes, UnchangedTypes DEF StartupClaim, Failures
  <2>2. QED
    BY <1>7, <2>1, IdleMove, EnqueueMove DEF StartupClaim
<1>8. QED
  BY <1>1, <1>2, <1>3, <1>4, <1>5, <1>6, <1>7 DEF ResumerStep, IntakeStep, StartupStep

(* recover_run and the load of its checkpoint.                             *)
LEMMA RecoveryPreserves ==
    ASSUME IInv, RecoveryStep
    PROVE  IInv'
<1> JournalTypeOK /\ base \in Commits
  BY DEF IInv, TypeOK
<1>1. CASE RecoverQuarantine
  <2>1. JournalTypeOK'
    BY <1>1, ArtifactTypes DEF RecoverQuarantine
  <2>2. QED
    BY <1>1, <2>1, RecoveryMove DEF RecoverQuarantine, RecoveryPcs, QuarantineOrphans, pageVars
<1>2. CASE RecoverReset
  <2>1. JournalTypeOK'
    BY <1>2, PageTypes DEF RecoverReset
  <2>2. QED
    BY <1>2, <2>1, RecoveryMove DEF RecoverReset, RecoveryPcs, ResetInterruptedAttempt
<1>3. CASE RecoverFinish
  <2>1. JournalTypeOK'
    BY <1>3, RunRowTypes DEF RecoverFinish
  <2>2. QED
    BY <1>3, <2>1, RecoveryMove, FailMove, IdleMove DEF RecoverFinish, RecoveryPcs, FinishRecovery, pageVars
<1>4. CASE RequeueAndLoad
  <2>1. JournalTypeOK'
    BY <1>4, PageTypes, UnchangedTypes DEF RequeueAndLoad
  <2>2. head # NoHead /\ (caller = "reconcile" => Page \in Pages)
    BY <1>4 DEF RequeueAndLoad, IInv, ControlInv, RecoveringFor
  <2>3. "page" \in PlainPcs /\ "remark" \in PlainPcs
    BY DEF PlainPcs, Pcs, PreparePcs, PagePcs, HoldsPage, RecoveryPcs
  <2>4. caller = "reconcile" => <<Page, attemptNo>> \in Commits
    BY <2>2 DEF IInv, TypeOK, Commits
  <2>5. QED
    BY <1>4, <2>1, <2>2, <2>3, <2>4, CheckpointTypes, FailMove, ContinueMove
       DEF RequeueAndLoad, LoadCheckpoint
<1>5. QED
  BY <1>1, <1>2, <1>3, <1>4 DEF RecoveryStep

(* From the queue to the page loop.                                        *)
LEMMA PreparePreserves ==
    ASSUME IInv, PrepareStep
    PROVE  IInv'
<1> JournalTypeOK /\ base \in Commits
  BY DEF IInv, TypeOK
<1>1. CASE WorkerTake
  <2>1. JournalTypeOK'
    BY <1>1, UnchangedTypes DEF WorkerTake, JournalUnchanged
  <2>2. QED
    BY <1>1, <2>1, IdleMove, GotoPlain DEF WorkerTake, PlainPcs, Pcs, PreparePcs, HoldsPage, RecoveryPcs
<1>2. CASE LoadRun
  <2>1. JournalTypeOK'
    BY <1>2, UnchangedTypes DEF LoadRun, JournalUnchanged
  <2>2. pc' \in Pcs /\ pc' \in PlainPcs
    BY <1>2 DEF LoadRun, Pcs, PreparePcs, PlainPcs, HoldsPage, RecoveryPcs
  <2>3. ProcTypeOK'
    BY <1>2, <2>2, SplitTypes DEF LoadRun, IInv, ProcTypeOK, JournalTypeOK
  <2>4. QED
    BY <2>1, <2>2, <2>3, PlainMove
<1>3. CASE CheckClaim
  <2>1. JournalTypeOK'
    BY <1>3, UnchangedTypes DEF CheckClaim, JournalUnchanged
  <2>2. QED
    BY <1>3, <2>1, FailMove, GotoPlain DEF CheckClaim, PlainPcs, Pcs, PreparePcs, HoldsPage, RecoveryPcs
<1>4. CASE MarkRegistered
  <2>1. JournalTypeOK'
    BY <1>4, RunRowTypes, UnchangedTypes DEF MarkRegistered, EnterRunning
  <2>2. QED
    BY <1>4, <2>1, FailMove, GotoPlain DEF MarkRegistered, EnterRunning, PlainPcs, Pcs, PreparePcs, HoldsPage, RecoveryPcs
<1>5. CASE Render
  <2>1. JournalTypeOK'
    BY <1>5 DEF Render, JournalTypeOK, Artifacts, JournaledArtifacts, runVars, pageVars
  <2>2. QED
    BY <1>5, <2>1, GotoPlain DEF Render, PlainPcs, Pcs, PreparePcs, HoldsPage, RecoveryPcs
<1>6. CASE VerifyRenders
  <2>1. JournalTypeOK'
    BY <1>6, UnchangedTypes DEF VerifyRenders, JournalUnchanged
  <2>2. QED
    BY <1>6, <2>1, GotoPlain DEF VerifyRenders, PlainPcs, Pcs, PreparePcs, HoldsPage, RecoveryPcs
<1>7. CASE PreparationFails
  <2>1. JournalTypeOK'
    BY <1>7 DEF PreparationFails, JournalTypeOK, Artifacts, JournaledArtifacts, runVars, pageVars
  <2>2. QED
    BY <1>7, <2>1, FailMove DEF PreparationFails
<1>8. CASE CheckPrepared
  <2>1. JournalTypeOK'
    BY <1>8, UnchangedTypes DEF CheckPrepared, JournalUnchanged
  <2>2. QED
    BY <1>8, <2>1, FailMove, GotoPlain, CallMove DEF CheckPrepared, PlainPcs, Pcs, PreparePcs, HoldsPage, RecoveryPcs, JournalUnchanged, journalVars
<1>9. CASE RecordRenders
  <2>1. JournalTypeOK'
    BY <1>9, ArtifactTypes DEF RecordRenders, JournaledArtifacts
  <2>2. QED
    BY <1>9, <2>1, GotoPlain DEF RecordRenders, PlainPcs, Pcs, PreparePcs, HoldsPage, RecoveryPcs
<1>10. CASE StageInitial
  <2>1. JournalTypeOK'
    BY <1>10, ArtifactTypes DEF StageInitial
  <2>2. QED
    BY <1>10, <2>1, GotoPlain DEF StageInitial, PlainPcs, Pcs, PreparePcs, HoldsPage, RecoveryPcs
<1>11. CASE PublishInitial
  <2>1. JournalTypeOK'
    BY <1>11, ArtifactTypes, UnchangedTypes DEF PublishInitial, Commits, InitialCommit
  <2>2. QED
    BY <1>11, <2>1, FailMove, GotoPlain DEF PublishInitial, PlainPcs, Pcs, PreparePcs, HoldsPage, RecoveryPcs
<1>12. CASE RecordInitial
  <2>1. JournalTypeOK'
    BY <1>12, PageTypes DEF RecordInitial
  <2>2. QED
    BY <1>12, <2>1, FailMove, ContinueMove DEF RecordInitial, PlainPcs, Pcs, PreparePcs, PagePcs, HoldsPage, RecoveryPcs, Commits
<1>13. CASE CheckResumed
  <2>1. JournalTypeOK'
    BY <1>13, UnchangedTypes DEF CheckResumed, JournalUnchanged
  <2>2. QED
    BY <1>13, <2>1, FailMove DEF CheckResumed
<1>14. CASE MarkResumed
  <2>1. JournalTypeOK'
    BY <1>14, RunRowTypes, UnchangedTypes DEF MarkResumed, EnterRunning
  <2>2. QED
    BY <1>14, <2>1, FailMove, GotoPlain DEF MarkResumed, EnterRunning, PlainPcs, Pcs, PagePcs, HoldsPage, RecoveryPcs
<1>15. QED
  BY <1>1, <1>2, <1>3, <1>4, <1>5, <1>6, <1>7, <1>8, <1>9, <1>10, <1>11, <1>12, <1>13, <1>14 DEF PrepareStep

(* The page loop and the attempts of a page.                               *)
LEMMA PagePreserves ==
    ASSUME IInv, PageStep
    PROVE  IInv'
<1> JournalTypeOK /\ base \in Commits
  BY DEF IInv, TypeOK
<1>1. CASE NextPage
  <2>1. JournalTypeOK'
    BY <1>1, UnchangedTypes DEF NextPage, JournalUnchanged
  <2>2. QED
    BY <1>1, <2>1, FailMove, GotoPlain, HoldMove, PageLeft DEF NextPage, PlainPcs, Pcs, FinalPcs, HoldsPage, RecoveryPcs
<1>2. CASE Begin
  <2>1. JournalTypeOK'
    BY <1>2, PageTypes DEF Begin
  <2>2. Page \in Pages /\ head # NoHead /\ head' = head
    BY <1>2 DEF Begin, IInv, ControlInv, HoldsPage, BeginPageAttempt, CanBegin
  <2>3. Len(attempts'[Page]) \in Nat \ {0}
    BY <1>2, <2>2, OrdinalsTyped DEF Begin
  <2>4. CASE Len(attempts'[Page]) = attemptNo
    BY <1>2, <2>1, <2>2, <2>4, HoldMove DEF Begin, HoldsPage
  <2>5. CASE Len(attempts'[Page]) # attemptNo
    <3>1. pc' = "failAttempt" /\ pc' \in Pcs /\ outcome' = "integrity"
      BY <1>2, <2>5 DEF Begin, Pcs, SettlePcs
    <3>2. ProcTypeOK'
      BY <1>2, <2>3, <2>5, <3>1, SplitTypes DEF Begin, IInv, ProcTypeOK, Outcomes
    <3>3. ControlInv'
      BY <1>2, <2>2, <2>5, <3>1
         DEF Begin, ControlInv, RecoveringFor, HoldsPage, RecoveryPcs, Page
    <3>4. QED
      BY <2>1, <3>2, <3>3, SplitTypes DEF IInv, TypeOK, ProcTypeOK
  <2>6. QED
    BY <2>4, <2>5
<1>3. CASE BeginRefused
  <2>1. JournalTypeOK'
    BY <1>3, UnchangedTypes DEF BeginRefused, JournalUnchanged
  <2>2. QED
    BY <1>3, <2>1, FailMove DEF BeginRefused
<1>4. CASE ModelAnswers
  <2>1. Page \in Pages /\ head # NoHead
    BY <1>4 DEF ModelAnswers, IInv, ControlInv, HoldsPage
  <2>2. JournalTypeOK'
    BY <1>4, <2>1, UnchangedTypes DEF ModelAnswers, JournalUnchanged
  <2>3. QED
    BY <1>4, <2>1, <2>2, HoldMove, FailAttemptMove DEF ModelAnswers, JournalUnchanged, journalVars, HoldsPage
<1>5. CASE Materialize
  <2>1. Page \in Pages /\ head # NoHead
    BY <1>5 DEF Materialize, IInv, ControlInv, HoldsPage
  <2>2. JournalTypeOK'
    BY <1>5, <2>1, UnchangedTypes DEF Materialize, JournalUnchanged
  <2>3. QED
    BY <1>5, <2>1, <2>2, HoldMove, FailAttemptMove DEF Materialize, JournalUnchanged, journalVars, HoldsPage
<1>6. CASE Discard
  <2>1. JournalTypeOK'
    BY <1>6, PageTypes DEF Discard
  <2>2. QED
    BY <1>6, <2>1, FailMove DEF Discard
<1>7. CASE FailAttempt
  <2>1. JournalTypeOK'
    BY <1>7, PageTypes DEF FailAttempt, IInv, TypeOK, ControlInv, Failures
  <2>2. CASE outcome = "retry" \/ cancelRequested
    BY <1>7, <2>1, <2>2, FailMove, GotoPlain
       DEF FailAttempt, FailPageAttempt, PlainPcs, Pcs, SettlePcs, HoldsPage, RecoveryPcs
  <2>3. CASE outcome # "retry" /\ ~cancelRequested
    <3>1. Goto("failRun") /\ outcome \in {"cancelled", "integrity", "other"}
      BY <1>7, <2>3 DEF FailAttempt, IInv, ControlInv
    <3>2. FailWith(outcome)
      BY <3>1 DEF Goto, FailWith, procVars
    <3>3. QED
      BY <2>1, <3>1, <3>2, FailMove
  <2>4. QED
    BY <2>2, <2>3
<1>8. CASE Backoff
  <2>1. JournalTypeOK'
    BY <1>8, UnchangedTypes DEF Backoff, JournalUnchanged
  <2>2. QED
    BY <1>8, <2>1, FailMove, ContinueMove DEF Backoff, PlainPcs, Pcs, PagePcs, HoldsPage, RecoveryPcs, IInv, TypeOK
<1>9. CASE Stage
  <2>1. Page \in Pages /\ head # NoHead
    BY <1>9 DEF Stage, IInv, ControlInv, HoldsPage
  <2>2. JournalTypeOK'
    BY <1>9, <2>1, ArtifactTypes DEF Stage
  <2>3. QED
    BY <1>9, <2>1, <2>2, HoldMove DEF Stage, StageCommit, pageVars, HoldsPage
<1>10. CASE Publish
  <2>1. Page \in Pages /\ head # NoHead
    BY <1>10 DEF Publish, IInv, ControlInv, HoldsPage
  <2>2. JournalTypeOK'
    BY <1>10, <2>1, ArtifactTypes, UnchangedTypes DEF Publish, Commits, IInv, TypeOK
  <2>3. QED
    BY <1>10, <2>1, <2>2, HoldMove, CallMove DEF Publish, PublishCommit, pageVars, journalVars, HoldsPage
<1>11. CASE Commit
  <2>1. Page \in Pages /\ head # NoHead
    BY <1>11 DEF Commit, IInv, ControlInv, HoldsPage
  <2>2. JournalTypeOK'
    BY <1>11, <2>1, PageTypes, UnchangedTypes DEF Commit
  <2>3. attemptNo \in Nat \ {0} /\ <<Page, attemptNo>> \in Commits
    BY <2>1 DEF IInv, TypeOK, Commits
  <2>4. head' # NoHead
    BY <1>11, <2>1
       DEF Commit, CommitPage, DiscardAttempt, NoHead, Pages, journalVars
  <2>5. QED
    BY <1>11, <2>1, <2>2, <2>3, <2>4, CallMove, HoldMove, ContinueMove
       DEF Commit, PlainPcs, Pcs, PagePcs, HoldsPage, RecoveryPcs
<1>12. CASE DropCommit
  <2>1. JournalTypeOK'
    BY <1>12, ArtifactTypes DEF DropCommit
  <2>2. QED
    BY <1>12, <2>1, FailMove DEF DropCommit
<1>13. QED
  BY <1>1, <1>2, <1>3, <1>4, <1>5, <1>6, <1>7, <1>8, <1>9, <1>10, <1>11, <1>12 DEF PageStep

(* Final publication.                                                      *)
LEMMA FinalPreserves ==
    ASSUME IInv, FinalStep
    PROVE  IInv'
<1> JournalTypeOK /\ base \in Commits
  BY DEF IInv, TypeOK
<1>1. CASE AuditCompletion
  <2>1. JournalTypeOK'
    BY <1>1, UnchangedTypes DEF AuditCompletion, JournalUnchanged
  <2>2. QED
    BY <1>1, <2>1, FailMove, GotoPlain DEF AuditCompletion, PlainPcs, Pcs, FinalPcs, HoldsPage, RecoveryPcs
<1>2. CASE PrepareFinal
  <2>1. JournalTypeOK'
    BY <1>2, ArtifactTypes DEF PrepareFinal
  <2>2. QED
    BY <1>2, <2>1, GotoPlain DEF PrepareFinal, PlainPcs, Pcs, FinalPcs, HoldsPage, RecoveryPcs
<1>3. CASE PrepareFinalFails
  <2>1. JournalTypeOK'
    BY <1>3, UnchangedTypes DEF PrepareFinalFails, JournalUnchanged
  <2>2. QED
    BY <1>3, <2>1, FailMove DEF PrepareFinalFails
<1>4. CASE Finalize
  <2>1. JournalTypeOK'
    BY <1>4, ArtifactTypes DEF Finalize
  <2>2. QED
    BY <1>4, <2>1, GotoPlain DEF Finalize, PlainPcs, Pcs, FinalPcs, HoldsPage, RecoveryPcs
<1>5. CASE FinalizeCancelled
  <2>1. JournalTypeOK'
    BY <1>5, RunRowTypes DEF FinalizeCancelled
  <2>2. QED
    BY <1>5, <2>1, GotoPlain DEF FinalizeCancelled, PlainPcs, Pcs, FinalPcs, HoldsPage, RecoveryPcs
<1>6. CASE FinalizeRefused
  <2>1. JournalTypeOK'
    BY <1>6, UnchangedTypes DEF FinalizeRefused, JournalUnchanged
  <2>2. QED
    BY <1>6, <2>1, FailMove DEF FinalizeRefused
<1>7. CASE DropFinal
  <2>1. JournalTypeOK'
    BY <1>7, ArtifactTypes DEF DropFinal
  <2>2. QED
    BY <1>7, <2>1, FailMove DEF DropFinal
<1>8. CASE ValidateFinal
  <2>1. JournalTypeOK'
    BY <1>8, UnchangedTypes DEF ValidateFinal, JournalUnchanged
  <2>2. QED
    BY <1>8, <2>1, GotoPlain DEF ValidateFinal, PlainPcs, Pcs, FinalPcs, HoldsPage, RecoveryPcs
<1>9. CASE ConfirmFinal
  <2>1. JournalTypeOK'
    BY <1>9, UnchangedTypes DEF ConfirmFinal, JournalUnchanged
  <2>2. QED
    BY <1>9, <2>1, FailMove, GotoPlain
       DEF ConfirmFinal, PlainPcs, Pcs, SettlePcs, HoldsPage, RecoveryPcs
<1>10. QED
  BY <1>1, <1>2, <1>3, <1>4, <1>5, <1>6, <1>7, <1>8, <1>9 DEF FinalStep

(* What a client does.                                                     *)
LEMMA ClientPreserves ==
    ASSUME IInv, ClientStep
    PROVE  IInv'
<1> JournalTypeOK /\ base \in Commits
  BY DEF IInv, TypeOK
<1>1. CASE Cancel
  <2>1. JournalTypeOK'
    BY <1>1, RunRowTypes DEF Cancel
  <2>2. UNCHANGED <<pc, outcome, caller, base, head>>
    BY <1>1 DEF Cancel, RequestCancel, pageVars, JournalUnchanged, journalVars, procVars
  <2>3. ProcTypeOK'
    BY <1>1, <2>1, <2>2, SplitTypes
       DEF Cancel, IInv, ProcTypeOK, JournalTypeOK, procVars, WorkerActive
  <2>4. ControlInv'
    BY <2>2 DEF IInv, ControlInv, RecoveringFor, Page
  <2>5. QED
    BY <2>1, <2>3, <2>4, SplitTypes DEF IInv, TypeOK, ProcTypeOK
<1>2. CASE DeliverToken
  <2>1. JournalTypeOK'
    BY <1>2, UnchangedTypes DEF DeliverToken, JournalUnchanged
  <2>2. UNCHANGED <<pc, outcome, caller, base, head>>
    BY <1>2 DEF DeliverToken, RequestCancel, pageVars, JournalUnchanged, journalVars, procVars
  <2>3. ProcTypeOK'
    BY <1>2, <2>1, <2>2, SplitTypes
       DEF DeliverToken, IInv, ProcTypeOK, JournalTypeOK, procVars, WorkerActive
  <2>4. ControlInv'
    BY <2>2 DEF IInv, ControlInv, RecoveringFor, Page
  <2>5. QED
    BY <2>1, <2>3, <2>4, SplitTypes DEF IInv, TypeOK, ProcTypeOK
<1>3. CASE Resume
  <2>1. JournalTypeOK'
    BY <1>3, ArtifactTypes DEF Resume
  <2>2. QED
    BY <1>3, <2>1, CallMove DEF Resume
<1>4. CASE AbandonSubmission
  <2>1. JournalTypeOK'
    BY <1>4, RunRowTypes DEF AbandonSubmission, Failures
  <2>2. QED
    BY <1>4, <2>1, IdleMove DEF AbandonSubmission
<1>5. CASE AbandonResume
  <2>1. JournalTypeOK'
    BY <1>5, RunRowTypes, UnchangedTypes DEF AbandonResume, Failures
  <2>2. QED
    BY <1>5, <2>1, IdleMove DEF AbandonResume
<1>6. QED
  BY <1>1, <1>2, <1>3, <1>4, <1>5 DEF ClientStep

(* Faults, crashes and restarts.                                           *)
LEMMA FaultPreserves ==
    ASSUME IInv, FaultStep \/ Crash \/ Restart
    PROVE  IInv'
<1> JournalTypeOK /\ base \in Commits
  BY DEF IInv, TypeOK
<1>1. CASE RollBackResume
  <2>1. JournalTypeOK'
    BY <1>1, RunRowTypes DEF RollBackResume, Failures
  <2>2. QED
    BY <1>1, <2>1, IdleMove DEF RollBackResume
<1>2. CASE InitialCommitFault
  <2>1. JournalTypeOK'
    BY <1>2, UnchangedTypes DEF InitialCommitFault, JournalUnchanged
  <2>2. QED
    BY <1>2, <2>1, FailMove DEF InitialCommitFault
<1>3. CASE CommitFault
  <2>1. Page \in Pages /\ head # NoHead
    BY <1>3 DEF CommitFault, IInv, ControlInv, HoldsPage
  <2>2. JournalTypeOK'
    BY <1>3, <2>1, PageTypes, UnchangedTypes DEF CommitFault
  <2>3. QED
    BY <1>3, <2>1, <2>2, CallMove DEF CommitFault, CommitPage, NoHead, Pages, journalVars
<1>4. CASE FinalizeFault
  <2>1. JournalTypeOK'
    BY <1>4, ArtifactTypes, UnchangedTypes DEF FinalizeFault
  <2>2. QED
    BY <1>4, <2>1, FailMove, GotoPlain DEF FinalizeFault, PlainPcs, Pcs, FinalPcs, HoldsPage, RecoveryPcs
<1>5. CASE Corrupt
  <2>1. JournalTypeOK'
    BY <1>5 DEF Corrupt, JournalTypeOK, journalVars
  <2>2. UNCHANGED <<pc, outcome, caller, base, head>>
    BY <1>5 DEF Corrupt, RequestCancel, pageVars, JournalUnchanged, journalVars, procVars
  <2>3. ProcTypeOK'
    BY <1>5, <2>1, <2>2, SplitTypes
       DEF Corrupt, IInv, ProcTypeOK, JournalTypeOK, procVars, WorkerActive
  <2>4. ControlInv'
    BY <2>2 DEF IInv, ControlInv, RecoveringFor, Page
  <2>5. QED
    BY <2>1, <2>3, <2>4, SplitTypes DEF IInv, TypeOK, ProcTypeOK
<1>6. CASE Crash
  <2>1. JournalTypeOK'
    BY <1>6, UnchangedTypes DEF Crash, JournalUnchanged
  <2>2. pc' \in Pcs /\ pc' \in PlainPcs
    BY <1>6 DEF Crash, Pcs, PlainPcs, HoldsPage, RecoveryPcs
  <2>3. lateToken' \in BOOLEAN
    BY <1>6 DEF Crash
  <2>4. ProcTypeOK'
    BY <1>6, <2>2, <2>3, ForgetTypes, SplitTypes DEF Crash, IInv, ProcTypeOK
  <2>5. QED
    BY <2>1, <2>2, <2>4, PlainMove
<1>7. CASE Restart
  <2>1. /\ AuditCompletedRun \/ MarkRunFailed("other") \/ UNCHANGED journalVars
        /\ UNCHANGED corrupt
    BY <1>7 DEF Restart
  <2>2. "other" \in Failures
    BY DEF Failures
  <2>3. JournalTypeOK'
    BY <2>1, <2>2, ArtifactTypes, RunRowTypes, UnchangedTypes
  <2>4. sameConfig' \in BOOLEAN
    BY <1>7 DEF Restart
  <2>5. ASSUME pc' = "idle", ForgetLocals, UNCHANGED lateToken
        PROVE  IInv'
    <3>1. pc' \in Pcs /\ pc' \in PlainPcs
      BY <2>5 DEF Pcs, PlainPcs, HoldsPage, RecoveryPcs
    <3>2. ProcTypeOK'
      BY <2>4, <2>5, <3>1, ForgetTypes, SplitTypes DEF IInv, ProcTypeOK
    <3>3. QED
      BY <2>3, <3>1, <3>2, PlainMove
  <2>6. failure \in Failures
    BY DEF JournalTypeOK
  <2>7. QED
    BY <1>7, <2>3, <2>4, <2>5, <2>6, StartupMove DEF Restart, Failures
<1>8. QED
  BY <1>1, <1>2, <1>3, <1>4, <1>5, <1>6, <1>7 DEF FaultStep

(* The inductive invariant holds in every reachable state. *)
LEMMA InvariantHolds == Spec => []IInv
<1>1. Init => IInv
  <2> SUFFICES ASSUME Init PROVE IInv
    OBVIOUS
  <2>1. JournalTypeOK
    <3>1. pageStatus \in [Pages -> PageStatuses]
      BY DEF Init, JournalInit, PageStatuses
    <3>2. attempts \in [Pages -> Seq(AttemptStatuses)]
      BY DEF Init, JournalInit
    <3>3. files \subseteq Artifacts
      BY DEF Init, JournalInit, Artifacts, JournaledArtifacts
    <3>4. QED
      BY <3>1, <3>2, <3>3 DEF Init, JournalInit, JournalTypeOK, Statuses, Failures
  <2>2. base \in Commits /\ attemptNo \in Nat \ {0} /\ pc \in Pcs
    BY DEF Init, Commits, Pcs, IntakePcs
  <2>3. TypeOK
    BY <2>1, <2>2 DEF Init, TypeOK, Callers, Outcomes, Statuses
  <2>4. ControlInv
    BY DEF Init, ControlInv, RecoveringFor, HoldsPage, RecoveryPcs
  <2>5. QED
    BY <2>3, <2>4 DEF IInv
<1>2. IInv /\ [Next]_vars => IInv'
  <2> SUFFICES ASSUME IInv, [Next]_vars PROVE IInv'
    OBVIOUS
  <2>1. CASE OwnerStep
    BY <2>1, SettlePreserves, ResumePreserves, RecoveryPreserves, PreparePreserves,
       PagePreserves, FinalPreserves DEF OwnerStep
  <2>2. CASE ClientStep
    BY <2>2, ClientPreserves
  <2>3. CASE FaultStep \/ Crash \/ Restart
    BY <2>3, FaultPreserves
  <2>4. CASE UNCHANGED vars
    BY <2>4, UnchangedTypes
       DEF vars, procVars, IInv, TypeOK, ControlInv, RecoveringFor, Page, journalVars
  <2>5. QED
    BY <2>1, <2>2, <2>3, <2>4 DEF Next
<1>3. QED
  BY <1>1, <1>2, PTL DEF Spec

(* Every reachable state is typed: whatever is recorded on the way through *)
(* failures, recovery and resumes stays within the values the schema and   *)
(* the processes declare.                                                  *)
THEOREM TypeCorrect == Spec => []TypeOK
<1>1. IInv => TypeOK
  BY DEF IInv
<1>2. QED
  BY <1>1, InvariantHolds, PTL

-----------------------------------------------------------------------------
(* What the final transaction has found stays so until it writes, except   *)
(* for the content of the artifacts: nobody else writes the database       *)
(* meanwhile, and nobody else works in the directory of the run.           *)

ReadyToPublish ==
    /\ status = "running" /\ ~cancelRequested
    /\ head = NumPages
    /\ OrphanFiles \subseteq {"final"} /\ OrphanCommits = {}
    /\ "final" \in files /\ sealed

UpdateInv == pc = "finalUpdate" => ReadyToPublish

(* The transaction is entered by its validation only. *)
LEMMA OnlyValidation ==
    ASSUME IInv, Next, pc' = "finalUpdate"
    PROVE  ValidateFinal \/ (pc = "finalUpdate" /\ UNCHANGED journalVars)
<1>1. CASE IntakeStep \/ ResumerStep \/ SettleStep \/ StartupStep
  BY <1>1 DEF IntakeStep, Register, Accept, ResumerStep, RecheckClaim, RequeueForResume,
       EnqueueResumed, SettleStep, FailRun, Release, StartupStep, StartupRefail, StartupClaim,
       Goto, GoIdle, Enqueue
<1>2. CASE RecoveryStep
  <2>1. AfterRecovery # "finalUpdate"
    BY DEF IInv, TypeOK, Callers, AfterRecovery
  <2>2. QED
    BY <1>2, <2>1 DEF RecoveryStep, RecoverQuarantine, RecoverReset, RecoverFinish,
       RequeueAndLoad, LoadCheckpoint, Goto, GoIdle, FailWith, ContinueFrom
<1>3. CASE PrepareStep
  BY <1>3 DEF PrepareStep, WorkerTake, LoadRun, CheckClaim, MarkRegistered, Render,
       VerifyRenders, PreparationFails, CheckPrepared, RecordRenders, StageInitial,
       PublishInitial, RecordInitial, CheckResumed, MarkResumed, EnterRunning, Goto, GoIdle,
       FailWith, CallRecovery, ContinueFrom
<1>4. CASE PageStep
  BY <1>4 DEF PageStep, NextPage, Begin, BeginRefused, ModelAnswers, Materialize, Discard,
       FailAttempt, Backoff, Stage, Publish, Commit, DropCommit, Goto, FailWith,
       FailAttemptWith, CallRecovery, ContinueFrom
<1>5. CASE FinalStep
  BY <1>5 DEF FinalStep, AuditCompletion, PrepareFinal, PrepareFinalFails, Finalize,
       ConfirmFinal, FinalizeCancelled, FinalizeRefused, DropFinal, Goto, FailWith
<1>6. CASE ClientStep
  BY <1>6 DEF ClientStep, Cancel, WriteLocked, DeliverToken, Resume, AbandonSubmission,
       AbandonResume, CallRecovery, GoIdle, JournalUnchanged
<1>7. CASE FaultStep \/ Crash \/ Restart
  BY <1>7 DEF FaultStep, RollBackResume, InitialCommitFault, CommitFault, FinalizeFault,
       Corrupt, Crash, Restart, Startup, Goto, GoIdle, FailWith, CallRecovery
<1>8. QED
  BY <1>1, <1>2, <1>3, <1>4, <1>5, <1>6, <1>7 DEF Next, OwnerStep

LEMMA UpdateHolds == Spec => []UpdateInv
<1>1. Init => UpdateInv
  BY DEF Init, UpdateInv
<1>2. IInv /\ UpdateInv /\ [Next]_vars => UpdateInv'
  <2> SUFFICES ASSUME IInv, UpdateInv, [Next]_vars, pc' = "finalUpdate" PROVE ReadyToPublish'
    BY DEF UpdateInv
  <2>1. CASE ValidateFinal
    BY <2>1
       DEF ValidateFinal, FinalCandidateValid, Cancelled, JournalUnchanged, journalVars,
           ReadyToPublish, OrphanFiles, OrphanCommits
  <2>2. CASE pc = "finalUpdate" /\ UNCHANGED journalVars
    BY <2>2 DEF UpdateInv, journalVars, ReadyToPublish, OrphanFiles, OrphanCommits
  <2>3. QED
    BY <2>1, <2>2, OnlyValidation DEF vars
<1>3. QED
  BY <1>1, <1>2, InvariantHolds, PTL DEF Spec

-----------------------------------------------------------------------------
(* FlaggedOutcome.  It is not inductive alone: a pending run that carried  *)
(* the flag could be failed by the rollback of a resume with any class.    *)
(* No such run exists, because request_cancel fails a pending run at once  *)
(* and only an unflagged run is claimed.                                   *)

FlagInv ==
    /\ FlaggedOutcome
    /\ cancelRequested => status \in {"running"} \cup Terminal

LEMMA FlagUnchanged ==
    ASSUME FlagInv, UNCHANGED <<status, cancelRequested, failure>>
    PROVE  FlagInv'
  BY DEF FlagInv, FlaggedOutcome

(* The transactions that write the row of the run keep the invariant. *)
LEMMA FlagRowOperations ==
    ASSUME FlagInv, IInv
    PROVE  /\ \A c : MarkRunFailed(c) => FlagInv'
           /\ \A c : FailResumingRun(c) => FlagInv'
           /\ MarkIntegrityFailed => FlagInv'
           /\ RequestCancel => FlagInv'
           /\ MarkRunRunning => FlagInv'
           /\ ClaimResume => FlagInv'
           /\ ClaimRecoveredRun => FlagInv'
           /\ FinishRecovery => FlagInv'
           /\ CancelFinalization => FlagInv'
           /\ AuditCompletedRun => FlagInv'
           /\ CompleteRun /\ ~cancelRequested => FlagInv'
           /\ \A p, k : DiscardAttempt(p, k) => FlagInv'
           /\ \A p, k, c, r : FailPageAttempt(p, k, c, r) => FlagInv'
<1> USE DEF FlagInv, FlaggedOutcome, Terminal, SetFailed
<1> status \in Statuses
  BY DEF IInv, TypeOK, JournalTypeOK
<1>1. ASSUME NEW c, MarkRunFailed(c) PROVE FlagInv'
  BY <1>1 DEF MarkRunFailed, OutcomeStands
<1>2. ASSUME NEW c, FailResumingRun(c) PROVE FlagInv'
  BY <1>2 DEF FailResumingRun
<1>3. ASSUME MarkIntegrityFailed PROVE FlagInv'
  BY <1>3 DEF MarkIntegrityFailed
<1>4. ASSUME RequestCancel PROVE FlagInv'
  BY <1>4 DEF RequestCancel, runVars
<1>5. ASSUME MarkRunRunning PROVE FlagInv'
  BY <1>5 DEF MarkRunRunning, CanRun
<1>6. ASSUME ClaimResume PROVE FlagInv'
  BY <1>6 DEF ClaimResume
<1>7. ASSUME ClaimRecoveredRun PROVE FlagInv'
  BY <1>7 DEF ClaimRecoveredRun
<1>8. ASSUME FinishRecovery PROVE FlagInv'
  BY <1>8 DEF FinishRecovery
<1>9. ASSUME CancelFinalization PROVE FlagInv'
  BY <1>9 DEF CancelFinalization
<1>10. ASSUME AuditCompletedRun PROVE FlagInv'
  BY <1>10 DEF AuditCompletedRun
<1>11. ASSUME CompleteRun, ~cancelRequested PROVE FlagInv'
  BY <1>11 DEF CompleteRun
<1>12. ASSUME NEW p, NEW k, DiscardAttempt(p, k) PROVE FlagInv'
  BY <1>12 DEF DiscardAttempt
<1>13. ASSUME NEW p, NEW k, NEW c, NEW r, FailPageAttempt(p, k, c, r) PROVE FlagInv'
  BY <1>13 DEF FailPageAttempt
<1>14. QED
  BY <1>1, <1>2, <1>3, <1>4, <1>5, <1>6, <1>7, <1>8, <1>9, <1>10, <1>11, <1>12, <1>13

(* The other operations of the journal do not touch the row's status. *)
LEMMA FlagOtherOperations ==
    ASSUME FlagInv
    PROVE  /\ \A p : BeginPageAttempt(p) => FlagInv'
           /\ \A p, k : CommitPage(p, k) => FlagInv'
           /\ \A a : RecordArtifact(a) => FlagInv'
           /\ \A p, k : PublishCommit(p, k) => FlagInv'
           /\ \A p, k : QuarantineCommit(p, k) => FlagInv'
           /\ RequeueFailedPage => FlagInv'
           /\ RecordInitialCommit => FlagInv'
           /\ StageCommit => FlagInv'
           /\ QuarantineOrphans => FlagInv'
           /\ ResetInterruptedAttempt => FlagInv'
           /\ PublishFinal => FlagInv'
           /\ QuarantineFinal => FlagInv'
           /\ UNCHANGED journalVars => FlagInv'
  BY FlagUnchanged
     DEF BeginPageAttempt, CommitPage, RecordArtifact, PublishCommit, QuarantineCommit,
         RequeueFailedPage, RecordInitialCommit, StageCommit, QuarantineOrphans,
         ResetInterruptedAttempt, PublishFinal, QuarantineFinal, runVars, journalVars

LEMMA FlagStep ==
    ASSUME FlagInv, IInv, Next
    PROVE  FlagInv'
<1> USE FlagRowOperations, FlagOtherOperations DEF JournalUnchanged
<1>1. CASE IntakeStep \/ ResumerStep \/ StartupStep \/ SettleStep
  BY <1>1
     DEF IntakeStep, Register, Accept, ResumerStep, RecheckClaim, RequeueForResume,
         EnqueueResumed, StartupStep, StartupRefail, StartupClaim, SettleStep, FailRun,
         Release
<1>2. CASE RecoveryStep
  BY <1>2
     DEF RecoveryStep, RecoverQuarantine, RecoverReset, RecoverFinish, RequeueAndLoad
<1>3. CASE PrepareStep
  <2>1. CASE Render \/ PreparationFails
    BY <2>1, FlagUnchanged DEF Render, PreparationFails, runVars
  <2>2. CASE ~(Render \/ PreparationFails)
    BY <1>3, <2>2
       DEF PrepareStep, WorkerTake, LoadRun, CheckClaim, MarkRegistered, VerifyRenders,
           CheckPrepared, RecordRenders, StageInitial, PublishInitial, RecordInitial,
           CheckResumed, MarkResumed, EnterRunning
  <2>3. QED
    BY <2>1, <2>2
<1>4. CASE PageStep
  BY <1>4
     DEF PageStep, NextPage, Begin, BeginRefused, ModelAnswers, Materialize, Discard,
         FailAttempt, Backoff, Stage, Publish, Commit, DropCommit
<1>5. CASE FinalStep
  BY <1>5
     DEF FinalStep, AuditCompletion, PrepareFinal, PrepareFinalFails, ValidateFinal,
         Finalize, ConfirmFinal, FinalizeCancelled, FinalizeRefused, DropFinal, Cancelled
<1>6. CASE ClientStep
  BY <1>6
     DEF ClientStep, Cancel, DeliverToken, Resume, AbandonSubmission, AbandonResume
<1>7. CASE FaultStep
  BY <1>7
     DEF FaultStep, RollBackResume, InitialCommitFault, CommitFault, FinalizeFault,
         Corrupt, Cancelled
<1>8. CASE Crash \/ Restart
  BY <1>8 DEF Crash, Restart
<1>9. QED
  BY <1>1, <1>2, <1>3, <1>4, <1>5, <1>6, <1>7, <1>8 DEF Next, OwnerStep

LEMMA FlagHolds == Spec => []FlagInv
<1>1. Init => FlagInv
  BY DEF Init, JournalInit, FlagInv, FlaggedOutcome, Terminal
<1>2. IInv /\ FlagInv /\ [Next]_vars => FlagInv'
  BY FlagStep, FlagUnchanged DEF vars, journalVars
<1>3. QED
  BY <1>1, <1>2, InvariantHolds, PTL DEF Spec

(* A run whose accepted cancellation is not withdrawn by a resume ends as  *)
(* cancelled or corrupt, whatever failed, crashed or was recovered on the  *)
(* way (mark_run_failed, finalize_run, _finish_recovery_state).            *)
THEOREM FlaggedOutcomeHolds == Spec => []FlaggedOutcome
<1>1. FlagInv => FlaggedOutcome
  BY DEF FlagInv
<1>2. QED
  BY <1>1, FlagHolds, PTL

===============================================================================
