--------------------------- MODULE RunLedger_proofs ---------------------------
(***************************************************************************)
(* The tables of RunLifecycle against one another and against the owner of *)
(* the run, for every number of pages, every attempt budget and every set  *)
(* of faults: the journal stays one that audit_run accepts, the runner     *)
(* stays at its head, the budget of attempts is kept; and, from the status *)
(* of the run at each step, RunLifecycle implements RunContract.           *)
(*                                                                         *)
(* The layers, each inductive given the ones before it and IInv:           *)
(*   LedgerInv       the tables against one another;                       *)
(*   RunnerInv       the owner's memory against the tables;                *)
(*   FreshInv        the owner initializes only a run without a checkpoint;*)
(*   FailedPagesInv  a failed page belongs to a failed or resuming run;    *)
(*   StatusInv       the status and failure class at each step.            *)
(***************************************************************************)
EXTENDS RunLifecycle_proofs

-----------------------------------------------------------------------------
(* The attempts table. *)

(* Setting the status of one existing attempt changes that entry alone.    *)
LEMMA SetAttemptEffect ==
    ASSUME attempts \in [Pages -> Seq(AttemptStatuses)],
           NEW p \in Pages, NEW k \in DOMAIN attempts[p], NEW s, SetAttempt(p, k, s)
    PROVE  /\ \A q \in Pages : /\ DOMAIN attempts'[q] = DOMAIN attempts[q]
                               /\ Len(attempts'[q]) = Len(attempts[q])
                               /\ (attempts'[q] = <<>>) = (attempts[q] = <<>>)
           /\ \A q \in Pages : q # p => attempts'[q] = attempts[q]
           /\ \A j \in DOMAIN attempts[p] :
                  attempts'[p][j] = IF j = k THEN s ELSE attempts[p][j]
<1> DEFINE t == [attempts[p] EXCEPT ![k] = s]
<1>1. attempts[p] \in Seq(AttemptStatuses)
  OBVIOUS
<1>2. attempts' = [attempts EXCEPT ![p] = t]
  BY DEF SetAttempt
<1>3. attempts'[p] = t /\ \A q \in Pages : q # p => attempts'[q] = attempts[q]
  BY <1>2
<1>4. DOMAIN t = DOMAIN attempts[p] /\ Len(t) = Len(attempts[p])
  BY <1>1
<1>5. \A j \in DOMAIN attempts[p] : t[j] = IF j = k THEN s ELSE attempts[p][j]
  BY <1>1
<1>6. t # <<>> /\ attempts[p] # <<>>
  BY <1>1, <1>4
<1>7. QED
  BY <1>3, <1>4, <1>5, <1>6

(* A new attempt is the newest entry and leaves the others as they were.   *)
LEMMA AppendEffect ==
    ASSUME NEW s \in Seq(AttemptStatuses), NEW v \in AttemptStatuses
    PROVE  /\ Len(Append(s, v)) = Len(s) + 1
           /\ DOMAIN Append(s, v) = DOMAIN s \cup {Len(s) + 1}
           /\ Append(s, v)[Len(s) + 1] = v
           /\ \A j \in DOMAIN s : Append(s, v)[j] = s[j] /\ j # Len(s) + 1
           /\ Append(s, v) # <<>>
  OBVIOUS

(* An active attempt is the newest one of the page after the head.         *)
LEMMA ActiveIsNewest ==
    ASSUME JournalTypeOK, AttemptOwnership, NEW p \in Pages, NEW k, AttemptActive(p, k)
    PROVE  /\ k \in DOMAIN attempts[p] /\ k = Len(attempts[p]) /\ k \in Nat \ {0}
           /\ p = head + 1
           /\ pageStatus[p] = "running"
           /\ \A j \in DOMAIN attempts[p] : j # k => attempts[p][j] # "running"
<1>1. k \in RunningAttempts(p)
  BY DEF AttemptActive, RunningAttempts
<1>2. pageStatus[p] = "running" /\ p = head + 1 /\ RunningAttempts(p) = {Len(attempts[p])}
  BY <1>1 DEF AttemptOwnership
<1>3. QED
  BY <1>1, <1>2, ActiveOrdinal DEF RunningAttempts

-----------------------------------------------------------------------------
(* The tables against one another.  LedgerInvariant is inductive only with *)
(* the pages after the one in progress untouched; the audit would not      *)
(* notice an attempt recorded there.                                       *)

Untouched ==
    \A p \in Pages : p > head + 1 => attempts[p] = <<>> /\ pageStatus[p] = "pending"

Ledger == LedgerInvariant /\ Untouched

(* One commit for each page of the prefix, and for no other page.          *)
LEMMA LedgerPages ==
    ASSUME LedgerIsPrefix
    PROVE  /\ \A c \in ledger : c[1] \in 0..head
           /\ \A i \in 0..head : \E c \in ledger : c[1] = i
<1> DEFINE pages == {c[1] : c \in ledger}
<1>1. pages = 0..head
  BY DEF LedgerIsPrefix
<1>2. (\A c \in ledger : c[1] \in pages) /\ (\A i \in pages : \E c \in ledger : c[1] = i)
  OBVIOUS
<1>3. QED
  BY <1>1, <1>2

LEMMA LedgerFrame ==
    ASSUME Ledger, UNCHANGED pageVars, ledger \subseteq published'
    PROVE  Ledger'
  BY DEF Ledger, LedgerInvariant, Untouched, pageVars, CompletedPrefix, LedgerIsPrefix,
         CommitsOwnAttempts, CommitsBacked, AttemptOwnership, RunningAttempts

(* The first incomplete page is the one after the head.                    *)
LEMMA FirstIncompleteIsNext ==
    ASSUME JournalTypeOK, Ledger, Incomplete # {}
    PROVE  /\ FirstIncomplete \in Incomplete
           /\ FirstIncomplete \in Pages
           /\ \A q \in Incomplete : FirstIncomplete <= q
           /\ head # NoHead => FirstIncomplete = head + 1
<1> DEFINE first == IF head = NoHead THEN 1 ELSE head + 1
<1>1. NumPages \in Nat \ {0} /\ head \in {NoHead} \cup (0..NumPages)
  BY PagesAssumption DEF JournalTypeOK
<1>2. Incomplete = Pages \ (1..head)
  BY DEF Incomplete, Ledger, LedgerInvariant, CompletedPrefix
<1>3. first \in Incomplete
  BY <1>1, <1>2 DEF NoHead, Pages
<1>4. \A q \in Incomplete : first <= q
  BY <1>1, <1>2 DEF NoHead, Pages
<1>5. FirstIncomplete \in Incomplete /\ \A q \in Incomplete : FirstIncomplete <= q
  BY <1>3, <1>4 DEF FirstIncomplete
<1>6. FirstIncomplete \in Pages /\ first \in Pages
  BY <1>3, <1>5 DEF Incomplete
<1>7. FirstIncomplete = first
  BY <1>3, <1>4, <1>5, <1>6 DEF Pages
<1>8. QED
  BY <1>5, <1>6, <1>7

(* begin_page_attempt. *)
LEMMA BeginKeepsLedger ==
    ASSUME JournalTypeOK, Ledger, NEW p \in Pages, BeginPageAttempt(p)
    PROVE  Ledger'
<1> USE DEF Ledger, LedgerInvariant
<1>1. p = head + 1 /\ pageStatus[p] = "pending"
  BY DEF BeginPageAttempt, CanBegin
<1>2. UNCHANGED <<head, ledger, published>>
  BY DEF BeginPageAttempt, artifactVars
<1>3. \A q \in Pages : pageStatus'[q] = IF q = p THEN "running" ELSE pageStatus[q]
  BY DEF BeginPageAttempt, SetPage, JournalTypeOK
<1>4. attempts[p] \in Seq(AttemptStatuses) /\ "running" \in AttemptStatuses
  BY DEF JournalTypeOK, AttemptStatuses
<1>5. /\ attempts'[p] = Append(attempts[p], "running")
      /\ \A q \in Pages : q # p => attempts'[q] = attempts[q]
  BY DEF BeginPageAttempt, JournalTypeOK
<1>6. /\ Len(attempts'[p]) = Len(attempts[p]) + 1
      /\ DOMAIN attempts'[p] = DOMAIN attempts[p] \cup {Len(attempts[p]) + 1}
      /\ attempts'[p][Len(attempts[p]) + 1] = "running"
      /\ \A j \in DOMAIN attempts[p] : /\ attempts'[p][j] = attempts[p][j]
                                       /\ j # Len(attempts[p]) + 1
      /\ attempts'[p] # <<>>
  BY <1>4, <1>5, AppendEffect
<1>7. \A c \in ledger : c[1] # p
  BY <1>1, LedgerPages DEF JournalTypeOK, NoHead
<1>8. CompletedPrefix'
  BY <1>1, <1>2, <1>3 DEF CompletedPrefix
<1>9. LedgerIsPrefix' /\ CommitsBacked'
  BY <1>2 DEF LedgerIsPrefix, CommitsBacked
<1>10. AttemptOwnership'
  <2>1. RunningAttempts(p) = {}
    BY <1>1 DEF AttemptOwnership
  <2>2. RunningAttempts(p)' = {Len(attempts'[p])}
    BY <1>6, <2>1 DEF RunningAttempts
  <2>3. \A q \in Pages : q # p => RunningAttempts(q)' = RunningAttempts(q)
    BY <1>5 DEF RunningAttempts
  <2>4. QED
    BY <1>1, <1>2, <1>3, <1>5, <1>6, <2>2, <2>3 DEF AttemptOwnership
<1>11. CommitsOwnAttempts'
  <2>1. \A j : <<p, j>> \notin ledger
    BY <1>7
  <2>2. \A j \in DOMAIN attempts'[p] : attempts'[p][j] # "completed"
    BY <1>6, <2>1 DEF CommitsOwnAttempts
  <2>3. QED
    BY <1>2, <1>5, <2>1, <2>2 DEF CommitsOwnAttempts
<1>12. Untouched'
  BY <1>1, <1>2, <1>3, <1>5 DEF Untouched, Pages
<1>13. QED
  BY <1>8, <1>9, <1>10, <1>11, <1>12

(* The attempt in progress ends without a commit: it is discarded, fails   *)
(* or is found interrupted.                                                *)
LEMMA EndKeepsLedger ==
    ASSUME JournalTypeOK, Ledger, NEW p \in Pages, NEW k, AttemptActive(p, k),
           NEW s \in {"failed", "cancelled", "interrupted"}, SetAttempt(p, k, s),
           NEW t \in {"pending", "failed"}, SetPage(p, t),
           UNCHANGED <<head, ledger>>, ledger \subseteq published'
    PROVE  Ledger'
<1> USE DEF Ledger, LedgerInvariant
<1>1. /\ k \in DOMAIN attempts[p] /\ k = Len(attempts[p])
      /\ p = head + 1
      /\ pageStatus[p] = "running"
      /\ \A j \in DOMAIN attempts[p] : j # k => attempts[p][j] # "running"
  BY ActiveIsNewest
<1>2. \A q \in Pages : pageStatus'[q] = IF q = p THEN t ELSE pageStatus[q]
  BY DEF SetPage, JournalTypeOK
<1>3. /\ \A q \in Pages : DOMAIN attempts'[q] = DOMAIN attempts[q]
      /\ \A q \in Pages : q # p => attempts'[q] = attempts[q]
      /\ \A j \in DOMAIN attempts[p] :
             attempts'[p][j] = IF j = k THEN s ELSE attempts[p][j]
  BY <1>1, SetAttemptEffect DEF JournalTypeOK
<1>4. attempts[p][k] = "running"
  BY DEF AttemptActive
<1>5. CompletedPrefix'
  BY <1>1, <1>2 DEF CompletedPrefix
<1>6. LedgerIsPrefix' /\ CommitsBacked'
  BY DEF LedgerIsPrefix, CommitsBacked
<1>7. AttemptOwnership'
  <2>1. RunningAttempts(p)' = {}
    BY <1>1, <1>3 DEF RunningAttempts
  <2>2. \A q \in Pages : q # p => RunningAttempts(q)' = RunningAttempts(q)
    BY <1>3 DEF RunningAttempts
  <2>3. QED
    BY <1>1, <1>2, <1>3, <2>1, <2>2 DEF AttemptOwnership
<1>8. CommitsOwnAttempts'
  <2>1. \A j \in DOMAIN attempts[p] : attempts'[p][j] = "completed" <=> attempts[p][j] = "completed"
    BY <1>3, <1>4
  <2>2. ASSUME NEW q \in Pages, NEW j \in DOMAIN attempts'[q]
        PROVE  attempts'[q][j] = "completed" <=> <<q, j>> \in ledger
    BY <1>3, <2>1, <2>2 DEF CommitsOwnAttempts
  <2>3. QED
    BY <2>2 DEF CommitsOwnAttempts
<1>9. Untouched'
  BY <1>1, <1>2, <1>3 DEF Untouched, Pages
<1>10. QED
  BY <1>5, <1>6, <1>7, <1>8, <1>9

(* commit_page's transaction, its directory already in place. *)
LEMMA CommitKeepsLedger ==
    ASSUME JournalTypeOK, Ledger, NEW p \in Pages, NEW k, CommitPage(p, k),
           <<p, k>> \in published
    PROVE  Ledger'
<1> USE DEF Ledger, LedgerInvariant
<1>1. AttemptActive(p, k) /\ p = head + 1 /\ pageStatus[p] = "running"
  BY DEF CommitPage, CommitClaimValid
<1>2. /\ k \in DOMAIN attempts[p] /\ k = Len(attempts[p])
      /\ \A j \in DOMAIN attempts[p] : j # k => attempts[p][j] # "running"
  BY <1>1, ActiveIsNewest
<1>3. \A q \in Pages : pageStatus'[q] = IF q = p THEN "completed" ELSE pageStatus[q]
  BY DEF CommitPage, SetPage, JournalTypeOK
<1> DEFINE EntrySet(s) ==
        /\ \A q \in Pages : DOMAIN attempts'[q] = DOMAIN attempts[q]
        /\ \A q \in Pages : q # p => attempts'[q] = attempts[q]
        /\ \A j \in DOMAIN attempts[p] :
               attempts'[p][j] = IF j = k THEN s ELSE attempts[p][j]
<1>4. \A s : SetAttempt(p, k, s) => EntrySet(s)
  <2>1. attempts \in [Pages -> Seq(AttemptStatuses)] /\ k \in DOMAIN attempts[p]
    BY <1>2 DEF JournalTypeOK
  <2>2. QED
    BY <2>1, SetAttemptEffect, Zenon
<1>5. EntrySet("completed")
  BY <1>4, Zenon DEF CommitPage
<1>6. ledger' = ledger \cup {<<p, k>>} /\ head' = p /\ UNCHANGED published
  BY DEF CommitPage, artifactVars
<1>7. head \in 0..NumPages /\ p \in 1..NumPages /\ NumPages \in Nat
  BY <1>1, PagesAssumption DEF JournalTypeOK, Pages, NoHead
<1>8. \A c \in ledger : c[1] # p
  BY <1>1, <1>7, LedgerPages
<1>9. CompletedPrefix'
  <2>1. \A q \in Pages : pageStatus[q] = "completed" <=> q \in 1..head
    BY DEF CompletedPrefix
  <2>2. \A q \in Pages : pageStatus'[q] = "completed" <=> q \in 1..p
    BY <1>1, <1>3, <1>7, <2>1 DEF Pages
  <2>3. QED
    BY <1>6, <1>7, <2>2 DEF CompletedPrefix, Pages
<1>10. LedgerIsPrefix'
  <2>1. {c[1] : c \in ledger'} = {c[1] : c \in ledger} \cup {p}
    BY <1>6
  <2>2. 0..p = (0..head) \cup {p}
    BY <1>1, <1>7
  <2>3. \A c, d \in ledger' : c[1] = d[1] => c = d
    BY <1>6, <1>8 DEF LedgerIsPrefix
  <2>4. QED
    BY <1>6, <2>1, <2>2, <2>3 DEF LedgerIsPrefix
<1>11. CommitsBacked'
  BY <1>6 DEF CommitsBacked
<1>12. AttemptOwnership'
  <2>1. RunningAttempts(p)' = {}
    BY <1>2, <1>5 DEF RunningAttempts
  <2>2. \A q \in Pages : q # p => RunningAttempts(q)' = RunningAttempts(q)
    BY <1>5 DEF RunningAttempts
  <2>3. QED
    BY <1>1, <1>3, <1>5, <2>1, <2>2 DEF AttemptOwnership
<1>13. CommitsOwnAttempts'
  <2>1. \A q \in Pages : \A j : <<q, j>> \in ledger' <=> <<q, j>> \in ledger \/ (q = p /\ j = k)
    BY <1>6
  <2>2. \A j : <<p, j>> \notin ledger
    BY <1>8
  <2>3. QED
    BY <1>2, <1>5, <2>1, <2>2 DEF CommitsOwnAttempts
<1>14. Untouched'
  BY <1>1, <1>3, <1>5, <1>6, <1>7 DEF Untouched, Pages
<1>15. QED
  BY <1>9, <1>10, <1>11, <1>12, <1>13, <1>14

(* requeue_failed_page. *)
LEMMA RequeueKeepsLedger ==
    ASSUME JournalTypeOK, Ledger, RequeueFailedPage
    PROVE  Ledger'
<1> USE DEF Ledger, LedgerInvariant
<1>1. CASE ~MustRequeue
  BY <1>1, LedgerFrame DEF RequeueFailedPage, artifactVars, pageVars, CommitsBacked
<1>2. CASE MustRequeue
  <2>1. FirstIncomplete \in Pages /\ pageStatus[FirstIncomplete] = "failed"
    BY <1>2, FirstIncompleteIsNext DEF MustRequeue
  <2>2. UNCHANGED <<head, ledger, attempts, published>>
    BY DEF RequeueFailedPage, artifactVars
  <2>3. \A q \in Pages : pageStatus'[q] = IF q = FirstIncomplete THEN "pending"
                                           ELSE pageStatus[q]
    BY <1>2, <2>1 DEF RequeueFailedPage, SetPage, JournalTypeOK
  <2>4. CompletedPrefix' /\ AttemptOwnership' /\ Untouched'
    BY <2>1, <2>2, <2>3 DEF CompletedPrefix, AttemptOwnership, RunningAttempts, Untouched
  <2>5. QED
    BY <2>2, <2>4 DEF LedgerIsPrefix, CommitsOwnAttempts, CommitsBacked
<1>3. QED
  BY <1>1, <1>2

(* initialize_artifacts: the initial commit becomes the head. *)
LEMMA InitialKeepsLedger ==
    ASSUME JournalTypeOK, Ledger, RecordInitialCommit, InitialCommit \in published
    PROVE  Ledger'
<1> USE DEF Ledger, LedgerInvariant
<1>1. head = -1 /\ head' = 0 /\ ledger' = ledger \cup {<<0, 0>>}
  BY DEF RecordInitialCommit, NoHead, InitialCommit
<1>2. UNCHANGED <<pageStatus, attempts, published>>
  BY DEF RecordInitialCommit, artifactVars
<1>3. ledger = {}
  BY <1>1, LedgerPages
<1>4. \A p \in Pages : pageStatus[p] # "running" /\ p >= 1
  BY <1>1 DEF AttemptOwnership, Pages
<1>5. CompletedPrefix' /\ AttemptOwnership' /\ Untouched'
  BY <1>1, <1>2, <1>4 DEF CompletedPrefix, AttemptOwnership, RunningAttempts, Untouched, Pages
<1>6. LedgerIsPrefix'
  BY <1>1, <1>3 DEF LedgerIsPrefix
<1>7. CommitsOwnAttempts' /\ CommitsBacked'
  BY <1>1, <1>2, <1>3 DEF CommitsOwnAttempts, CommitsBacked, Pages, InitialCommit
<1>8. QED
  BY <1>5, <1>6, <1>7

(* _reset_interrupted_attempt. *)
LEMMA ResetKeepsLedger ==
    ASSUME JournalTypeOK, Ledger, ResetInterruptedAttempt
    PROVE  Ledger'
<1> USE DEF Ledger, LedgerInvariant
<1> DEFINE p == head + 1
<1>1. UNCHANGED <<head, ledger, published>>
  BY DEF ResetInterruptedAttempt
<1>2. CASE p \in Pages /\ pageStatus[p] = "running"
  <2>1. RunningAttempts(p) = {Len(attempts[p])}
    BY <1>2 DEF AttemptOwnership
  <2>2. AttemptActive(p, Len(attempts[p]))
    BY <2>1 DEF AttemptActive, RunningAttempts
  <2>3. SetAttempt(p, Len(attempts[p]), "interrupted") /\ SetPage(p, "pending")
    BY <1>2 DEF ResetInterruptedAttempt
  <2>4. QED
    BY <1>1, <1>2, <2>2, <2>3, EndKeepsLedger DEF CommitsBacked
<1>3. CASE ~(p \in Pages /\ pageStatus[p] = "running")
  BY <1>1, <1>3, LedgerFrame DEF ResetInterruptedAttempt, pageVars, CommitsBacked
<1>4. QED
  BY <1>2, <1>3

(* Every other operation leaves pages, attempts and commits as they are,   *)
(* and no operation removes the directory of a recorded commit.            *)
LEMMA OtherOperationsKeepLedger ==
    ASSUME Ledger
    PROVE  /\ \A c : MarkRunFailed(c) => Ledger'
           /\ \A c : FailResumingRun(c) => Ledger'
           /\ MarkIntegrityFailed => Ledger'
           /\ RequestCancel => Ledger'
           /\ MarkRunRunning => Ledger'
           /\ ClaimResume => Ledger'
           /\ ClaimRecoveredRun => Ledger'
           /\ FinishRecovery => Ledger'
           /\ CancelFinalization => Ledger'
           /\ CompleteRun => Ledger'
           /\ AuditCompletedRun => Ledger'
           /\ \A a : RecordArtifact(a) => Ledger'
           /\ \A p, k : PublishCommit(p, k) => Ledger'
           /\ StageCommit => Ledger'
           /\ QuarantineOrphans => Ledger'
           /\ PublishFinal => Ledger'
           /\ QuarantineFinal => Ledger'
           /\ UNCHANGED journalVars => Ledger'
<1>1. ledger \subseteq published
  BY DEF Ledger, LedgerInvariant, CommitsBacked
<1>2. ASSUME UNCHANGED pageVars, published' = published PROVE Ledger'
  BY <1>1, <1>2, LedgerFrame
<1>3. ASSUME UNCHANGED pageVars, published' = published \ OrphanCommits PROVE Ledger'
  BY <1>1, <1>3, LedgerFrame DEF OrphanCommits
<1>4. \A p, k : PublishCommit(p, k) => Ledger'
  BY <1>1, LedgerFrame DEF PublishCommit
<1>5. (QuarantineOrphans => Ledger') /\ (PublishFinal => Ledger') /\ (AuditCompletedRun => Ledger')
  BY <1>3 DEF QuarantineOrphans, PublishFinal, AuditCompletedRun
<1>6. QED
  BY <1>2, <1>4, <1>5
     DEF MarkRunFailed, FailResumingRun, MarkIntegrityFailed, RequestCancel,
         MarkRunRunning, ClaimResume, ClaimRecoveredRun, FinishRecovery,
         CancelFinalization, CompleteRun, RecordArtifact, StageCommit, QuarantineFinal,
         artifactVars, pageVars, journalVars

(* The owner's place in the protocol says which commit is on disk but not  *)
(* yet recorded, and which one will never be.                              *)
LedgerInv ==
    /\ Ledger
    /\ pc = "commit" => <<Page, attemptNo>> \in published
    /\ pc = "initialTxn" => InitialCommit \in published
    /\ pc = "dropCommit" => <<Page, attemptNo>> \notin ledger

LEMMA LedgerElsewhere ==
    ASSUME Ledger', pc' \notin {"commit", "initialTxn", "dropCommit"}
    PROVE  LedgerInv'
  BY DEF LedgerInv

LEMMA LedgerStay ==
    ASSUME LedgerInv, Ledger', UNCHANGED <<pc, base, attemptNo, published, ledger>>
    PROVE  LedgerInv'
  BY DEF LedgerInv, Page

(* The steps of the page loop. *)
LEMMA PageLedger ==
    ASSUME LedgerInv, IInv, PageStep
    PROVE  LedgerInv'
<1> USE OtherOperationsKeepLedger DEF JournalUnchanged
<1> JournalTypeOK /\ Ledger
  BY DEF IInv, TypeOK, LedgerInv
<1> pc \in HoldsPage => Page \in Pages
  BY DEF IInv, ControlInv
<1>1. CASE NextPage \/ BeginRefused \/ ModelAnswers \/ Materialize \/ Backoff \/ Stage
  <2>1. Ledger'
    BY <1>1 DEF NextPage, BeginRefused, ModelAnswers, Materialize, Backoff, Stage
  <2>2. pc' \notin {"commit", "initialTxn", "dropCommit"}
    BY <1>1 DEF NextPage, BeginRefused, ModelAnswers, Materialize, Backoff, Stage, Goto,
                FailWith, FailAttemptWith, ContinueFrom
  <2>3. QED
    BY <2>1, <2>2, LedgerElsewhere
<1>2. CASE Begin
  <2>1. Ledger'
    BY <1>2, BeginKeepsLedger DEF Begin, HoldsPage
  <2>2. pc' \notin {"commit", "initialTxn", "dropCommit"}
    BY <1>2 DEF Begin, Goto
  <2>3. QED
    BY <2>1, <2>2, LedgerElsewhere
<1>3. ASSUME pc \in HoldsPage, DiscardAttempt(Page, attemptNo)
      PROVE  Ledger' /\ <<Page, attemptNo>> \notin ledger'
  <2>1. Page \in Pages /\ AttemptActive(Page, attemptNo)
    BY <1>3 DEF DiscardAttempt
  <2>2. Ledger'
    BY <1>3, <2>1, EndKeepsLedger
       DEF DiscardAttempt, artifactVars, Ledger, LedgerInvariant, CommitsBacked
  <2>3. <<Page, attemptNo>> \notin ledger
    BY <2>1 DEF AttemptActive, Ledger, LedgerInvariant, CommitsOwnAttempts
  <2>4. QED
    BY <1>3, <2>2, <2>3 DEF DiscardAttempt
<1>4. CASE Discard
  BY <1>3, <1>4, LedgerElsewhere DEF Discard, FailWith, HoldsPage
<1>5. CASE FailAttempt
  <2>1. Ledger'
    <3>1. CASE DiscardAttempt(Page, attemptNo)
      BY <1>3, <1>5, <3>1 DEF FailAttempt, HoldsPage
    <3>2. CASE FailPageAttempt(Page, attemptNo, outcome, outcome = "retry")
      BY <1>5, <3>2, EndKeepsLedger
         DEF FailAttempt, FailPageAttempt, artifactVars, Ledger, LedgerInvariant,
             CommitsBacked, HoldsPage
    <3>3. QED
      BY <1>5, <3>1, <3>2 DEF FailAttempt
  <2>2. pc' \notin {"commit", "initialTxn", "dropCommit"}
    BY <1>5 DEF FailAttempt, FailWith, Goto
  <2>3. QED
    BY <2>1, <2>2, LedgerElsewhere
<1>6. CASE Publish
  BY <1>6 DEF Publish, PublishCommit, LedgerInv, Goto, CallRecovery, procVars, Page
<1>7. CASE Commit
  <2>1. CASE UNCHANGED journalVars /\ CallRecovery("reconcile")
    BY <2>1, LedgerElsewhere DEF CallRecovery
  <2>2. CASE DiscardAttempt(Page, attemptNo) /\ Goto("dropCommit")
    BY <1>3, <1>7, <2>2 DEF Commit, LedgerInv, Goto, procVars, Page, HoldsPage
  <2>3. CASE CommitPage(Page, attemptNo) /\ pc' = "page"
    <3>1. Ledger'
      BY <1>7, <2>3, CommitKeepsLedger DEF Commit, LedgerInv, HoldsPage
    <3>2. QED
      BY <2>3, <3>1, LedgerElsewhere
  <2>4. QED
    BY <1>7, <2>1, <2>2, <2>3 DEF Commit, ContinueFrom
<1>8. CASE DropCommit
  <2>1. Ledger'
    BY <1>8, LedgerFrame
       DEF DropCommit, QuarantineCommit, LedgerInv, Ledger, LedgerInvariant, CommitsBacked
  <2>2. QED
    BY <1>8, <2>1, LedgerElsewhere DEF DropCommit, FailWith
<1>9. QED
  BY <1>1, <1>2, <1>4, <1>5, <1>6, <1>7, <1>8 DEF PageStep

LEMMA LedgerStep ==
    ASSUME LedgerInv, IInv, Next
    PROVE  LedgerInv'
<1> USE OtherOperationsKeepLedger DEF JournalUnchanged
<1> JournalTypeOK /\ Ledger
  BY DEF IInv, TypeOK, LedgerInv
<1> pc \in HoldsPage => Page \in Pages
  BY DEF IInv, ControlInv
<1>1. CASE IntakeStep \/ ResumerStep \/ StartupStep \/ SettleStep
  <2>1. Ledger'
    BY <1>1, RequeueKeepsLedger
       DEF IntakeStep, Register, Accept, ResumerStep, RecheckClaim, RequeueForResume,
           EnqueueResumed, StartupStep, StartupRefail, StartupClaim, SettleStep, FailRun,
           Release
  <2>2. pc' \notin {"commit", "initialTxn", "dropCommit"}
    BY <1>1
       DEF IntakeStep, Register, Accept, ResumerStep, RecheckClaim, RequeueForResume,
           EnqueueResumed, StartupStep, StartupRefail, StartupClaim, SettleStep, FailRun,
           Release, Goto, GoIdle, Enqueue
  <2>3. QED
    BY <2>1, <2>2, LedgerElsewhere
<1>2. CASE RecoveryStep
  <2>1. Ledger'
    BY <1>2, RequeueKeepsLedger, ResetKeepsLedger
       DEF RecoveryStep, RecoverQuarantine, RecoverReset, RecoverFinish, RequeueAndLoad
  <2>2. AfterRecovery \in {"claim", "refail", "recheck", "rerequeue"}
    BY DEF AfterRecovery, Callers, IInv, TypeOK
  <2>3. pc' \notin {"commit", "initialTxn", "dropCommit"}
    BY <1>2, <2>2
       DEF RecoveryStep, RecoverQuarantine, RecoverReset, RecoverFinish, RequeueAndLoad,
           LoadCheckpoint, Goto, GoIdle, FailWith, ContinueFrom
  <2>4. QED
    BY <2>1, <2>3, LedgerElsewhere
<1>3. CASE PrepareStep
  <2>1. CASE Render \/ PreparationFails
    <3>1. Ledger'
      BY <2>1, LedgerFrame DEF Render, PreparationFails, Ledger, LedgerInvariant, CommitsBacked
    <3>2. pc' \in {"prepared", "failRun"}
      BY <2>1 DEF Render, PreparationFails, Goto, FailWith
    <3>3. QED
      BY <3>1, <3>2, LedgerElsewhere
  <2>2. CASE PublishInitial
    BY <2>2 DEF PublishInitial, PublishCommit, LedgerInv, Goto, FailWith, InitialCommit
  <2>3. CASE RecordInitial
    <3>1. Ledger'
      BY <2>3, InitialKeepsLedger DEF RecordInitial, LedgerInv
    <3>2. pc' \notin {"commit", "initialTxn", "dropCommit"}
      BY <2>3 DEF RecordInitial, ContinueFrom, FailWith
    <3>3. QED
      BY <3>1, <3>2, LedgerElsewhere
  <2>4. CASE ~(Render \/ PreparationFails \/ PublishInitial \/ RecordInitial)
    <3>1. Ledger'
      BY <1>3, <2>4
         DEF PrepareStep, WorkerTake, LoadRun, CheckClaim, MarkRegistered, VerifyRenders,
             CheckPrepared, RecordRenders, StageInitial, CheckResumed, MarkResumed,
             EnterRunning
    <3>2. pc' \notin {"commit", "initialTxn", "dropCommit"}
      BY <1>3, <2>4
         DEF PrepareStep, WorkerTake, LoadRun, CheckClaim, MarkRegistered, VerifyRenders,
             CheckPrepared, RecordRenders, StageInitial, CheckResumed, MarkResumed,
             EnterRunning, Goto, GoIdle, FailWith, CallRecovery
    <3>3. QED
      BY <3>1, <3>2, LedgerElsewhere
  <2>5. QED
    BY <2>1, <2>2, <2>3, <2>4
<1>4. CASE PageStep
  BY <1>4, PageLedger
<1>5. CASE FinalStep
  <2>1. Ledger'
    BY <1>5
       DEF FinalStep, AuditCompletion, PrepareFinal, PrepareFinalFails, ValidateFinal,
           Finalize, ConfirmFinal, FinalizeCancelled, FinalizeRefused, DropFinal
  <2>2. pc' \notin {"commit", "initialTxn", "dropCommit"}
    BY <1>5
       DEF FinalStep, AuditCompletion, PrepareFinal, PrepareFinalFails, ValidateFinal,
           Finalize, ConfirmFinal, FinalizeCancelled, FinalizeRefused, DropFinal, Goto, FailWith
  <2>3. QED
    BY <2>1, <2>2, LedgerElsewhere
<1>6. CASE ClientStep
  <2>1. CASE Cancel \/ DeliverToken
    BY <2>1, LedgerStay
       DEF Cancel, DeliverToken, RequestCancel, pageVars, artifactVars, journalVars
  <2>2. CASE ~(Cancel \/ DeliverToken)
    BY <1>6, <2>2, LedgerElsewhere
       DEF ClientStep, Resume, AbandonSubmission, AbandonResume, GoIdle, CallRecovery
  <2>3. QED
    BY <2>1, <2>2
<1>7. CASE FaultStep
  <2>1. CASE CommitFault
    <3>1. CASE UNCHANGED journalVars
      BY <2>1, <3>1, LedgerElsewhere DEF CommitFault, CallRecovery
    <3>2. CASE pc = "commit" /\ CommitPage(Page, attemptNo)
      <4>1. Page \in Pages /\ <<Page, attemptNo>> \in published
        BY <3>2 DEF LedgerInv, HoldsPage
      <4>2. Ledger'
        BY <3>2, <4>1, CommitKeepsLedger
      <4>3. QED
        BY <2>1, <4>2, LedgerElsewhere DEF CommitFault, CallRecovery
    <3>3. QED
      BY <2>1, <3>1, <3>2 DEF CommitFault
  <2>2. CASE Corrupt
    BY <2>2, LedgerStay DEF Corrupt, journalVars, procVars
  <2>3. CASE ~(CommitFault \/ Corrupt)
    BY <1>7, <2>3, LedgerElsewhere
       DEF FaultStep, RollBackResume, InitialCommitFault, FinalizeFault, GoIdle, FailWith, Goto
  <2>4. QED
    BY <2>1, <2>2, <2>3
<1>8. CASE Crash \/ Restart
  BY <1>8, LedgerElsewhere DEF Crash, Restart, Startup
<1>9. QED
  BY <1>1, <1>2, <1>3, <1>4, <1>5, <1>6, <1>7, <1>8 DEF Next, OwnerStep

LEMMA LedgerHolds == Spec => []LedgerInv
<1>1. Init => LedgerInv
  <2> SUFFICES ASSUME Init PROVE LedgerInv
    OBVIOUS
  <2>1. /\ head = -1 /\ ledger = {}
        /\ \A p \in Pages : pageStatus[p] = "pending" /\ attempts[p] = <<>>
    BY DEF Init, JournalInit, NoHead
  <2>2. CompletedPrefix /\ LedgerIsPrefix /\ CommitsBacked
    BY <2>1 DEF CompletedPrefix, LedgerIsPrefix, CommitsBacked
  <2>3. CommitsOwnAttempts /\ AttemptOwnership /\ Untouched
    BY <2>1 DEF CommitsOwnAttempts, AttemptOwnership, RunningAttempts, Untouched
  <2>4. QED
    BY <2>2, <2>3 DEF Init, LedgerInv, Ledger, LedgerInvariant
<1>2. IInv /\ LedgerInv /\ [Next]_vars => LedgerInv'
  BY LedgerStep, LedgerStay, OtherOperationsKeepLedger
     DEF vars, procVars, journalVars, LedgerInv
<1>3. QED
  BY <1>1, <1>2, InvariantHolds, PTL DEF Spec

(* In every state a crash can leave, the tables are what audit_run demands *)
(* of them: a commit for each page of the prefix 0..head, backed on disk   *)
(* and owned by its completed attempt, and at most the newest attempt of   *)
(* the next page running (begin_page_attempt, commit_page, recover_run).   *)
THEOREM LedgerInvariantHolds == Spec => []LedgerInvariant
<1>1. LedgerInv => LedgerInvariant
  BY DEF LedgerInv, Ledger
<1>2. QED
  BY <1>1, LedgerHolds, PTL

-----------------------------------------------------------------------------
(* The runner's memory against the tables.  RunnerAtHead is inductive only *)
(* with what carries it through the steps at which it says nothing: the    *)
(* ordinal kept over a backoff or fetched by a resume, the budget checked  *)
(* before an attempt begins, and, while an uncertain commit is reconciled, *)
(* that a head which moved has no attempt after it yet.                    *)

AttemptPcs == {"model", "materialize", "stage", "publish", "commit", "failAttempt",
               "discard"}
RunnerPcs == PagePcs \cup {"failAttempt", "discard", "backoff", "remark"}
BetweenAttempts == {"page", "begin", "remark"}

RunnerInv ==
    /\ pc \in RunnerPcs => base \in ledger /\ base[1] = head
    /\ pc \in AttemptPcs => AttemptActive(Page, attemptNo)
    /\ pc = "backoff" => attemptNo = Len(attempts[Page])
    /\ pc \in BetweenAttempts /\ ~AllPagesDone => attemptNo = Len(attempts[Page]) + 1
    /\ pc = "begin" => attemptNo <= MaxAttempts
    /\ RecoveringFor("reconcile") /\ head = Page /\ head < NumPages
           => attempts[head + 1] = <<>>
    /\ AttemptBudget

(* No page gains or loses an attempt. *)
SameLengths ==
    \A q \in Pages : /\ Len(attempts'[q]) = Len(attempts[q])
                     /\ (attempts'[q] = <<>>) = (attempts[q] = <<>>)

LEMMA LengthsKept ==
    ASSUME JournalTypeOK, Ledger
    PROVE  /\ \A p \in Pages : \A k : DiscardAttempt(p, k) => SameLengths
           /\ \A p \in Pages : \A k : CommitPage(p, k) => SameLengths
           /\ \A p \in Pages : \A k, c, r : FailPageAttempt(p, k, c, r) => SameLengths
           /\ ResetInterruptedAttempt => SameLengths
           /\ UNCHANGED attempts => SameLengths
<1>0. attempts \in [Pages -> Seq(AttemptStatuses)]
  BY DEF JournalTypeOK
<1>1. ASSUME NEW p \in Pages, NEW k \in DOMAIN attempts[p], NEW s, SetAttempt(p, k, s)
      PROVE  SameLengths
  BY <1>0, <1>1, SetAttemptEffect, Zenon DEF SameLengths
<1>2. ASSUME NEW p \in Pages, NEW k, DiscardAttempt(p, k) PROVE SameLengths
  BY <1>1, <1>2, Zenon DEF DiscardAttempt, AttemptActive
<1>3. ASSUME NEW p \in Pages, NEW k, CommitPage(p, k) PROVE SameLengths
  BY <1>1, <1>3, Zenon DEF CommitPage, CommitClaimValid, AttemptActive
<1>4. ASSUME NEW p \in Pages, NEW k, NEW c, NEW r, FailPageAttempt(p, k, c, r)
      PROVE  SameLengths
  BY <1>1, <1>4, Zenon DEF FailPageAttempt, AttemptActive
<1>5. UNCHANGED attempts => SameLengths
  BY DEF SameLengths
<1>6. ASSUME ResetInterruptedAttempt PROVE SameLengths
  <2> DEFINE p == head + 1
  <2>1. CASE p \in Pages /\ pageStatus[p] = "running"
    <3>1. RunningAttempts(p) = {Len(attempts[p])}
      BY <2>1 DEF Ledger, LedgerInvariant, AttemptOwnership
    <3>2. Len(attempts[p]) \in DOMAIN attempts[p]
      BY <3>1 DEF RunningAttempts
    <3>3. SetAttempt(p, Len(attempts[p]), "interrupted")
      BY <1>6, <2>1 DEF ResetInterruptedAttempt
    <3>4. QED
      BY <1>1, <2>1, <3>2, <3>3, Zenon
  <2>2. CASE ~(p \in Pages /\ pageStatus[p] = "running")
    BY <1>5, <1>6, <2>2 DEF ResetInterruptedAttempt
  <2>3. QED
    BY <2>1, <2>2
<1>7. QED
  BY <1>2, <1>3, <1>4, <1>5, <1>6, Zenon

LEMMA BudgetKept ==
    ASSUME AttemptBudget, SameLengths
    PROVE  AttemptBudget'
  BY DEF AttemptBudget, SameLengths, Pages

(* Where the owner holds no page the budget is all there is to keep.       *)
LEMMA RunnerElsewhere ==
    ASSUME AttemptBudget', pc' \notin RunnerPcs,
           pc' \in RecoveryPcs \cup {"rerequeue"} => caller' # "reconcile"
    PROVE  RunnerInv'
  BY DEF RunnerInv, RunnerPcs, PagePcs, AttemptPcs, BetweenAttempts, RecoveringFor

LEMMA RunnerStay ==
    ASSUME RunnerInv, UNCHANGED <<pageVars, pc, caller, base, attemptNo>>
    PROVE  RunnerInv'
  BY DEF RunnerInv, AttemptBudget, RecoveringFor, AttemptActive, Page, AllPagesDone, pageVars

(* The reconciliation of a commit that did not reach its transaction.      *)
LEMMA ReconcileUncommitted ==
    ASSUME IInv, RunnerInv, pc \in RunnerPcs, UNCHANGED journalVars,
           CallRecovery("reconcile")
    PROVE  RunnerInv'
<1>1. base[1] = head /\ head \in Int
  BY DEF RunnerInv, IInv, TypeOK, JournalTypeOK, NoHead
<1>2. head' # Page'
  BY <1>1 DEF CallRecovery, Page, journalVars
<1>3. AttemptBudget'
  BY DEF RunnerInv, AttemptBudget, journalVars
<1>4. pc' = "quarantine"
  BY DEF CallRecovery
<1>5. QED
  BY <1>2, <1>3, <1>4 DEF RunnerInv, RunnerPcs, PagePcs, AttemptPcs, BetweenAttempts

(* A page commits: the head moves and the page after it is untouched.      *)
LEMMA CommitMovesHead ==
    ASSUME IInv, LedgerInv, RunnerInv, Page \in Pages, CommitPage(Page, attemptNo)
    PROVE  /\ AttemptBudget'
           /\ head' = Page /\ <<Page, attemptNo>> \in ledger'
           /\ Page < NumPages => attempts'[Page + 1] = <<>>
<1>1. JournalTypeOK /\ Ledger
  BY DEF IInv, TypeOK, LedgerInv
<1>2. SameLengths
  BY <1>1, LengthsKept
<1>3. AttemptBudget'
  BY <1>2, BudgetKept DEF RunnerInv
<1>4. head' = Page /\ <<Page, attemptNo>> \in ledger' /\ Page = head + 1
  BY DEF CommitPage, CommitClaimValid
<1>5. ASSUME Page < NumPages PROVE attempts'[Page + 1] = <<>>
  <2>1. Page + 1 \in Pages /\ Page + 1 > head + 1
    BY <1>4, <1>5, PagesAssumption DEF Pages
  <2>2. attempts[Page + 1] = <<>>
    BY <1>1, <2>1 DEF Ledger, Untouched
  <2>3. QED
    BY <1>2, <2>1, <2>2 DEF SameLengths
<1>6. QED
  BY <1>3, <1>4, <1>5

(* The runner goes on from a commit that is the head. *)
LEMMA RunnerContinues ==
    ASSUME AttemptBudget', NEW next \in {"page", "remark"}, NEW c, NEW n,
           ContinueFrom(next, c, n), c \in ledger', c[1] = head',
           c[1] # NumPages => n = Len(attempts'[c[1] + 1]) + 1
    PROVE  RunnerInv'
  BY DEF RunnerInv, RunnerPcs, PagePcs, AttemptPcs, BetweenAttempts, RecoveringFor,
         RecoveryPcs, ContinueFrom, AllPagesDone, Page

(* recover_run and the load of its checkpoint. *)
LEMMA RecoveryRunner ==
    ASSUME IInv, LedgerInv, RunnerInv, RecoveryStep
    PROVE  RunnerInv'
<1>1. JournalTypeOK /\ Ledger /\ AttemptBudget
  BY DEF IInv, TypeOK, LedgerInv, RunnerInv
<1>2. ASSUME SameLengths, UNCHANGED <<head, base, caller>>,
             pc' \in RecoveryPcs \cup {"rerequeue"}, pc \in RecoveryPcs
      PROVE  RunnerInv'
  <2>1. AttemptBudget'
    BY <1>1, <1>2, BudgetKept
  <2>2. pc' \notin RunnerPcs
    BY <1>2 DEF RunnerPcs, PagePcs, RecoveryPcs
  <2>3. CASE caller = "reconcile" /\ head = Page /\ head < NumPages
    <3>1. attempts[head + 1] = <<>>
      BY <1>2, <2>3 DEF RunnerInv, RecoveringFor
    <3>2. head + 1 \in Pages
      BY <1>1, <2>3, PagesAssumption DEF Pages, JournalTypeOK, NoHead, Page, IInv,
         TypeOK, Commits, InitialCommit
    <3>3. attempts'[head + 1] = <<>>
      BY <1>2, <3>1, <3>2 DEF SameLengths
    <3>4. QED
      BY <1>2, <2>1, <2>2, <3>3
         DEF RunnerInv, RunnerPcs, PagePcs, AttemptPcs, BetweenAttempts
  <2>4. CASE ~(caller = "reconcile" /\ head = Page /\ head < NumPages)
    BY <1>2, <2>1, <2>2, <2>4
       DEF RunnerInv, RunnerPcs, PagePcs, AttemptPcs, BetweenAttempts, RecoveringFor, Page
  <2>5. QED
    BY <2>3, <2>4
<1>3. AfterRecovery \in {"claim", "refail", "recheck", "rerequeue"}
  BY DEF AfterRecovery, Callers, IInv, TypeOK
<1>4. CASE RecoverQuarantine
  BY <1>1, <1>2, <1>4, LengthsKept
     DEF RecoverQuarantine, QuarantineOrphans, Goto, pageVars, procVars, RecoveryPcs
<1>5. CASE RecoverReset
  BY <1>1, <1>2, <1>5, LengthsKept
     DEF RecoverReset, ResetInterruptedAttempt, Goto, procVars, RecoveryPcs
<1>6. CASE RecoverFinish
  <2>1. UNCHANGED pageVars
    BY <1>6 DEF RecoverFinish, FinishRecovery, MarkIntegrityFailed
  <2>2. SameLengths /\ UNCHANGED head
    BY <1>1, <2>1, LengthsKept DEF pageVars
  <2>3. AttemptBudget'
    BY <1>1, <2>2, BudgetKept
  <2>4. CASE Goto(AfterRecovery)
    BY <1>2, <1>3, <1>6, <2>2, <2>3, <2>4, RunnerElsewhere
       DEF RecoverFinish, Goto, procVars, RecoveryPcs, RunnerPcs, PagePcs
  <2>5. CASE pc' \in {"failRun", "idle"}
    BY <2>3, <2>5, RunnerElsewhere DEF RunnerPcs, PagePcs, RecoveryPcs
  <2>6. QED
    BY <1>6, <2>4, <2>5 DEF RecoverFinish, FailWith, GoIdle
<1>7. CASE RequeueAndLoad
  <2>1. UNCHANGED <<head, ledger, attempts>>
    BY <1>7 DEF RequeueAndLoad, RequeueFailedPage, journalVars
  <2>2. AttemptBudget'
    BY <1>1, <2>1, LengthsKept, BudgetKept
  <2>3. head \in 0..NumPages /\ NumPages \in Nat
    BY <1>1, <1>7, PagesAssumption
       DEF RequeueAndLoad, IInv, ControlInv, RecoveringFor, JournalTypeOK
  <2>4. CheckpointCommit \in ledger /\ CheckpointCommit[1] = head
    <3>1. \E c \in ledger : c[1] = head
      BY <1>1, <2>3, LedgerPages DEF Ledger, LedgerInvariant
    <3>2. QED
      BY <3>1 DEF CheckpointCommit
  <2>5. CASE \E class : FailWith(class)
    BY <2>2, <2>5, RunnerElsewhere DEF FailWith, RunnerPcs, PagePcs, RecoveryPcs
  <2>6. CASE ContinueFrom("remark", CheckpointCommit, NextAttempt(head))
    <3>1. head # NumPages => NextAttempt(head) = Len(attempts'[head + 1]) + 1
      BY <2>1, <2>3 DEF NextAttempt
    <3>2. QED
      BY <2>1, <2>2, <2>4, <2>6, <3>1, RunnerContinues
  <2>7. CASE caller = "reconcile" /\ CommitHappened /\ ContinueFrom("page", <<Page, attemptNo>>, 1)
    <3>1. head = Page /\ <<Page, attemptNo>> \in ledger'
      BY <2>1, <2>4, <2>7 DEF CommitHappened
    <3>2. ASSUME Page # NumPages PROVE Len(attempts'[Page + 1]) = 0
      <4>1. attempts[head + 1] = <<>>
        BY <1>7, <2>3, <2>7, <3>1, <3>2 DEF RequeueAndLoad, RunnerInv, RecoveringFor
      <4>2. QED
        BY <2>1, <3>1, <4>1
    <3>3. QED
      BY <2>1, <2>2, <2>7, <3>1, <3>2, RunnerContinues
  <2>8. QED
    BY <1>7, <2>5, <2>6, <2>7 DEF RequeueAndLoad, LoadCheckpoint
<1>8. QED
  BY <1>4, <1>5, <1>6, <1>7 DEF RecoveryStep

(* The steps of the page loop. *)
LEMMA PageRunner ==
    ASSUME IInv, LedgerInv, RunnerInv, PageStep
    PROVE  RunnerInv'
<1>1. JournalTypeOK /\ Ledger /\ AttemptBudget
  BY DEF IInv, TypeOK, LedgerInv, RunnerInv
<1>2. pc \in HoldsPage => Page \in Pages
  BY DEF IInv, ControlInv
<1>3. ASSUME SameLengths, pc' \in {"failRun", "dropCommit"} PROVE RunnerInv'
  BY <1>1, <1>3, BudgetKept, RunnerElsewhere DEF RunnerPcs, PagePcs, RecoveryPcs
<1>4. ASSUME UNCHANGED pageVars, \E class : FailWith(class) PROVE RunnerInv'
  BY <1>1, <1>3, <1>4, LengthsKept DEF FailWith, pageVars
<1>5. CASE NextPage
  <2>1. UNCHANGED pageVars
    BY <1>5 DEF NextPage, JournalUnchanged, journalVars, pageVars
  <2>2. AttemptBudget'
    BY <1>1, <2>1, LengthsKept, BudgetKept DEF pageVars
  <2>3. CASE Goto("finalCheck")
    BY <2>2, <2>3, RunnerElsewhere DEF Goto, RunnerPcs, PagePcs, RecoveryPcs
  <2>4. CASE ~AllPagesDone /\ BudgetLeft(attemptNo - 1) /\ Goto("begin")
    <3>1. attemptNo <= MaxAttempts
      BY <2>4, AttemptsAssumption DEF BudgetLeft, IInv, TypeOK
    <3>2. pc = "page" /\ pc' = "begin" /\ UNCHANGED <<base, attemptNo, ledger, head, attempts>>
      BY <1>5, <2>1, <2>4 DEF NextPage, Goto, procVars, pageVars
    <3>3. QED
      BY <2>2, <3>1, <3>2
         DEF RunnerInv, RunnerPcs, PagePcs, AttemptPcs, BetweenAttempts, RecoveringFor,
             RecoveryPcs, AllPagesDone, Page
  <2>5. QED
    BY <1>4, <1>5, <2>1, <2>3, <2>4 DEF NextPage
<1>6. CASE Begin
  <2>1. Page \in Pages /\ BeginPageAttempt(Page)
    BY <1>2, <1>6 DEF Begin, HoldsPage
  <2>2. attempts[Page] \in Seq(AttemptStatuses) /\ "running" \in AttemptStatuses
    BY <1>1, <2>1 DEF JournalTypeOK, AttemptStatuses
  <2>3. /\ attempts'[Page] = Append(attempts[Page], "running")
        /\ \A q \in Pages : q # Page => attempts'[q] = attempts[q]
    BY <1>1, <2>1 DEF BeginPageAttempt, JournalTypeOK
  <2>4. /\ Len(attempts'[Page]) = Len(attempts[Page]) + 1
        /\ Len(attempts[Page]) + 1 \in DOMAIN attempts'[Page]
        /\ attempts'[Page][Len(attempts[Page]) + 1] = "running"
    BY <2>2, <2>3, AppendEffect
  <2>5. attemptNo = Len(attempts[Page]) + 1 /\ attemptNo <= MaxAttempts
    BY <1>6, <2>1, PagesAssumption
       DEF Begin, RunnerInv, BetweenAttempts, AllPagesDone, Page, Pages
  <2>6. Goto("model")
    BY <1>6, <2>4, <2>5 DEF Begin
  <2>7. AttemptBudget'
    BY <1>1, <2>3, <2>4, <2>5 DEF AttemptBudget
  <2>8. base \in ledger /\ base[1] = head /\ UNCHANGED <<ledger, head>>
    BY <1>6, <2>1 DEF Begin, RunnerInv, RunnerPcs, PagePcs, BeginPageAttempt
  <2>9. AttemptActive(Page, attemptNo)'
    BY <2>4, <2>5, <2>6 DEF AttemptActive, Goto, procVars, Page
  <2>10. QED
    BY <2>6, <2>7, <2>8, <2>9
       DEF RunnerInv, Goto, procVars, RunnerPcs, PagePcs, AttemptPcs, BetweenAttempts,
           RecoveringFor, RecoveryPcs
<1>7. CASE BeginRefused
  BY <1>4, <1>7 DEF BeginRefused, JournalUnchanged, journalVars, pageVars
<1>8. ASSUME pc \in AttemptPcs, UNCHANGED <<pageVars, base, attemptNo>>, pc' \in AttemptPcs
      PROVE  RunnerInv'
  BY <1>1, <1>8
     DEF RunnerInv, RunnerPcs, PagePcs, AttemptPcs, BetweenAttempts, RecoveringFor,
         RecoveryPcs, AttemptActive, Page, AttemptBudget, pageVars
<1>9. CASE ModelAnswers \/ Materialize
  BY <1>8, <1>9
     DEF ModelAnswers, Materialize, JournalUnchanged, journalVars, pageVars, AttemptPcs,
         Goto, FailAttemptWith, procVars
<1>10. CASE Stage
  BY <1>8, <1>10 DEF Stage, StageCommit, pageVars, AttemptPcs, Goto, procVars
<1>11. CASE Publish
  <2>1. CASE PublishCommit(Page, attemptNo) /\ Goto("commit")
    BY <1>8, <1>11, <2>1 DEF Publish, PublishCommit, pageVars, AttemptPcs, Goto, procVars
  <2>2. CASE UNCHANGED journalVars /\ CallRecovery("reconcile")
    BY <1>11, <2>2, ReconcileUncommitted DEF Publish, RunnerPcs, PagePcs
  <2>3. QED
    BY <1>11, <2>1, <2>2 DEF Publish
<1>12. CASE Discard
  BY <1>1, <1>2, <1>3, <1>12, LengthsKept DEF Discard, FailWith, HoldsPage
<1>13. CASE FailAttempt
  <2>1. Page \in Pages
    BY <1>2, <1>13 DEF FailAttempt, HoldsPage
  <2>2. SameLengths /\ UNCHANGED <<head, ledger>>
    BY <1>1, <1>13, <2>1, LengthsKept DEF FailAttempt, DiscardAttempt, FailPageAttempt
  <2>3. CASE pc' = "failRun"
    BY <1>3, <2>2, <2>3
  <2>4. CASE Goto("backoff")
    <3>1. attemptNo = Len(attempts[Page])
      BY <1>1, <1>13, <2>1, ActiveIsNewest
         DEF FailAttempt, RunnerInv, AttemptPcs, Ledger, LedgerInvariant
    <3>2. attemptNo' = Len(attempts'[Page])
      BY <2>1, <2>2, <2>4, <3>1 DEF SameLengths, Goto, procVars
    <3>3. base' \in ledger' /\ base'[1] = head'
      BY <1>13, <2>2, <2>4 DEF FailAttempt, RunnerInv, RunnerPcs, Goto, procVars
    <3>4. AttemptBudget' /\ pc' = "backoff" /\ Page' = Page
      BY <1>1, <2>2, <2>4, BudgetKept DEF Goto, procVars, Page
    <3>5. QED
      BY <3>2, <3>3, <3>4
         DEF RunnerInv, RunnerPcs, PagePcs, AttemptPcs, BetweenAttempts, RecoveringFor,
             RecoveryPcs
  <2>5. QED
    BY <1>13, <2>3, <2>4 DEF FailAttempt, FailWith, Goto
<1>14. CASE Backoff
  <2>1. UNCHANGED pageVars
    BY <1>14 DEF Backoff, JournalUnchanged, journalVars, pageVars
  <2>2. CASE ContinueFrom("page", base, attemptNo + 1)
    <3>1. base \in ledger /\ base[1] = head /\ attemptNo = Len(attempts[base[1] + 1])
      BY <1>14 DEF Backoff, RunnerInv, RunnerPcs, Page
    <3>2. AttemptBudget'
      BY <1>1, <2>1, LengthsKept, BudgetKept DEF pageVars
    <3>3. QED
      BY <2>1, <2>2, <3>1, <3>2, RunnerContinues DEF pageVars
  <2>3. QED
    BY <1>4, <1>14, <2>1, <2>2 DEF Backoff
<1>15. CASE Commit
  <2>1. CASE UNCHANGED journalVars /\ CallRecovery("reconcile")
    BY <1>15, <2>1, ReconcileUncommitted DEF Commit, RunnerPcs, PagePcs
  <2>2. CASE DiscardAttempt(Page, attemptNo) /\ Goto("dropCommit")
    BY <1>1, <1>2, <1>3, <1>15, <2>2, LengthsKept DEF Commit, Goto, HoldsPage
  <2>3. CASE CommitPage(Page, attemptNo) /\ ContinueFrom("page", <<Page, attemptNo>>, 1)
    <3>1. Page \in Pages
      BY <1>2, <1>15 DEF Commit, HoldsPage
    <3>2. /\ AttemptBudget' /\ head' = Page /\ <<Page, attemptNo>> \in ledger'
          /\ Page < NumPages => attempts'[Page + 1] = <<>>
      BY <2>3, <3>1, CommitMovesHead
    <3>3. Page # NumPages => 1 = Len(attempts'[Page + 1]) + 1
      BY <3>1, <3>2, PagesAssumption DEF Pages
    <3>4. QED
      BY <2>3, <3>2, <3>3, RunnerContinues
  <2>4. QED
    BY <1>15, <2>1, <2>2, <2>3 DEF Commit
<1>16. CASE DropCommit
  BY <1>4, <1>16 DEF DropCommit, QuarantineCommit
<1>17. QED
  BY <1>5, <1>6, <1>7, <1>9, <1>10, <1>11, <1>12, <1>13, <1>14, <1>15, <1>16 DEF PageStep

LEMMA RunnerStep ==
    ASSUME IInv, LedgerInv, RunnerInv, Next
    PROVE  RunnerInv'
<1>1. JournalTypeOK /\ Ledger /\ AttemptBudget
  BY DEF IInv, TypeOK, LedgerInv, RunnerInv
<1>2. ASSUME UNCHANGED attempts, pc' \notin RunnerPcs,
             pc' \in RecoveryPcs \cup {"rerequeue"} => caller' # "reconcile"
      PROVE  RunnerInv'
  BY <1>1, <1>2, LengthsKept, BudgetKept, RunnerElsewhere
<1>3. CASE IntakeStep \/ ResumerStep \/ StartupStep \/ SettleStep
  <2>1. UNCHANGED attempts
    BY <1>3
       DEF IntakeStep, Register, Accept, ResumerStep, RecheckClaim, RequeueForResume,
           EnqueueResumed, StartupStep, StartupRefail, StartupClaim, SettleStep, FailRun,
           Release, RecordArtifact, JournalUnchanged, FailResumingRun, RequeueFailedPage,
           MarkRunFailed, ClaimRecoveredRun, pageVars, journalVars
  <2>2. pc' \in {"accept", "queued", "idle", "requeue", "enqueue", "release"}
    BY <1>3
       DEF IntakeStep, Register, Accept, ResumerStep, RecheckClaim, RequeueForResume,
           EnqueueResumed, StartupStep, StartupRefail, StartupClaim, SettleStep, FailRun,
           Release, Goto, GoIdle, Enqueue
  <2>3. QED
    BY <1>2, <2>1, <2>2 DEF RunnerPcs, PagePcs, RecoveryPcs
<1>4. CASE RecoveryStep
  BY <1>4, RecoveryRunner
<1>5. CASE PrepareStep
  <2>1. CASE RecordInitial
    <3>1. head = NoHead /\ head' = 0 /\ InitialCommit \in ledger' /\ UNCHANGED attempts
      BY <2>1 DEF RecordInitial, RecordInitialCommit
    <3>2. attempts[1] = <<>>
      BY <1>1, <3>1, PagesAssumption DEF Ledger, Untouched, Pages, NoHead
    <3>3. AttemptBudget'
      BY <1>1, <3>1, LengthsKept, BudgetKept
    <3>4. CASE \E next \in {"page", "remark"} : ContinueFrom(next, InitialCommit, 1)
      BY <3>1, <3>2, <3>3, <3>4, RunnerContinues DEF InitialCommit
    <3>5. QED
      BY <1>2, <2>1, <3>1, <3>4
         DEF RecordInitial, FailWith, RunnerPcs, PagePcs, RecoveryPcs
  <2>2. CASE MarkResumed
    <3>1. UNCHANGED pageVars
      BY <2>2 DEF MarkResumed, EnterRunning, MarkRunRunning, journalVars, pageVars
    <3>2. CASE Goto("page")
      BY <1>1, <2>2, <3>1, <3>2
         DEF MarkResumed, RunnerInv, RunnerPcs, PagePcs, AttemptPcs, BetweenAttempts,
             RecoveringFor, RecoveryPcs, AllPagesDone, Page, AttemptBudget, Goto, procVars,
             pageVars
    <3>3. QED
      BY <1>2, <2>2, <3>1, <3>2
         DEF MarkResumed, EnterRunning, FailWith, pageVars, RunnerPcs, PagePcs, RecoveryPcs
  <2>3. CASE ~(RecordInitial \/ MarkResumed)
    <3>1. UNCHANGED attempts
      BY <1>5, <2>3
         DEF PrepareStep, WorkerTake, LoadRun, CheckClaim, MarkRegistered, Render,
             VerifyRenders, PreparationFails, CheckPrepared, RecordRenders, StageInitial,
             PublishInitial, CheckResumed, EnterRunning, JournalUnchanged, MarkRunRunning,
             RecordArtifact, StageCommit, PublishCommit, pageVars, journalVars
    <3>2. pc' \notin RunnerPcs /\ (pc' \in RecoveryPcs \cup {"rerequeue"} => caller' = "worker")
      BY <1>5, <2>3
         DEF PrepareStep, WorkerTake, LoadRun, CheckClaim, MarkRegistered, Render,
             VerifyRenders, PreparationFails, CheckPrepared, RecordRenders, StageInitial,
             PublishInitial, CheckResumed, EnterRunning, Goto, GoIdle, FailWith,
             CallRecovery, RunnerPcs, PagePcs, RecoveryPcs
    <3>3. QED
      BY <1>2, <3>1, <3>2
  <2>4. QED
    BY <2>1, <2>2, <2>3
<1>6. CASE PageStep
  BY <1>6, PageRunner
<1>7. CASE FinalStep
  <2>1. UNCHANGED attempts
    BY <1>7
       DEF FinalStep, AuditCompletion, PrepareFinal, PrepareFinalFails, ValidateFinal,
           Finalize, ConfirmFinal, FinalizeCancelled, FinalizeRefused, DropFinal,
           JournalUnchanged, PublishFinal,
           CompleteRun, CancelFinalization, QuarantineFinal, pageVars, journalVars
  <2>2. pc' \in {"finalPrepare", "finalTxn", "finalUpdate", "finalAudit", "dropFinal",
                "release", "failRun"}
    BY <1>7
       DEF FinalStep, AuditCompletion, PrepareFinal, PrepareFinalFails, ValidateFinal,
           Finalize, ConfirmFinal, FinalizeCancelled, FinalizeRefused, DropFinal, Goto, FailWith
  <2>3. QED
    BY <1>2, <2>1, <2>2 DEF RunnerPcs, PagePcs, RecoveryPcs
<1>8. CASE ClientStep
  <2>1. CASE Cancel \/ DeliverToken
    BY <2>1, RunnerStay
       DEF Cancel, DeliverToken, RequestCancel, JournalUnchanged, pageVars, journalVars
  <2>2. CASE Resume \/ AbandonSubmission \/ AbandonResume
    <3>1. UNCHANGED attempts
      BY <2>2 DEF Resume, AbandonSubmission, AbandonResume, ClaimResume, MarkRunFailed,
                  pageVars, journalVars
    <3>2. pc' = "idle" \/ (pc' = "quarantine" /\ caller' = "resumer")
      BY <2>2 DEF Resume, AbandonSubmission, AbandonResume, GoIdle, CallRecovery
    <3>3. QED
      BY <1>2, <3>1, <3>2 DEF RunnerPcs, PagePcs, RecoveryPcs
  <2>3. QED
    BY <1>8, <2>1, <2>2 DEF ClientStep
<1>9. CASE FaultStep
  <2>1. CASE CommitFault
    <3>1. CASE UNCHANGED journalVars
      BY <2>1, <3>1, ReconcileUncommitted DEF CommitFault, RunnerPcs, PagePcs
    <3>2. CASE pc = "commit" /\ CommitPage(Page, attemptNo)
      <4>1. Page \in Pages
        BY <3>2 DEF IInv, ControlInv, HoldsPage
      <4>2. /\ AttemptBudget' /\ head' = Page
            /\ Page < NumPages => attempts'[Page + 1] = <<>>
        BY <3>2, <4>1, CommitMovesHead
      <4>3. pc' = "quarantine" /\ Page' = Page
        BY <2>1 DEF CommitFault, CallRecovery, Page
      <4>4. QED
        BY <4>2, <4>3 DEF RunnerInv, RunnerPcs, PagePcs, AttemptPcs, BetweenAttempts
    <3>3. QED
      BY <2>1, <3>1, <3>2 DEF CommitFault
  <2>2. CASE Corrupt
    BY <2>2, RunnerStay DEF Corrupt, pageVars, journalVars, procVars
  <2>3. CASE RollBackResume \/ InitialCommitFault \/ FinalizeFault
    <3>1. UNCHANGED attempts
      BY <2>3 DEF RollBackResume, InitialCommitFault, FinalizeFault, FailResumingRun,
                  JournalUnchanged, CompleteRun, pageVars, journalVars
    <3>2. pc' \in {"idle", "failRun", "finalAudit"}
      BY <2>3 DEF RollBackResume, InitialCommitFault, FinalizeFault, GoIdle, FailWith, Goto
    <3>3. QED
      BY <1>2, <3>1, <3>2 DEF RunnerPcs, PagePcs, RecoveryPcs
  <2>4. QED
    BY <1>9, <2>1, <2>2, <2>3 DEF FaultStep
<1>10. CASE Crash \/ Restart
  <2>1. UNCHANGED attempts
    BY <1>10 DEF Crash, Restart, JournalUnchanged, AuditCompletedRun, MarkRunFailed,
                 pageVars, journalVars
  <2>2. \/ pc' \in {"down", "idle"}
        \/ pc' = "quarantine" /\ caller' \in {"startup", "startupFailed"}
    BY <1>10 DEF Crash, Restart, Startup
  <2>3. QED
    BY <1>2, <2>1, <2>2 DEF RunnerPcs, PagePcs, RecoveryPcs
<1>11. QED
  BY <1>3, <1>4, <1>5, <1>6, <1>7, <1>8, <1>9, <1>10 DEF Next, OwnerStep

LEMMA RunnerHolds == Spec => []RunnerInv
<1>1. Init => RunnerInv
  BY AttemptsAssumption
     DEF Init, JournalInit, RunnerInv, RunnerPcs, PagePcs, AttemptPcs, BetweenAttempts,
         RecoveringFor, RecoveryPcs, AttemptBudget
<1>2. IInv /\ LedgerInv /\ RunnerInv /\ [Next]_vars => RunnerInv'
  BY RunnerStep, RunnerStay DEF vars, procVars, journalVars, pageVars
<1>3. QED
  BY <1>1, <1>2, InvariantHolds, LedgerHolds, PTL DEF Spec

(* Crashes, cancellations, resumes and reconciled commits never buy a page *)
(* more model attempts than max_model_attempts.                            *)
THEOREM AttemptBudgetHolds == Spec => []AttemptBudget
<1>1. RunnerInv => AttemptBudget
  BY DEF RunnerInv
<1>2. QED
  BY <1>1, RunnerHolds, PTL

(* Whatever route led the runner to a page, its memory comes from the head *)
(* commit and its attempt is the journal's newest one of the next page.    *)
THEOREM RunnerAtHeadHolds == Spec => []RunnerAtHead
<1>1. IInv /\ LedgerInv /\ RunnerInv => RunnerAtHead
  <2> SUFFICES ASSUME IInv, LedgerInv, RunnerInv PROVE RunnerAtHead
    OBVIOUS
  <2>1. HoldsAttempt <=> pc \in AttemptPcs
    BY DEF HoldsAttempt, AttemptPcs
  <2>2. pc \in AttemptPcs => attemptNo = Len(attempts[Page])
    BY ActiveIsNewest
       DEF IInv, TypeOK, ControlInv, LedgerInv, Ledger, LedgerInvariant, RunnerInv,
           AttemptPcs, HoldsPage
  <2>3. QED
    BY <2>1, <2>2 DEF RunnerInv, RunnerAtHead, RunnerPcs, BetweenAttempts
<1>2. QED
  BY <1>1, InvariantHolds, LedgerHolds, RunnerHolds, PTL

-----------------------------------------------------------------------------
(* The status of the run against what its owner does. *)

(* A submission that is not a resume has no checkpoint before the worker   *)
(* writes the initial one.                                                 *)
FreshPcs == IntakePcs \cup {"mark", "bind", "initial", "initialPublish", "initialTxn"}

FreshInv ==
    /\ pc \in FreshPcs => head = NoHead
    /\ pc \in {"queued", "load", "check"} /\ ~resuming => head = NoHead

LEMMA FreshElsewhere ==
    ASSUME pc' \notin FreshPcs \cup {"queued", "load", "check"}
    PROVE  FreshInv'
  BY DEF FreshInv

LEMMA FreshStay ==
    ASSUME FreshInv, UNCHANGED <<head, pc, resuming>>
    PROVE  FreshInv'
  BY DEF FreshInv

LEMMA FreshStep ==
    ASSUME IInv, FreshInv, Next
    PROVE  FreshInv'
<1> USE DEF FreshPcs, IntakePcs
<1>1. CASE IntakeStep \/ ResumerStep \/ StartupStep \/ SettleStep
  BY <1>1
     DEF FreshInv, IntakeStep, Register, Accept, ResumerStep, RecheckClaim,
         RequeueForResume, EnqueueResumed, StartupStep, StartupRefail, StartupClaim,
         SettleStep, FailRun, Release, Goto, GoIdle, Enqueue, RecordArtifact,
         JournalUnchanged, journalVars, pageVars
<1>2. CASE RecoveryStep
  <2>1. AfterRecovery \in {"claim", "refail", "recheck", "rerequeue"}
    BY DEF AfterRecovery, Callers, IInv, TypeOK
  <2>2. QED
    BY <1>2, <2>1, FreshElsewhere
       DEF RecoveryStep, RecoverQuarantine, RecoverReset, RecoverFinish, RequeueAndLoad,
           LoadCheckpoint, Goto, GoIdle, FailWith, ContinueFrom
<1>3. CASE PrepareStep
  BY <1>3
     DEF FreshInv, PrepareStep, WorkerTake, LoadRun, CheckClaim, MarkRegistered, Render,
         VerifyRenders, PreparationFails, CheckPrepared, RecordRenders, StageInitial,
         PublishInitial, RecordInitial, CheckResumed, MarkResumed, EnterRunning, Goto,
         GoIdle, FailWith, CallRecovery, ContinueFrom, JournalUnchanged, MarkRunRunning,
         RecordArtifact, StageCommit, PublishCommit, journalVars, pageVars, procVars
<1>4. CASE PageStep \/ FinalStep
  BY <1>4, FreshElsewhere
     DEF PageStep, NextPage, Begin, BeginRefused, ModelAnswers, Materialize, Discard,
         FailAttempt, Backoff, Stage, Publish, Commit, DropCommit, FinalStep,
         AuditCompletion, PrepareFinal, PrepareFinalFails, ValidateFinal, Finalize,
         ConfirmFinal, FinalizeCancelled, FinalizeRefused, DropFinal, Goto, FailWith, FailAttemptWith, ContinueFrom,
         CallRecovery
<1>5. CASE ClientStep
  <2>1. CASE Cancel \/ DeliverToken
    BY <2>1, FreshStay
       DEF Cancel, DeliverToken, RequestCancel, JournalUnchanged, pageVars, journalVars
  <2>2. CASE Resume \/ AbandonSubmission \/ AbandonResume
    BY <2>2, FreshElsewhere
       DEF Resume, AbandonSubmission, AbandonResume, GoIdle, CallRecovery
  <2>3. QED
    BY <1>5, <2>1, <2>2 DEF ClientStep
<1>6. CASE FaultStep
  <2>1. CASE Corrupt
    BY <2>1, FreshStay DEF Corrupt, procVars, journalVars
  <2>2. CASE ~Corrupt
    BY <1>6, <2>2, FreshElsewhere
       DEF FaultStep, RollBackResume, InitialCommitFault, CommitFault, FinalizeFault,
           GoIdle, FailWith, Goto, CallRecovery
  <2>3. QED
    BY <2>1, <2>2
<1>7. CASE Crash \/ Restart
  BY <1>7, FreshElsewhere DEF Crash, Restart, Startup
<1>8. QED
  BY <1>1, <1>2, <1>3, <1>4, <1>5, <1>6, <1>7 DEF Next, OwnerStep

LEMMA FreshHolds == Spec => []FreshInv
<1>1. Init => FreshInv
  BY DEF Init, JournalInit, FreshInv
<1>2. IInv /\ FreshInv /\ [Next]_vars => FreshInv'
  BY FreshStep, FreshStay DEF vars, procVars, journalVars
<1>3. QED
  BY <1>1, <1>2, InvariantHolds, PTL DEF Spec

(* A failed page belongs to a run that failed, or that is being resumed    *)
(* and has not entered the page loop again.  Without it recovery could     *)
(* fail a running run under no class (_finish_recovery_state).             *)
FailedPagesInv ==
    \A p \in Pages : pageStatus[p] = "failed" =>
        status \in {"failed", "resuming"} /\ pc # "remark"

(* No page becomes failed, and a failed or resuming run stays one of these.*)
LEMMA FailedPagesFrame ==
    ASSUME FailedPagesInv, pc' # "remark",
           \A p \in Pages : pageStatus'[p] = "failed" => pageStatus[p] = "failed",
           status \in {"failed", "resuming"} => status' \in {"failed", "resuming"}
    PROVE  FailedPagesInv'
  BY DEF FailedPagesInv

LEMMA NoFailedPage ==
    ASSUME \A p \in Pages : pageStatus'[p] # "failed"
    PROVE  FailedPagesInv'
  BY DEF FailedPagesInv

(* Before the initial commit every page is pending. *)
LEMMA FreshPagesPending ==
    ASSUME Ledger, head = NoHead
    PROVE  \A p \in Pages : pageStatus[p] = "pending" /\ attempts[p] = <<>>
  BY DEF Ledger, Untouched, Pages, NoHead

(* Only the page after the head can have failed; requeueing leaves none.   *)
LEMMA RequeueLeavesNoFailedPage ==
    ASSUME JournalTypeOK, Ledger, RequeueFailedPage
    PROVE  \A p \in Pages : pageStatus'[p] # "failed"
<1> SUFFICES ASSUME NEW p \in Pages, pageStatus'[p] = "failed" PROVE FALSE
  OBVIOUS
<1>1. ASSUME NEW q \in Pages, pageStatus[q] = "failed"
      PROVE  q = FirstIncomplete /\ MustRequeue
  <2>1. q \in Incomplete /\ FirstIncomplete \in Pages /\ FirstIncomplete <= q
    BY <1>1, FirstIncompleteIsNext DEF Incomplete
  <2>2. head # NoHead /\ q = head + 1
    <3>1. ~(q > head + 1)
      BY <1>1 DEF Ledger, Untouched
    <3>2. q \notin 1..head
      BY <1>1 DEF Ledger, LedgerInvariant, CompletedPrefix
    <3>3. QED
      BY <3>1, <3>2 DEF Pages, NoHead, JournalTypeOK
  <2>3. QED
    BY <1>1, <2>1, <2>2, FirstIncompleteIsNext DEF MustRequeue
<1>2. CASE MustRequeue
  <2>1. FirstIncomplete \in Pages
    BY <1>2, FirstIncompleteIsNext DEF MustRequeue
  <2>2. \A q \in Pages : pageStatus'[q] = IF q = FirstIncomplete THEN "pending"
                                           ELSE pageStatus[q]
    BY <1>2, <2>1 DEF RequeueFailedPage, SetPage, JournalTypeOK
  <2>3. QED
    BY <1>1, <2>2
<1>3. CASE ~MustRequeue
  BY <1>1, <1>3 DEF RequeueFailedPage
<1>4. QED
  BY <1>2, <1>3

LEMMA FailedPagesStep ==
    ASSUME IInv, LedgerInv, FreshInv, UpdateInv, FailedPagesInv, Next
    PROVE  FailedPagesInv'
<1>1. JournalTypeOK /\ Ledger
  BY DEF IInv, TypeOK, LedgerInv
<1>2. ASSUME UNCHANGED pageStatus, pc' # "remark",
             status \in {"failed", "resuming"} => status' \in {"failed", "resuming"}
      PROVE  FailedPagesInv'
  BY <1>2, FailedPagesFrame
<1>3. CASE IntakeStep \/ StartupStep \/ SettleStep
  BY <1>2, <1>3
     DEF IntakeStep, Register, Accept, StartupStep, StartupRefail, StartupClaim,
         SettleStep, FailRun, Release, Goto, GoIdle, Enqueue, RecordArtifact,
         JournalUnchanged, MarkRunFailed, ClaimRecoveredRun, SetFailed, Terminal,
         journalVars, pageVars, runVars
<1>4. CASE ResumerStep
  <2>1. CASE RequeueForResume
    BY <1>1, <2>1, RequeueLeavesNoFailedPage, NoFailedPage DEF RequeueForResume
  <2>2. CASE RecheckClaim \/ EnqueueResumed
    BY <1>2, <2>2
       DEF RecheckClaim, EnqueueResumed, JournalUnchanged, FailResumingRun, SetFailed,
           Goto, GoIdle, Enqueue, journalVars, pageVars
  <2>3. QED
    BY <1>4, <2>1, <2>2 DEF ResumerStep
<1>5. CASE RecoveryStep
  <2>1. CASE RecoverQuarantine
    BY <1>2, <2>1 DEF RecoverQuarantine, QuarantineOrphans, Goto, runVars, pageVars
  <2>2. CASE RecoverReset
    <3>1. \A p \in Pages : pageStatus'[p] = "failed" => pageStatus[p] = "failed"
      BY <1>1, <2>2 DEF RecoverReset, ResetInterruptedAttempt, SetPage, JournalTypeOK
    <3>2. QED
      BY <2>2, <3>1, FailedPagesFrame
         DEF RecoverReset, ResetInterruptedAttempt, Goto, runVars
  <2>3. CASE RecoverFinish
    <3>1. AfterRecovery # "remark"
      BY DEF AfterRecovery, Callers, IInv, TypeOK
    <3>2. QED
      BY <1>2, <2>3, <3>1
         DEF RecoverFinish, FinishRecovery, MarkIntegrityFailed, SetFailed, Terminal, Goto,
             GoIdle, FailWith, pageVars
  <2>4. CASE RequeueAndLoad
    <3>1. CASE RequeueFailedPage
      BY <1>1, <3>1, RequeueLeavesNoFailedPage, NoFailedPage
    <3>2. CASE ~RequeueFailedPage
      BY <1>2, <2>4, <3>2 DEF RequeueAndLoad, FailWith, journalVars
    <3>3. QED
      BY <3>1, <3>2
  <2>5. QED
    BY <1>5, <2>1, <2>2, <2>3, <2>4 DEF RecoveryStep
<1>6. CASE PrepareStep
  <2>1. CASE RecordInitial
    BY <1>1, <2>1, FreshPagesPending, NoFailedPage DEF RecordInitial, RecordInitialCommit
  <2>2. CASE MarkRegistered
    BY <1>1, <2>2, FreshPagesPending, NoFailedPage
       DEF MarkRegistered, EnterRunning, MarkRunRunning, FreshInv, FreshPcs, pageVars,
           journalVars
  <2>3. CASE MarkResumed
    BY <2>3, NoFailedPage
       DEF FailedPagesInv, MarkResumed, EnterRunning, MarkRunRunning, pageVars, journalVars
  <2>4. CASE ~(RecordInitial \/ MarkRegistered \/ MarkResumed)
    BY <1>2, <1>6, <2>4
       DEF PrepareStep, WorkerTake, LoadRun, CheckClaim, Render, VerifyRenders,
           PreparationFails, CheckPrepared, RecordRenders, StageInitial, PublishInitial,
           CheckResumed, Goto, GoIdle, FailWith, CallRecovery, JournalUnchanged,
           RecordArtifact, StageCommit, PublishCommit, journalVars, pageVars, runVars
  <2>5. QED
    BY <2>1, <2>2, <2>3, <2>4
<1>7. CASE PageStep
  <2>1. ASSUME NEW t \in {"pending", "running", "completed"}, SetPage(Page, t),
               UNCHANGED status, pc' # "remark"
        PROVE  FailedPagesInv'
    BY <1>1, <2>1, FailedPagesFrame DEF SetPage, JournalTypeOK
  <2>2. ASSUME status' = "failed", pc' # "remark" PROVE FailedPagesInv'
    BY <2>2 DEF FailedPagesInv
  <2>3. CASE NextPage \/ BeginRefused \/ ModelAnswers \/ Materialize \/ Backoff \/ Stage
             \/ Publish \/ DropCommit
    BY <1>2, <2>3
       DEF NextPage, BeginRefused, ModelAnswers, Materialize, Backoff, Stage, Publish,
           DropCommit, JournalUnchanged, StageCommit, PublishCommit, QuarantineCommit,
           Goto, FailWith, FailAttemptWith, ContinueFrom, CallRecovery, journalVars,
           pageVars, runVars
  <2>4. CASE Begin
    BY <2>1, <2>4, Zenon DEF Begin, BeginPageAttempt, Goto, runVars
  <2>5. CASE Discard
    BY <2>2, <2>5 DEF Discard, DiscardAttempt, SetFailed, FailWith
  <2>6. CASE FailAttempt
    <3>1. pc' # "remark"
      BY <2>6 DEF FailAttempt, FailWith, Goto
    <3>2. CASE status' = "failed"
      BY <2>2, <3>1, <3>2
    <3>3. CASE status' # "failed"
      <4>1. SetPage(Page, "pending") /\ UNCHANGED status
        BY <2>6, <3>3 DEF FailAttempt, DiscardAttempt, FailPageAttempt, SetFailed
      <4>2. QED
        BY <2>1, <3>1, <4>1
    <3>4. QED
      BY <3>2, <3>3
  <2>7. CASE Commit
    <3>1. pc' # "remark"
      BY <2>7 DEF Commit, CallRecovery, Goto, ContinueFrom
    <3>2. CASE UNCHANGED journalVars
      BY <1>2, <3>1, <3>2 DEF journalVars
    <3>3. CASE DiscardAttempt(Page, attemptNo)
      BY <2>2, <3>1, <3>3 DEF DiscardAttempt, SetFailed
    <3>4. CASE CommitPage(Page, attemptNo)
      <4>1. SetPage(Page, "completed") /\ UNCHANGED status
        BY <3>4 DEF CommitPage, runVars
      <4>2. QED
        BY <2>1, <3>1, <4>1
    <3>5. QED
      BY <2>7, <3>2, <3>3, <3>4 DEF Commit
  <2>8. QED
    BY <1>7, <2>3, <2>4, <2>5, <2>6, <2>7 DEF PageStep
<1>8. CASE FinalStep
  <2>1. UNCHANGED pageStatus /\ pc' # "remark"
    BY <1>8
       DEF FinalStep, AuditCompletion, PrepareFinal, PrepareFinalFails, ValidateFinal,
           Finalize, ConfirmFinal, FinalizeCancelled, FinalizeRefused, DropFinal,
           JournalUnchanged, PublishFinal,
           CompleteRun, CancelFinalization, QuarantineFinal, Goto, FailWith, pageVars,
           journalVars
  <2>2. status \in {"failed", "resuming"} => status' = status
    BY <1>8
       DEF FinalStep, AuditCompletion, PrepareFinal, PrepareFinalFails, ValidateFinal,
           Finalize, ConfirmFinal, FinalizeCancelled, FinalizeRefused, DropFinal,
           JournalUnchanged, PublishFinal,
           QuarantineFinal, UpdateInv, ReadyToPublish, runVars, journalVars
  <2>3. QED
    BY <1>2, <2>1, <2>2
<1>9. CASE ClientStep
  <2>1. CASE Cancel \/ DeliverToken
    BY <2>1
       DEF Cancel, DeliverToken, RequestCancel, SetFailed, JournalUnchanged, FailedPagesInv,
           Terminal, runVars, pageVars, journalVars
  <2>2. CASE Resume \/ AbandonSubmission \/ AbandonResume
    BY <1>2, <2>2
       DEF Resume, AbandonSubmission, AbandonResume, ClaimResume, MarkRunFailed, SetFailed,
           GoIdle, CallRecovery, pageVars, journalVars
  <2>3. QED
    BY <1>9, <2>1, <2>2 DEF ClientStep
<1>10. CASE FaultStep
  <2>1. CASE CommitFault
    <3>1. pc' # "remark"
      BY <2>1 DEF CommitFault, CallRecovery
    <3>2. CASE UNCHANGED journalVars
      BY <1>2, <3>1, <3>2 DEF journalVars
    <3>3. CASE CommitPage(Page, attemptNo)
      <4>1. SetPage(Page, "completed") /\ UNCHANGED status
        BY <3>3 DEF CommitPage, runVars
      <4>2. QED
        BY <1>1, <3>1, <4>1, FailedPagesFrame DEF SetPage, JournalTypeOK
    <3>4. QED
      BY <2>1, <3>2, <3>3 DEF CommitFault
  <2>2. CASE Corrupt
    BY <2>2 DEF Corrupt, FailedPagesInv, journalVars
  <2>3. CASE RollBackResume \/ InitialCommitFault \/ FinalizeFault
    BY <1>2, <2>3
       DEF RollBackResume, InitialCommitFault, FinalizeFault, FailResumingRun, SetFailed,
           CompleteRun, JournalUnchanged, GoIdle, FailWith, Goto, UpdateInv, ReadyToPublish,
           pageVars, journalVars
  <2>4. QED
    BY <1>10, <2>1, <2>2, <2>3 DEF FaultStep
<1>11. CASE Crash \/ Restart
  BY <1>2, <1>11
     DEF Crash, Restart, Startup, JournalUnchanged, AuditCompletedRun, MarkRunFailed,
         SetFailed, pageVars, journalVars
<1>12. QED
  BY <1>3, <1>4, <1>5, <1>6, <1>7, <1>8, <1>9, <1>10, <1>11 DEF Next, OwnerStep

LEMMA FailedPagesHold == Spec => []FailedPagesInv
<1>1. Init => FailedPagesInv
  BY DEF Init, JournalInit, FailedPagesInv
<1>2. /\ IInv /\ LedgerInv /\ FreshInv /\ UpdateInv /\ FailedPagesInv
      /\ [Next]_vars
      => FailedPagesInv'
  BY FailedPagesStep DEF FailedPagesInv, vars, journalVars
<1>3. QED
  BY <1>1, <1>2, InvariantHolds, LedgerHolds, FreshHolds, UpdateHolds, PTL DEF Spec

(* What the row of the run says at each step of its owner.  Attempts exist *)
(* only in a running run, since whatever else writes the status holds the  *)
(* run while no attempt does; a completed run has no owner left but the    *)
(* worker that audits, reports and releases it; and a run found corrupt is *)
(* out of every path that could give it another class.                     *)
SettledPcs == {"release", "idle", "down"}
PublishedPcs == SettledPcs \cup {"finalAudit", "failRun"}

StatusInv ==
    /\ status = "failed" <=> failure # "none"
    /\ status = "completed" => pc \in PublishedPcs
    /\ pc \in ResumerPcs \/ RecoveringFor("resumer") => status \in {"resuming", "failed"}
    /\ pc = "refail" \/ RecoveringFor("startupFailed") =>
           status = "failed" /\ outcome = failure
    /\ failure = "integrity" => \/ pc \in SettledPcs \cup {"refail"}
                                \/ RecoveringFor("startupFailed")
                                \/ pc = "failRun" /\ outcome = "integrity"
    /\ pc \in AttemptPcs => status = "running"

LEMMA StatusStay ==
    ASSUME StatusInv, UNCHANGED <<status, failure, pc, caller, outcome>>
    PROVE  StatusInv'
  BY DEF StatusInv, RecoveringFor

LEMMA StatusStep ==
    ASSUME IInv, LedgerInv, FailedPagesInv, StatusInv, Next
    PROVE  StatusInv'
<1> USE DEF StatusInv, SettledPcs, PublishedPcs, AttemptPcs, ResumerPcs, RecoveringFor, RecoveryPcs,
            SetFailed, Terminal
<1>1. status \in Statuses /\ failure \in Failures /\ caller \in Callers
  BY DEF IInv, TypeOK, JournalTypeOK
<1>2. CASE IntakeStep \/ ResumerStep
  BY <1>1, <1>2
     DEF IntakeStep, Register, Accept, ResumerStep, RecheckClaim, RequeueForResume,
         EnqueueResumed, Goto, GoIdle, Enqueue, ForgetLocals, RecordArtifact,
         FailResumingRun, RequeueFailedPage, JournalUnchanged, journalVars, pageVars,
         runVars, procVars, IntakePcs
<1>3. CASE StartupStep \/ SettleStep
  BY <1>1, <1>3
     DEF StartupStep, StartupRefail, StartupClaim, SettleStep, FailRun, Release, Goto,
         GoIdle, Enqueue, ForgetLocals, MarkRunFailed, OutcomeStands, ClaimRecoveredRun,
         JournalUnchanged, journalVars, pageVars, runVars, procVars, IInv, ControlInv
<1>4. CASE RecoveryStep
  <2>1. CASE RecoverQuarantine \/ RecoverReset
    BY <2>1
       DEF RecoverQuarantine, RecoverReset, QuarantineOrphans, ResetInterruptedAttempt,
           Goto, runVars, procVars
  <2>2. CASE RecoverFinish
    <3>1. status \in {"not_started", "running"} => ~MustRequeue
      BY FirstIncompleteIsNext DEF FailedPagesInv, MustRequeue, IInv, TypeOK, LedgerInv
    <3>2. QED
      BY <1>1, <2>2, <3>1
         DEF RecoverFinish, FinishRecovery, MarkIntegrityFailed, AfterRecovery, Callers,
             Goto, GoIdle, FailWith, ForgetLocals, procVars
  <2>3. CASE RequeueAndLoad
    BY <2>3
       DEF RequeueAndLoad, RequeueFailedPage, LoadCheckpoint, FailWith, ContinueFrom,
           IInv, ControlInv, runVars, journalVars
  <2>4. QED
    BY <1>4, <2>1, <2>2, <2>3 DEF RecoveryStep
<1>5. CASE PrepareStep
  BY <1>1, <1>5
     DEF PrepareStep, WorkerTake, LoadRun, CheckClaim, MarkRegistered, Render,
         VerifyRenders, PreparationFails, CheckPrepared, RecordRenders, StageInitial,
         PublishInitial, RecordInitial, CheckResumed, MarkResumed, EnterRunning, Goto,
         GoIdle, ForgetLocals, FailWith, CallRecovery, ContinueFrom, JournalUnchanged,
         MarkRunRunning, CanRun, RecordArtifact, StageCommit, PublishCommit,
         RecordInitialCommit, journalVars, pageVars, runVars, procVars
<1>6. CASE PageStep
  <2>1. CASE NextPage \/ Begin \/ BeginRefused \/ ModelAnswers \/ Materialize \/ Backoff
    BY <1>1, <2>1
       DEF NextPage, Begin, BeginRefused, ModelAnswers, Materialize, Backoff, Goto,
           FailWith, FailAttemptWith, ContinueFrom, BeginPageAttempt, CanBegin,
           JournalUnchanged, journalVars, runVars, procVars
  <2>2. CASE Discard \/ FailAttempt
    BY <1>1, <2>2
       DEF Discard, FailAttempt, DiscardAttempt, FailPageAttempt, Goto, FailWith, procVars,
           IInv, ControlInv
  <2>3. CASE Stage \/ Publish \/ Commit \/ DropCommit
    BY <1>1, <2>3
       DEF Stage, Publish, Commit, DropCommit, StageCommit, PublishCommit, CommitPage,
           DiscardAttempt, QuarantineCommit, Goto, FailWith, CallRecovery, ContinueFrom,
           journalVars, runVars, procVars
  <2>4. QED
    BY <1>6, <2>1, <2>2, <2>3 DEF PageStep
<1>7. CASE FinalStep
  BY <1>1, <1>7
     DEF FinalStep, AuditCompletion, PrepareFinal, PrepareFinalFails, ValidateFinal,
         Finalize, ConfirmFinal, FinalizeCancelled, FinalizeRefused, DropFinal,
           JournalUnchanged, PublishFinal,
         CompleteRun, CancelFinalization, QuarantineFinal, Goto, FailWith, runVars,
         journalVars, procVars
<1>8. CASE ClientStep
  <2>1. CASE Cancel \/ DeliverToken
    BY <1>1, <2>1
       DEF Cancel, DeliverToken, RequestCancel, JournalUnchanged, ServiceReady,
           StartupRunning, StartupPcs, runVars, journalVars
  <2>2. CASE Resume \/ AbandonSubmission \/ AbandonResume
    BY <1>1, <2>2
       DEF Resume, AbandonSubmission, AbandonResume, ClaimResume, MarkRunFailed,
           OutcomeStands, GoIdle, ForgetLocals, CallRecovery, IntakePcs, journalVars
  <2>3. QED
    BY <1>8, <2>1, <2>2 DEF ClientStep
<1>9. CASE FaultStep
  BY <1>1, <1>9
     DEF FaultStep, RollBackResume, InitialCommitFault, CommitFault, FinalizeFault, Corrupt,
         ResumerRunning, FailResumingRun, CommitPage, CompleteRun, JournalUnchanged, GoIdle,
         ForgetLocals, FailWith, CallRecovery, Goto, runVars, journalVars, procVars
<1>10. CASE Crash \/ Restart
  BY <1>1, <1>10
     DEF Crash, Restart, Startup, JournalUnchanged, AuditCompletedRun, MarkRunFailed,
         OutcomeStands, ForgetLocals, journalVars
<1>11. QED
  BY <1>2, <1>3, <1>4, <1>5, <1>6, <1>7, <1>8, <1>9, <1>10 DEF Next, OwnerStep

LEMMA StatusHolds == Spec => []StatusInv
<1>1. Init => StatusInv
  BY DEF Init, JournalInit, StatusInv, SettledPcs, PublishedPcs, AttemptPcs, ResumerPcs, RecoveringFor,
         RecoveryPcs
<1>2. IInv /\ LedgerInv /\ FailedPagesInv /\ StatusInv /\ [Next]_vars => StatusInv'
  BY StatusStep, StatusStay DEF vars, procVars, journalVars
<1>3. QED
  BY <1>1, <1>2, InvariantHolds, LedgerHolds, FailedPagesHold, PTL DEF Spec

-----------------------------------------------------------------------------
(* RunLifecycle implements RunContract: each transaction of the journal is *)
(* one step a client may observe, or none.                                 *)

ClientSees == [Contract!Next]_(Contract!contractVars)

LEMMA Unobserved ==
    ASSUME UNCHANGED runVars, head' = head \/ (head = NoHead /\ head' = 0)
    PROVE  ClientSees
  BY DEF ClientSees, Contract!contractVars, runVars, NoHead

(* mark_run_failed moves an integrity failure to no other class, as long   *)
(* as its caller does not name one.                                        *)
LEMMA MarkRunFailedSeen ==
    ASSUME JournalTypeOK, NEW class \in Failures \ {"none"}, MarkRunFailed(class),
           failure = "integrity" => class = "integrity"
    PROVE  ClientSees
<1>1. UNCHANGED <<cancelRequested, head>> /\ status \in Statuses /\ failure \in Failures
  BY DEF MarkRunFailed, pageVars, JournalTypeOK
<1>2. CASE OutcomeStands(class)
  BY <1>1, <1>2, Unobserved DEF MarkRunFailed, runVars
<1>3. CASE ~OutcomeStands(class) /\ status = "failed"
  <2>1. Contract!Reclassify
    BY <1>1, <1>3
       DEF MarkRunFailed, SetFailed, OutcomeStands, Contract!Reclassify, Failures
  <2>2. QED
    BY <2>1 DEF ClientSees, Contract!Next
<1>4. CASE ~OutcomeStands(class) /\ status # "failed"
  <2>1. Contract!Fail
    BY <1>1, <1>4
       DEF MarkRunFailed, SetFailed, OutcomeStands, Contract!Fail, Contract!Active,
           Failures, Statuses
  <2>2. QED
    BY <2>1 DEF ClientSees, Contract!Next
<1>5. QED
  BY <1>2, <1>3, <1>4

(* The other transactions on the row of the run. *)
LEMMA RowSeen ==
    ASSUME JournalTypeOK, FlagInv, StatusInv
    PROVE  /\ \A c \in Failures \ {"none"} : FailResumingRun(c) => ClientSees
           /\ MarkIntegrityFailed => ClientSees
           /\ RequestCancel => ClientSees
           /\ MarkRunRunning => ClientSees
           /\ ClaimResume => ClientSees
           /\ ClaimRecoveredRun => ClientSees
           /\ FinishRecovery /\ (status \in {"not_started", "running"} => ~MustRequeue)
                 => ClientSees
           /\ CancelFinalization /\ status = "running" => ClientSees
           /\ AuditCompletedRun => ClientSees
           /\ CompleteRun /\ status = "running" /\ ~cancelRequested /\ head = NumPages
                 => ClientSees
<1>1. /\ status \in Statuses /\ failure \in Failures
      /\ status = "failed" <=> failure # "none"
      /\ cancelRequested => status \in {"running", "completed", "failed"}
  BY DEF JournalTypeOK, StatusInv, FlagInv, Terminal
<1>2. Contract!Next => ClientSees
  BY DEF ClientSees
<1> USE DEF SetFailed, Terminal, Statuses, Failures, Contract!Active, pageVars, runVars
<1>3. ASSUME NEW c \in Failures \ {"none"}, FailResumingRun(c) PROVE ClientSees
  BY <1>1, <1>2, <1>3, Unobserved DEF FailResumingRun, Contract!Next, Contract!Fail
<1>4. ASSUME MarkIntegrityFailed PROVE ClientSees
  BY <1>1, <1>2, <1>4, Unobserved
     DEF MarkIntegrityFailed, Contract!Next, Contract!Fail, Contract!Reclassify
<1>5. ASSUME RequestCancel PROVE ClientSees
  BY <1>1, <1>2, <1>5, Unobserved DEF RequestCancel, Contract!Next, Contract!RequestCancel
<1>6. ASSUME MarkRunRunning PROVE ClientSees
  BY <1>1, <1>2, <1>6 DEF MarkRunRunning, CanRun, Contract!Next, Contract!Start
<1>7. ASSUME ClaimResume PROVE ClientSees
  BY <1>1, <1>2, <1>7 DEF ClaimResume, Contract!Next, Contract!Resume
<1>8. ASSUME ClaimRecoveredRun PROVE ClientSees
  BY <1>1, <1>2, <1>8, Unobserved
     DEF ClaimRecoveredRun, Contract!Next, Contract!Start, Contract!Fail
<1>9. ASSUME FinishRecovery, status \in {"not_started", "running"} => ~MustRequeue
      PROVE  ClientSees
  BY <1>1, <1>2, <1>9, Unobserved DEF FinishRecovery, Contract!Next, Contract!Fail
<1>10. ASSUME CancelFinalization, status = "running" PROVE ClientSees
  BY <1>2, <1>10 DEF CancelFinalization, Contract!Next, Contract!Fail
<1>11. ASSUME AuditCompletedRun PROVE ClientSees
  BY <1>1, <1>2, <1>11, Unobserved DEF AuditCompletedRun, Contract!Next, Contract!Demote
<1>12. ASSUME CompleteRun, status = "running", ~cancelRequested, head = NumPages
       PROVE  ClientSees
  BY <1>1, <1>2, <1>12, PagesAssumption
     DEF CompleteRun, Contract!Next, Contract!Complete, NoHead
<1>13. QED
  BY <1>3, <1>4, <1>5, <1>6, <1>7, <1>8, <1>9, <1>10, <1>11, <1>12

(* The transactions on a page attempt, made while the run is running. *)
LEMMA AttemptSeen ==
    ASSUME JournalTypeOK, status = "running", NEW p \in Pages, NEW k
    PROVE  /\ DiscardAttempt(p, k) => ClientSees
           /\ \A c \in {"retry", "integrity", "other"} :
                  FailPageAttempt(p, k, c, c = "retry") => ClientSees
           /\ CommitPage(p, k) /\ ~cancelRequested /\ head # NoHead => ClientSees
<1>1. Contract!Next => ClientSees
  BY DEF ClientSees
<1>2. ASSUME DiscardAttempt(p, k) PROVE ClientSees
  BY <1>1, <1>2
     DEF DiscardAttempt, SetFailed, Contract!Next, Contract!Fail, Contract!Active
<1>3. ASSUME NEW c \in {"retry", "integrity", "other"},
             FailPageAttempt(p, k, c, c = "retry")
      PROVE  ClientSees
  BY <1>1, <1>3, Unobserved
     DEF FailPageAttempt, SetFailed, Contract!Next, Contract!Fail, Contract!Active, runVars
<1>4. ASSUME CommitPage(p, k), ~cancelRequested, head # NoHead PROVE ClientSees
  <2>1. /\ head' = head + 1 /\ UNCHANGED runVars
        /\ head \in 0..NumPages /\ head < NumPages /\ head' # NoHead
    BY <1>4, PagesAssumption
       DEF CommitPage, CommitClaimValid, JournalTypeOK, Pages, NoHead
  <2>2. Contract!CompletePage
    BY <1>4, <2>1 DEF Contract!CompletePage, runVars
  <2>3. QED
    BY <1>1, <2>2 DEF Contract!Next
<1>5. QED
  BY <1>2, <1>3, <1>4

(* Everything else the owner does to the journal stays out of sight. *)
LEMMA OthersUnseen ==
    /\ \A p : BeginPageAttempt(p) => ClientSees
    /\ \A a : RecordArtifact(a) => ClientSees
    /\ \A p, k : PublishCommit(p, k) => ClientSees
    /\ \A p, k : QuarantineCommit(p, k) => ClientSees
    /\ RequeueFailedPage => ClientSees
    /\ RecordInitialCommit => ClientSees
    /\ StageCommit => ClientSees
    /\ QuarantineOrphans => ClientSees
    /\ ResetInterruptedAttempt => ClientSees
    /\ PublishFinal => ClientSees
    /\ QuarantineFinal => ClientSees
    /\ UNCHANGED journalVars => ClientSees
  BY Unobserved
     DEF BeginPageAttempt, RecordArtifact, PublishCommit, QuarantineCommit,
         RequeueFailedPage, RecordInitialCommit, StageCommit, QuarantineOrphans,
         ResetInterruptedAttempt, PublishFinal, QuarantineFinal, runVars, pageVars,
         journalVars

LEMMA StepSeen ==
    ASSUME IInv, LedgerInv, FlagInv, UpdateInv, FailedPagesInv, StatusInv, Next
    PROVE  ClientSees
<1> USE OthersUnseen DEF JournalUnchanged
<1>1. JournalTypeOK /\ status \in Statuses
  BY DEF IInv, TypeOK, JournalTypeOK
<1>2. ASSUME NEW class \in Failures \ {"none"}, MarkRunFailed(class),
             failure = "integrity" => class = "integrity"
      PROVE  ClientSees
  BY <1>1, <1>2, MarkRunFailedSeen
<1>3. status # "failed" => failure # "integrity"
  BY DEF StatusInv
<1>4. CASE IntakeStep \/ ResumerStep
  BY <1>1, <1>4, RowSeen
     DEF IntakeStep, Register, Accept, ResumerStep, RecheckClaim, RequeueForResume,
         EnqueueResumed, Failures
<1>5. CASE StartupStep \/ SettleStep
  <2>1. CASE StartupRefail
    BY <1>2, <2>1
       DEF StartupRefail, StatusInv, IInv, TypeOK, JournalTypeOK, Failures
  <2>2. CASE StartupClaim
    BY <1>1, <1>2, <1>3, <2>2, RowSeen DEF StartupClaim, Failures
  <2>3. CASE FailRun
    <3>1. outcome \in Failures \ {"none"} /\ (failure = "integrity" => outcome = "integrity")
      BY <2>3 DEF FailRun, IInv, ControlInv, Failures, StatusInv, SettledPcs, RecoveringFor,
                  RecoveryPcs
    <3>2. QED
      BY <1>2, <2>3, <3>1 DEF FailRun
  <2>4. CASE Release
    BY <1>2, <1>3, <2>4 DEF Release, Failures, Terminal
  <2>5. QED
    BY <1>5, <2>1, <2>2, <2>3, <2>4 DEF StartupStep, SettleStep
<1>6. CASE RecoveryStep
  <2>1. status \in {"not_started", "running"} => ~MustRequeue
    BY FirstIncompleteIsNext DEF FailedPagesInv, MustRequeue, IInv, TypeOK, LedgerInv
  <2>2. QED
    BY <1>1, <1>6, <2>1, RowSeen
       DEF RecoveryStep, RecoverQuarantine, RecoverReset, RecoverFinish, RequeueAndLoad
<1>7. CASE PrepareStep
  <2>1. CASE Render \/ PreparationFails
    BY <2>1, Unobserved DEF Render, PreparationFails, pageVars
  <2>2. CASE ~(Render \/ PreparationFails)
    BY <1>1, <1>7, <2>2, RowSeen
       DEF PrepareStep, WorkerTake, LoadRun, CheckClaim, MarkRegistered, VerifyRenders,
           CheckPrepared, RecordRenders, StageInitial, PublishInitial, RecordInitial,
           CheckResumed, MarkResumed, EnterRunning
  <2>3. QED
    BY <2>1, <2>2
<1>8. pc \in AttemptPcs => status = "running" /\ Page \in Pages /\ head # NoHead
  BY DEF StatusInv, AttemptPcs, IInv, ControlInv, HoldsPage
<1>9. CASE PageStep
  <2>1. CASE FailAttempt
    <3>1. status = "running" /\ Page \in Pages /\ outcome \in {"retry", "integrity", "other"}
      BY <1>8, <2>1 DEF FailAttempt, AttemptPcs, IInv, ControlInv
    <3>2. QED
      BY <1>1, <2>1, <3>1, AttemptSeen DEF FailAttempt
  <2>2. CASE Discard \/ Commit
    BY <1>1, <1>8, <2>2, AttemptSeen DEF Discard, Commit, Cancelled, AttemptPcs
  <2>3. CASE ~(FailAttempt \/ Discard \/ Commit)
    BY <1>9, <2>3
       DEF PageStep, NextPage, Begin, BeginRefused, ModelAnswers, Materialize, Backoff,
           Stage, Publish, DropCommit
  <2>4. QED
    BY <2>1, <2>2, <2>3
<1>10. CASE FinalStep
  BY <1>1, <1>10, RowSeen
     DEF FinalStep, AuditCompletion, PrepareFinal, PrepareFinalFails, ValidateFinal,
         Finalize, ConfirmFinal, FinalizeCancelled, FinalizeRefused, DropFinal, Cancelled,
         UpdateInv, ReadyToPublish
<1>11. CASE ClientStep
  <2>1. CASE AbandonSubmission
    <3>1. failure # "integrity"
      BY <2>1 DEF AbandonSubmission, StatusInv, SettledPcs, IntakePcs, RecoveringFor,
                  RecoveryPcs
    <3>2. QED
      BY <1>2, <2>1, <3>1 DEF AbandonSubmission, Failures
  <2>2. CASE AbandonResume
    BY <1>2, <1>3, <2>2 DEF AbandonResume, Failures
  <2>3. CASE Cancel \/ DeliverToken \/ Resume
    BY <1>1, <2>3, RowSeen DEF Cancel, DeliverToken, Resume
  <2>4. QED
    BY <1>11, <2>1, <2>2, <2>3 DEF ClientStep
<1>12. CASE FaultStep
  BY <1>1, <1>8, <1>12, RowSeen, AttemptSeen
     DEF FaultStep, RollBackResume, InitialCommitFault, CommitFault, FinalizeFault, Corrupt,
         Cancelled, UpdateInv, ReadyToPublish, AttemptPcs, Failures
<1>13. CASE Crash \/ Restart
  BY <1>1, <1>2, <1>3, <1>13, RowSeen DEF Crash, Restart, Failures, Terminal
<1>14. QED
  BY <1>4, <1>5, <1>6, <1>7, <1>9, <1>10, <1>11, <1>12, <1>13 DEF Next, OwnerStep

(* What a client observes of a run follows RunContract: pages complete one *)
(* at a time and only in a running unflagged run, only a resume withdraws  *)
(* a cancellation, and a failure keeps its class except where RunContract  *)
(* lets it change, whatever crashes, faults and recoveries lie between.    *)
THEOREM ImplementsRunContract == Spec => ImplementsContract
<1>1. Init => Contract!Init
  BY DEF Init, JournalInit, Contract!Init
<1>2. /\ IInv /\ LedgerInv /\ FlagInv /\ UpdateInv /\ FailedPagesInv /\ StatusInv
      /\ [Next]_vars
      => [Contract!Next]_(Contract!contractVars)
  <2>1. UNCHANGED vars => ClientSees
    BY OthersUnseen DEF vars
  <2>2. QED
    BY <2>1, StepSeen DEF ClientSees
<1>3. QED
  BY <1>1, <1>2, InvariantHolds, LedgerHolds, FlagHolds, UpdateHolds, FailedPagesHold,
     StatusHolds, PTL DEF Spec, ImplementsContract, Contract!Spec

===============================================================================
