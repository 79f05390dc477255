------------------------------ MODULE PageChain ------------------------------
(***************************************************************************)
(* What flows from page to page of one run, and what the storage keeps of  *)
(* it: PageRunner carries memory and structure from answer to answer,      *)
(* commit_page re-derives every commit from the snapshot before it,        *)
(* recovery reloads both from the last commit, the audit replays the whole *)
(* chain, and the completed run's final directory copies its head.         *)
(*                                                                         *)
(* RunLifecycle holds the run's status, attempts and cancellation; here    *)
(* is the data, so the run's control is reduced to what moves it.  A       *)
(* commit directory is its manifest and its files; a hash is injective and *)
(* stands for what it is the hash of, so that the manifest of a commit     *)
(* holds its files and the ledger row of a commit its manifest; the commit *)
(* id in the next manifest is the page and attempt, which determine it.    *)
(* Faults: "crash"; "storage", a commit that raises before or after its    *)
(* transaction; "alteration", files of a stored commit changed from        *)
(* outside, with or without its manifest (MaxAlterations times).           *)
(*                                                                         *)
(* The storage checks files and reads them again to use them; each of the  *)
(* two is a step of its own here, with alterations in between.  One audit  *)
(* is one step: a file that changes during it was changed before or after. *)
(***************************************************************************)
EXTENDS PageContracts, FiniteSets

CONSTANTS NumPages, MaxAttempts, MaxAlterations, Answers, Faults, NoFile

ASSUME ChainAssumption ==
    /\ NumPages \in Nat \ {0}
    /\ MaxAttempts \in Nat \ {0}
    /\ MaxAlterations \in Nat
    /\ Answers \subseteq Responses
    /\ NoFile \notin Responses \cup Memories \cup Seq(StructurePages)
    /\ Faults \subseteq {"crash", "storage", "alteration"}

VARIABLES
    pc,           \* the step of the owner of the run
    memory,       \* PageRunner.run: memory
    structure,    \* PageRunner.run: structure
    page,         \* PageRunner.run: page_number
    candidate,    \* the files about to be committed
    head,         \* runs.head_page, -1 before the initial commit
    attempts,     \* pages.attempt_count
    store,        \* the commit directories
    ledger,       \* the rows of commits and of completed attempts
    final,        \* the final directory
    published,    \* the run is completed
    alterations,  \* how often a stored commit was changed from outside
    accepted,     \* history: the answers whose pages were committed
    exposed       \* history: the audits after which files were altered
                  \* before what they had checked was read again

runnerVars == <<memory, structure, page, candidate>>
chainVars == <<head, attempts, store, ledger, accepted>>
outsideVars == <<alterations, exposed>>
vars == <<pc, runnerVars, chainVars, final, published, outsideVars>>

Pages == 1..NumPages
FileNames == {"memory", "structure", "page", "response", "usage"}

NoFiles == [f \in FileNames |-> NoFile]
NoCommit == [manifest |-> NoFile, files |-> NoFiles]
NoFinal == [manifest |-> NoFile, memory |-> NoFile, structure |-> NoFile, usage |-> NoFile]

Looping == {"page", "model", "materialize", "commit", "derive"}
Active == Looping \cup {"load", "read", "reconcile", "compare", "audit", "prepare", "copy",
                       "finalize", "match"}

-----------------------------------------------------------------------------
(* The chain a sequence of committed answers determines: the reference the *)
(* stored bytes are compared with.                                         *)

MemoryAfter(n) == IF n = 0 THEN EmptyMemory ELSE accepted[n].response.content

StructureAfter(n) ==
    [i \in 1..n |-> [number |-> i, topics |-> accepted[i].response.headings]]

CommitId(n) == IF n = 0 THEN <<0, 0>> ELSE <<n, accepted[n].attempt>>

FilesOf(n) ==
    IF n = 0
    THEN [NoFiles EXCEPT !["memory"] = EmptyMemory, !["structure"] = <<>>]
    ELSE [memory |-> MemoryAfter(n), structure |-> StructureAfter(n),
          page |-> PageArtifact(accepted[n].response, n, n),
          response |-> accepted[n].response, usage |-> <<n, accepted[n].attempt>>]

ManifestOf(n) ==
    [id |-> CommitId(n), previous |-> IF n = 0 THEN NoFile ELSE CommitId(n - 1),
     files |-> FilesOf(n)]

Genuine(n) == [manifest |-> ManifestOf(n), files |-> FilesOf(n)]

Unaltered == \A n \in 0..head : store[n] = Genuine(n) /\ ledger[n] = ManifestOf(n)

-----------------------------------------------------------------------------
(* What the storage checks. *)

(* verify_commit: the manifest is the one the ledger identifies, the       *)
(* directory holds exactly the files it names.                             *)
CommitIntactMutant(n) == store[n].manifest = ledger[n]
CommitIntact(n) ==
    /\ store[n].manifest = ledger[n]
    /\ store[n].files = store[n].manifest.files

(* validate_commit_metadata, validate_attempt_link and the replay of the   *)
(* page's derivation from the previous snapshot (_check_commits).          *)
ReplayValid(n) ==
    IF n = 0
    THEN InitialValid(store[0].files["memory"], store[0].files["structure"])
    ELSE /\ store[n].manifest.previous = ledger[n - 1].id
         /\ store[n].files["usage"] = ledger[n].id
         /\ PageValid(n, store[n].files,
                      store[n - 1].files["memory"], store[n - 1].files["structure"])

AuditOk == \A n \in 0..head : CommitIntact(n) /\ ReplayValid(n)

(* The snapshot read from a commit is there and is one. *)
SnapshotReads(n) ==
    /\ store[n].files["memory"] \in Memories
    /\ StructureValid(store[n].files["structure"])

(* _checkpoint's next attempt. *)
NextAttempt == IF head = NumPages THEN 1 ELSE attempts[head + 1] + 1

(* What load_checkpoint reads, and the runner's validate_checkpoint. *)
CheckpointAccepted ==
    /\ SnapshotReads(head)
    /\ CheckpointValid(head, NumPages, store[head].files["memory"],
                       store[head].files["structure"], NextAttempt)

(* What _load_prior_state reads, and validate_page_commit. *)
CommitAccepted ==
    /\ SnapshotReads(head)
    /\ PageValid(page, candidate, store[head].files["memory"], store[head].files["structure"])

(* _usage_records: the completed attempts in page order. *)
UsageRecords == [n \in 1..head |-> ledger[n].id]

(* The manifest audit_completion builds from the page rows. *)
CompletionManifest ==
    [head |-> head, pageCount |-> NumPages,
     pages |-> [n \in Pages |-> [number |-> n, attempts |-> attempts[n]]]]

(* check_completed_output *)
FinalOutputValidMutant ==
    /\ final.manifest = CompletionManifest
FinalOutputValid ==
    /\ final.manifest = CompletionManifest
    /\ final.memory = store[head].files["memory"]
    /\ final.structure = store[head].files["structure"]
    /\ final.usage = UsageRecords

-----------------------------------------------------------------------------
(* Steps. *)

Init ==
    /\ pc = "new"
    /\ memory = EmptyMemory /\ structure = <<>> /\ page = 1
    /\ candidate = NoFiles
    /\ head = -1
    /\ attempts = [n \in Pages |-> 0]
    /\ store = [n \in 0..NumPages |-> NoCommit]
    /\ ledger = [n \in 0..NumPages |-> NoFile]
    /\ final = NoFinal
    /\ published = FALSE
    /\ alterations = 0
    /\ accepted = <<>>
    /\ exposed = {}

(* The runner is gone, and its locals with it. *)
Forget == memory' = EmptyMemory /\ structure' = <<>> /\ page' = 1 /\ candidate' = NoFiles

Fail == pc' = "failed" /\ Forget

(* initialize_artifacts with EmptyShortTermMemory and no pages. *)
Initialize ==
    /\ pc = "new"
    /\ head' = 0
    /\ store' = [store EXCEPT ![0] = Genuine(0)]
    /\ ledger' = [ledger EXCEPT ![0] = ManifestOf(0)]
    /\ pc' = "load"
    /\ UNCHANGED <<runnerVars, attempts, accepted, final, published, outsideVars>>

(* The step after page n: the next one, or the completion audit. *)
After(n) == IF n = NumPages THEN "audit" ELSE "page"

(* load_checkpoint audits the run. *)
Load ==
    /\ pc = "load"
    /\ IF AuditOk
       THEN pc' = "read" /\ UNCHANGED runnerVars
       ELSE Fail
    /\ exposed' = exposed \ {"load"}
    /\ UNCHANGED <<chainVars, final, published, alterations>>

(* Then it reads the snapshot, from which the runner starts. *)
Read ==
    /\ pc = "read"
    /\ CheckpointAccepted
    /\ pc' = After(head)
    /\ page' = head + 1
    /\ memory' = store[head].files["memory"]
    /\ structure' = store[head].files["structure"]
    /\ UNCHANGED <<candidate, chainVars, final, published, outsideVars>>

ReadRefused ==
    /\ pc = "read"
    /\ ~CheckpointAccepted
    /\ Fail
    /\ UNCHANGED <<chainVars, final, published, outsideVars>>

BeginMutant ==
    /\ pc = "page"
    /\ attempts' = [attempts EXCEPT ![page] = @ + 1]
    /\ pc' = "model"
    /\ UNCHANGED <<runnerVars, head, store, ledger, accepted, final, published, outsideVars>>
Begin ==
    /\ pc = "page"
    /\ attempts[page] < MaxAttempts
    /\ attempts' = [attempts EXCEPT ![page] = @ + 1]
    /\ pc' = "model"
    /\ UNCHANGED <<runnerVars, head, store, ledger, accepted, final, published, outsideVars>>

Exhausted ==
    /\ pc = "page"
    /\ attempts[page] >= MaxAttempts
    /\ Fail
    /\ UNCHANGED <<chainVars, final, published, outsideVars>>

(* A validated response and its usage, or a model error that is retried    *)
(* (the next Begin) or not.                                                *)
Answer ==
    /\ pc = "model"
    /\ \E r \in Answers :
         candidate' = [NoFiles EXCEPT !["response"] = r,
                                      !["usage"] = <<page, attempts[page]>>]
    /\ pc' = "materialize"
    /\ UNCHANGED <<memory, structure, page, chainVars, final, published, outsideVars>>

NoAnswer ==
    /\ pc = "model"
    /\ \/ Fail
       \/ pc' = "page" /\ UNCHANGED runnerVars
    /\ UNCHANGED <<chainVars, final, published, outsideVars>>

Materialize ==
    /\ pc = "materialize"
    /\ LET r == candidate["response"] IN
         /\ Materializes(r, page, memory, structure)
         /\ candidate' = [candidate EXCEPT
                !["memory"] = NextMemory(r),
                !["structure"] = NextStructure(structure, r, page),
                !["page"] = PageArtifact(r, page, page)]
    /\ pc' = "commit"
    /\ UNCHANGED <<memory, structure, page, chainVars, final, published, outsideVars>>

ContractError ==
    /\ pc = "materialize"
    /\ ~Materializes(candidate["response"], page, memory, structure)
    /\ Fail
    /\ UNCHANGED <<chainVars, final, published, outsideVars>>

(* The commit's directory and its transaction. *)
CommitCandidate ==
    LET id == candidate["usage"]
        manifest == [id |-> id, previous |-> ledger[head].id, files |-> candidate]
    IN  /\ CommitAccepted
        /\ store' = [store EXCEPT ![page] = [manifest |-> manifest, files |-> candidate]]
        /\ ledger' = [ledger EXCEPT ![page] = manifest]
        /\ head' = page
        /\ accepted' = Append(accepted, [response |-> candidate["response"], attempt |-> id[2]])
        /\ UNCHANGED attempts

(* The runner takes over what it materialized (the end of its loop body);  *)
(* the page in hand is not read again.                                     *)
Advance ==
    /\ memory' = candidate["memory"]
    /\ structure' = candidate["structure"]
    /\ page' = page + 1
    /\ pc' = After(page)
    /\ candidate' = NoFiles

(* _load_prior_state verifies the commit of the head. *)
VerifyPrior ==
    /\ pc = "commit"
    /\ CommitIntact(head)
    /\ pc' = "derive"
    /\ UNCHANGED <<runnerVars, chainVars, final, published, outsideVars>>

Commit ==
    /\ pc = "derive"
    /\ CommitCandidate
    /\ Advance
    /\ UNCHANGED <<final, published, outsideVars>>

(* commit_page raises: it refuses, or fails before or after its transaction. *)
CommitRaises ==
    /\ \/ pc = "commit" /\ ~CommitIntact(head) /\ UNCHANGED chainVars
       \/ pc = "derive" /\ ~CommitAccepted /\ UNCHANGED chainVars
       \/ pc \in {"commit", "derive"} /\ "storage" \in Faults /\ UNCHANGED chainVars
       \/ pc = "derive" /\ "storage" \in Faults /\ CommitCandidate
    /\ pc' = "reconcile"
    /\ UNCHANGED <<runnerVars, final, published, outsideVars>>

(* page_commit_is_durable: recover_run audits the run and reads its        *)
(* checkpoint again; the head is the page before, or this page with the    *)
(* submitted snapshots.                                                    *)
Reconcile ==
    /\ pc = "reconcile"
    /\ AuditOk
    /\ pc' = "compare"
    /\ UNCHANGED <<runnerVars, chainVars, final, published, outsideVars>>

SubmittedIsStored ==
    /\ store[head].files["memory"] = candidate["memory"]
    /\ store[head].files["structure"] = candidate["structure"]

ReconciledMutant ==
    /\ pc = "compare"
    /\ head = page
    /\ CheckpointAccepted
    /\ SubmittedIsStored
    /\ page' = page + 1
    /\ pc' = After(page)
    /\ UNCHANGED <<memory, structure, candidate, chainVars, final, published, outsideVars>>
Reconciled ==
    /\ pc = "compare"
    /\ head = page
    /\ CheckpointAccepted
    /\ SubmittedIsStored
    /\ Advance
    /\ UNCHANGED <<chainVars, final, published, outsideVars>>

NotReconciled ==
    /\ \/ pc = "reconcile" /\ ~AuditOk
       \/ pc = "compare" /\ ~(head = page /\ CheckpointAccepted /\ SubmittedIsStored)
    /\ Fail
    /\ UNCHANGED <<chainVars, final, published, outsideVars>>

(* audit_completion *)
AuditCompletion ==
    /\ pc = "audit"
    /\ IF AuditOk /\ head = NumPages /\ ManifestValid(CompletionManifest)
       THEN pc' = "prepare" /\ UNCHANGED runnerVars
       ELSE Fail
    /\ UNCHANGED <<chainVars, final, published, outsideVars>>

(* prepare_final_manifest audits the run once more. *)
PrepareFinal ==
    /\ pc = "prepare"
    /\ IF AuditOk
       THEN pc' = "copy" /\ UNCHANGED runnerVars
       ELSE Fail
    /\ UNCHANGED <<chainVars, final, published, outsideVars>>

(* Then it copies the head's snapshots, unless one is missing. *)
CopyFinal ==
    LET files == store[head].files IN
    /\ pc = "copy"
    /\ IF NoFile \notin {files["memory"], files["structure"]}
       THEN /\ final' = [manifest |-> CompletionManifest, memory |-> files["memory"],
                         structure |-> files["structure"], usage |-> UsageRecords]
            /\ pc' = "finalize"
            /\ UNCHANGED runnerVars
       ELSE UNCHANGED final /\ Fail
    /\ UNCHANGED <<chainVars, published, outsideVars>>

(* _validate_final_candidate audits the run. *)
AuditFinal ==
    /\ pc = "finalize"
    /\ IF AuditOk
       THEN pc' = "match" /\ UNCHANGED runnerVars
       ELSE Fail
    /\ exposed' = exposed \ {"final"}
    /\ UNCHANGED <<chainVars, final, published, alterations>>

(* Then it compares the final directory with the head's files. *)
Finalize ==
    /\ pc = "match"
    /\ IF FinalOutputValid
       THEN published' = TRUE /\ pc' = "done" /\ UNCHANGED runnerVars
       ELSE UNCHANGED published /\ Fail
    /\ UNCHANGED <<chainVars, final, outsideVars>>

(* Startup or a resume takes the run up again: its audit passes, its next  *)
(* page has an attempt left, an unpublished final directory is set aside.  *)
Resume ==
    /\ pc \in {"down", "failed"}
    /\ head >= 0
    /\ AuditOk
    /\ head < NumPages => attempts[head + 1] < MaxAttempts
    /\ final' = NoFinal
    /\ pc' = "load"
    /\ UNCHANGED <<runnerVars, chainVars, published, outsideVars>>

Crash ==
    /\ "crash" \in Faults
    /\ pc \in Active
    /\ pc' = "down"
    /\ Forget
    /\ UNCHANGED <<chainVars, final, published, outsideVars>>

(* A file of a stored commit is lost or replaced by that of another commit, *)
(* or the whole directory by a consistent one, or by the original again.   *)
Replacements(n, f) == {NoFile} \cup {store[m].files[f] : m \in 0..head \ {n}}

AlterFile(n, f) ==
    \E v \in Replacements(n, f) :
        store' = [store EXCEPT ![n].files[f] = v]

AlterDirectory(n) ==
    \E r \in Answers :
        LET files == [ledger[n].files EXCEPT
                !["response"] = r, !["memory"] = r.content,
                !["structure"] = [@ EXCEPT ![n].topics = r.headings],
                !["page"] = PageArtifact(r, n, n)]
        IN  store' = [store EXCEPT ![n] = [manifest |-> [ledger[n] EXCEPT !.files = files],
                                          files |-> files]]

Restore(n) == store' = [store EXCEPT ![n] = [manifest |-> ledger[n], files |-> ledger[n].files]]

(* The audit whose result is about to be relied on. *)
Window == CASE pc = "read" -> {"load"} [] pc = "match" -> {"final"} [] OTHER -> {}

Alter ==
    /\ "alteration" \in Faults
    /\ alterations < MaxAlterations
    /\ alterations' = alterations + 1
    /\ exposed' = exposed \cup Window
    /\ \/ \E n \in 1..head : AlterDirectory(n)
       \/ \E n \in 0..head : Restore(n) \/ \E f \in FileNames : AlterFile(n, f)
    /\ UNCHANGED <<pc, runnerVars, head, attempts, ledger, accepted, final, published>>

Next ==
    \/ Initialize \/ Load \/ Read \/ ReadRefused
    \/ Begin \/ Exhausted \/ Answer \/ NoAnswer \/ Materialize \/ ContractError
    \/ VerifyPrior \/ Commit \/ CommitRaises \/ Reconcile \/ Reconciled \/ NotReconciled
    \/ AuditCompletion \/ PrepareFinal \/ CopyFinal \/ AuditFinal \/ Finalize
    \/ Resume \/ Crash \/ Alter

Spec == Init /\ [][Next]_vars

-----------------------------------------------------------------------------
(* Properties. *)

TypeOK ==
    /\ pc \in Active \cup {"new", "down", "failed", "done"}
    /\ memory \in Memories
    /\ page \in 1..(NumPages + 1)
    /\ head \in -1..NumPages
    /\ attempts \in [Pages -> 0..MaxAttempts]
    /\ accepted \in Seq([response : Answers, attempt : 1..MaxAttempts])
    /\ Len(accepted) = IF head = -1 THEN 0 ELSE head
    /\ published \in BOOLEAN
    /\ alterations \in 0..MaxAlterations
    /\ exposed \subseteq {"load", "final"}

(* What PageRunner.run carries into a page is the reading position of the  *)
(* last committed answer and the headings of all of them in page order,    *)
(* whether it got there by its own loop, by a reconciled commit or by a    *)
(* resume, and whatever was altered before, unless files were altered      *)
(* between the audit of its checkpoint and the reading of it.              *)
RunnerFollowsAnswers ==
    pc \in Looping =>
        /\ page = head + 1
        /\ "load" \notin exposed => memory = MemoryAfter(head) /\ structure = StructureAfter(head)

(* The audit's replay (_check_commits, validate_page_json) accepts exactly *)
(* the chain the committed answers determine: it raises no alarm over what *)
(* the program itself wrote, and no changed file passes it, nor a page     *)
(* that a runner started from a changed snapshot went on to commit.        *)
AuditExact == head >= 0 => (AuditOk <=> Unaltered)

(* While nothing is altered, storage never refuses what the runner hands   *)
(* it: the page it materialized commits, the checkpoint it loads is        *)
(* valid, a durable commit is recognised when it is reconciled, and the    *)
(* prepared final directory is published.                                  *)
NothingRefused ==
    alterations = 0 =>
        /\ pc \in {"load", "commit", "reconcile", "prepare", "finalize"} => AuditOk
        /\ pc \in {"read", "compare"} => CheckpointAccepted
        /\ pc = "derive" => CommitAccepted
        /\ pc = "compare" /\ head = page => SubmittedIsStored
        /\ pc = "match" => FinalOutputValid

(* The outputs of a published run are those of its committed answers, one  *)
(* usage record for each page, even when files were altered and put back   *)
(* before, while the runner loaded its checkpoint, committed a page or     *)
(* copied the final directory, unless they were altered once more between  *)
(* the last audit and the comparison with the final directory.             *)
PublishedFollowsAnswers ==
    published =>
        /\ head = NumPages
        /\ final.usage = [n \in Pages |-> <<n, accepted[n].attempt>>]
        /\ "final" \notin exposed => /\ final.memory = MemoryAfter(NumPages)
                                    /\ final.structure = StructureAfter(NumPages)
=============================================================================
