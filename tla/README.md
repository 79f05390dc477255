# A verified model of the document-processing service

This directory models `src/document_processing`: a local service that accepts
PDFs, preserves and renders them, lets a model read one page after the other,
and publishes one output per document, surviving crashes, cancellations and
provider failures on the way. It holds TLA+ modules, the configurations TLC
checks them with, and proofs checked by TLAPS.

    tlc -workers 2 -config RunLifecycle.cfg MCRunLifecycle.tla
    tlapm RunLifecycle_proofs.tla

Paths below are relative to `src/document_processing/`.

## 1. The system

| Component | Code | State it keeps | Hard behaviour |
|---|---|---|---|
| Run journal | `storage/` | SQLite rows of runs, pages, attempts, commits and recovery events; one directory per run (`source`, `page_images`, `initial`, `page_artifacts`, `final`, `.staging`, `quarantine`) | a rename and a transaction cannot be made together; audits and recovery |
| Orchestration | `processing/` | the position in the page loop, the memory and structure of the last committed page, the attempt in hand, the cancellation token | cancellation between any two steps, uncertain commits, retries |
| Runtime adapters | `runtime/` | none; several journal transactions per call | a claim, an audit and a requeue that are separate transactions |
| Worker | `service/worker.py`, `processing/offload.py` | bounded queue, startup backlog, reservations, generations and events, the active item, calls in threads | one run must have one owner; stop; calls that outlive their task |
| Local service | `service/local.py` and its helpers | admitted mutations, readiness, shutdown | clients that leave at any await; waiting; shutdown |
| Intake and lock | `service/uploads.py`, `service/validation.py`, `service/lock.py` | upload directory, lock file | partial uploads; two processes |
| Rendering | `pdf/` | page images and their manifest | partial bundles, changed bundles |
| Contracts | `contracts/` | none: pure reducers of memory and structure | first page, page order |
| Analysis | `analysis/` | none: a remote model call | transient and permanent failure, invalid answers |
| API, configuration, composition | `api/`, `config.py`, `composition.py` | none | - |

How they interact. `LocalRunService` reserves a place in the worker's queue,
makes a durable change through the service repository (registration, or the
claim of a failed run), and queues the run. `SingleRunWorker` serves one run at
a time: `DocumentProcessor.process_run` drives the journal through the
processing repository, one blocking call at a time in a thread. Cancellation
reaches the owner along two ways, the durable flag in the run's row and the
in-memory token of the activation. At startup `recover_durable_runs` audits
every run and hands the interrupted ones to the worker.

What makes each part correct:

* journal: what it calls committed is on disk, whole and in page order, in
  every state a crash can leave; nothing unreferenced blocks later work;
* orchestration: it works from what is durable; accepted work ends; a
  cancellation takes effect and is reported as such;
* worker and service: one owner of a run, none lost, reservations honoured,
  everyone who waits is answered, closing ends and is final;
* contracts and commit chain: what the reader carries from page to page, and
  what is published, is a function of the committed answers, through every
  crash, resume and alteration;
* rendering: a bundle the journal names is complete for ever, an unfinished one
  never blocks the next;
* intake: one process works in the artifact root, what the journal names is on
  disk, nothing is moved away under a submission, what is given up is settled,
  and an upload is stored as it was sent.

## 2. The modules

| Module | What it is |
|---|---|
| `RunJournal` | The durable state of one run and its transactions, renames, audits and recovery steps, as operators. |
| `RunLifecycle` | One run from registration to release: the service's calls about it, the owner that processes it, crashes, restarts and faults. Extends `RunJournal`. |
| `RunContract` | What a client of the service may observe of a run: its status, its cancellation and how many pages are done. |
| `RunLifecycle_proofs` | Theorems about `RunLifecycle`: types, control, accepted cancellations. |
| `RunLedger_proofs` | The tables of its journal, the status of the run, and the refinement of `RunContract`. Extends `RunLifecycle_proofs`. |
| `RunDisk_proofs` | Its directories against the journal. Extends `RunLedger_proofs`. |
| `SingleRunWorker` | The worker's queue, reservations, events, task and stop, over the statuses of several runs. |
| `LocalRunService` | Several clients that submit, resume, cancel and wait, and the shutdown. Extends `SingleRunWorker`. |
| `LocalRunService_proofs` | Theorems about `LocalRunService` and the worker. |
| `PageContracts` | The reducers and validators of answers, memory, structure, artifacts, checkpoints and manifests. |
| `PageChain` | One run's contents: the runner that carries memory and structure, the stored commit chain, its audit and the published output. Extends `PageContracts`. |
| `PageChain_proofs` | Theorems about `PageChain`. |
| `RenderContract` | What a run may rely on of its rendered pages. |
| `RenderBundle` | The file operations of rendering, binding, quarantine and recovery, with kills and power losses. Implements `RenderContract`. |
| `RenderBundle_proofs` | Theorems about `RenderBundle`. |
| `Intake` | Several processes over one artifact root: lock, startup, submissions and their threads, cleanup, shutdown, on disk. |
| `Intake_proofs` | Theorems about `Intake`. |
| `UploadStream` | The bytes of one upload: body limit, form, chunks, signature. |
| `UploadStream_proofs` | Theorems about `UploadStream`. |
| `MCRunLifecycle`, `MCLocalRunService`, `MCPageChain`, `MCRenderBundle`, `MCIntake`, `MCUploadStream` | What TLC starts from: model values, small sets, and the symmetry of runs, clients and processes. |

The two halves meet in one assumption: `RunLifecycle` gives a run a single
owner at a time, and `LocalRunService` shows that the worker and the service
keep it so (`SingleOwner`, proved for any number of runs and clients). The one writer outside this discipline is the late
call of an interrupted cleanup (`CleanupSparesOthers`, end of section 3); it is
not in `RunLifecycle`. In the other direction `SingleRunWorker` moves the
status of a run only as `RunLifecycle` does (`ProcessorCall`, `RequestCancel`,
the claim and the rollback of a resume).

### RunJournal and RunLifecycle

The row of the run is `status`, `cancelRequested`, `failure` and `head`
(`NoHead` before the initial commit). The failure keeps what the code tells
apart: none, cancelled, integrity (not resumable) and any other. `ledger` is the
table of commits, `published` the commit directories on disk, `journaled` the
artifacts the row references and `files` those that exist (`"staging"` stands
for a leftover in `.staging`). `pageStatus` and `attempts` are the rows of pages
and attempts. `sealed` says whether the recovery log copied into `final/` equals
the journal's, and `corrupt` whether a referenced artifact was altered.

The owner's volatile state is its place `pc`, the commit its memory and
structure come from (`base`), the number of its attempt, the failure it is
about to record (`outcome`), the status it read last, its token, and `caller`,
which distinguishes the three users of `recover_run`. A crash forgets all of it.

One action is one transaction, one rename, or one decision between two of them;
each blocking call is a step of its own, since the event loop serves a cancel
in between. `Stage`, `Publish` and `Commit` are the three parts of `commit_page`;
`PrepareFinal`, `ValidateFinal`, `Finalize` and `ConfirmFinal` those of the final
publication: the directory is renamed into place, the files are read and compared,
the status is written, and the published run is audited. The second and third are
one transaction, so no other writer comes in between (`WriteLocked`), but the
files may still change there, and only the audit that follows can notice. `RecoverQuarantine`,
`RecoverReset` and `RecoverFinish` are `recover_run`, with `AfterRecovery` for
what its three callers do with the answer. `Restart`, `StartupRefail` and
`StartupClaim` are `recover_durable_runs`. `Faults` selects what may go wrong:
crash, storage error, render error, analyzer error, a restart with another
configuration, an altered artifact.

Abstractions. A commit is identified by its page and attempt: the content hash
tells apart no more. The phase label is left out. Page rows exist as pending
from the start, while the code inserts them with the render manifest, which no
step can tell. Storage errors occur where `fault_hook` puts them. A shutdown is
a crash here: what it leaves is what a crash at that point leaves. The scope
checks around `materialize_page` are two reads. `process_pdf` and
`resume(claim=True)` of the processor, which the service does not use, are left
out. A model call ends (the adapter bounds it by its timeout).

### SingleRunWorker and LocalRunService

`queue`, `backlog`, `enqueued`, `reserved`, `anonymous` and `generation` are the
attributes of those names. Of the events, `signalled` holds those that are set;
one of an older generation that nobody captured is dropped, since nothing reads
it any more. `captured` and `listening` say which event a client's wait got and
whether it is blocked on it, `awaiting` the run whose release it awaits. The
queue's `None` is `NoItem`. Everything between two awaits under the asyncio lock
is one action. A call of the repository is two: its effect in the thread and its
continuation on the loop. Clients may leave at any await (`Quit`); a call they
leave in a thread stays in `offloads` until it ends.

`rollback_abandoned_resume` is two calls, each awaited and suppressed: `RollBack`
reads the status, `FailClaim` fails the run. A client interrupted in between, or
a call that raises, makes the cleanup end with the failing call in a thread
(`LeaveCleanup`) or never made (`GiveUp`); either way the place is given back
(`GiveBack`). The cleanup of a submission has the same two exits. `givenUp` is a
history variable: the runs whose last cleanup ended without failing them.

The processor is `ProcessorCall`, any transition `RunLifecycle` allows. The
token is not here: what a late token does to a run is in `RunLifecycle`
(`DeliverToken`). `fail_run` is assumed to succeed; the path on which the worker
suppresses its exception (`worker.py:284`) is not modelled. That of a cleanup may
be lost, as above. A client knows a run id only after the submission that returned it.

### PageContracts and PageChain

`RunLifecycle` says which commit the owner works from; `PageChain` says what is
in it. An answer is a record of what the reducers look at: whether the page has
content, its reading position (`content`) and its headings. `NextMemory`, `NextStructure` and
`PageArtifact` are `apply_short_term_memory_edit`,
`append_document_structure_page` and the artifact builder; `PageValid` is
`validate_page_json`, which recomputes them from stored files.
`memory`, `structure`, `page` and `candidate` are the locals of
`PageRunner.run`; `store` is the commit directories (manifest and files),
`ledger` the rows of `page_commits`, with the manifest each row stands for, and
`final` the final directory. `AuditOk` is the chain part of the audit:
`CommitIntact` compares files, manifest and row, `ReplayValid` repeats every
transition.

The storage audits files and reads them again when it uses them, and the two are
steps of their own, with alterations in between: `Load` audits the checkpoint and
`Read` reads it; `VerifyPrior` checks the commit a page rests on and `Commit`
derives the page's state from what it then reads; `Reconcile` asks whether a page
is durable and `Reconciled` or `NotReconciled` compares what is stored;
`AuditCompletion`, `PrepareFinal` and `CopyFinal`, then `AuditFinal` and
`Finalize`, are the audits, the copy and the comparison of the final publication.
One audit is one step. `exposed` is a history variable: the audits (of a load, of
the publication) after which a file was altered before it was read again. A
comparison of hashes takes `commit.json` as parsed: a manifest that was only
reformatted is no alteration.

`accepted` is a history variable: the answers in the order in which
their transactions committed. `Alter` loses a file, exchanges it with that of another commit,
replaces a directory by one that is consistent in itself, or puts the original
back; the database is out of its reach. A hash is the content it is taken of.
Cancellation, and the staging and renaming of a commit, are in `RunLifecycle`.

### RenderBundle

`images` and `manifest` are the two directory entries the renderer publishes,
`staged` its staging directory, `bound` the columns of `runs` that name the
bundle. Each `os.replace`, `os.link`, `mkdir` and `fsync_directory` is a step;
an entry is durable once its directory is synchronized, and `imagesMay` and
`manifestMay` hold what a power loss may leave of it. The quarantine of recovery
(`MoveManifest` to `SyncMade`) and that of the renderer's error handler
(`SetAside` to `SyncAgain`) are separate, as in the code. The pages of a run
are one step that may fail.

### Intake and UploadStream

A submission of `Intake` has a `task`, the coroutine, and a `thread`, the
blocking call it waits for; a client that leaves ends the first and not the
second, and `cleanup_submission` drains the second before it acts. `file` is
the run's directory, `fileMay` what a power loss may leave of it, `row` and
`failed` its journal row. `erred` is a history variable: some call on a run's
directory or on the journal has raised. `ListRuns`, `QuarantineUnregistered` and
`RecoverRegistered` are `recover_durable_runs`; `Acquire` is the `flock`, which
the end of a process releases. `RefuseLock` is an `ArtifactRootLockedError`, which
leaves the service unready; `AcquireRaises` is any other error of `acquire`, before
the `flock` or after it, which ends the startup (`"raised"`): `close()` then raises
that error before it unlocks, so that phase has no `Shutdown`, and a `flock` that
was granted is kept until the process ends (`Exit`). Queue places, and the worker that
serves an accepted run, are `LocalRunService`'s.

`UploadStream` is one request: the guard that compares a declared length, the
count of the messages received, the checks of the form and of its part, and the
loop of `preserve`, with every way of cutting the bytes into messages and chunks.

## 3. What is checked

Every property has a mutant: a plausible bug in one definition that makes TLC
find the property violated in the same run.

| Run | Properties | What it shows |
|---|---|---|
| `lifecycle` | `TypeOK`, `LedgerInvariant`, `AttemptBudget`, `CompletedIsWhole`, `ReleasedSettled`, `RunnerAtHead`, `DestinationsFree`, `FlaggedOutcome`, `RecoveryAccepts`, `PublishedReported`, `ImplementsContract`, `AcceptedWorkEnds`, `CancellationTakesEffect` | With every fault at any step, the journal is what the audit demands, completion is whole, the attempt budget holds across restarts and resumes, the owner works from what is durable, recovery rejects a run only if an artifact was altered, a run that was published is not reported as failed unless an artifact was altered, what a client observes follows `RunContract`, and accepted work and accepted cancellations end unless the process stops. |
| `service_safety` | `TypeOK`, `SingleOwner`, `LiveRunsOwned`, `ReservationsHold`, `SilentAfterClose` | One owner, no run lost but through a cleanup that was itself cut short, and then never one that has begun to run, no broken reservation, no write after the artifact root is unlocked, whoever leaves when. |
| `service_liveness` | `ResumersProceed`, `QueuedRunsServed`, `ClosingEnds` | A resume held back by an older activation goes on; queued work, the backlog included, is served; closing ends. |
| `service_waiting` | `WaitersReturn` | While no run is resumed, every `wait` is answered. |
| `page_chain` | `TypeOK`, `RunnerFollowsAnswers`, `AuditExact`, `NothingRefused`, `PublishedFollowsAnswers` | With crashes, storage errors, retries and three alterations at any moment, the memory and structure carried into a page, and what is published, are those of the committed answers, unless files were altered after the very audit that admitted them; the audit accepts exactly the genuine chain, so what such an alteration let into a page is found by the next audit; and while nothing is altered storage accepts all the runner makes. |
| `render` | `TypeOK`, `RenderUnblocked`, `ImplementsContract` | With kills, power losses, file and render errors, a named bundle is complete for ever, and no render meets what an earlier one left. |
| `intake` | `TypeOK`, `OwnerWritesAlone`, `BoundHasSource`, `WorkUndisturbed`, `ReadyRootIsTidy`, `AbandonedSettled`, `SubmissionsEnd`, `ClosingUnlocks` | Two processes, every fault: only the owner of the lock works in the root, threads of abandoned submissions included; what the journal names survives a power loss; no directory is moved from under a submission; as long as no call has raised, a ready service knows every run directory and a submission given up is failed or quarantined; every submission ends, and every shutdown unless the startup raised. |
| `upload_stream` | `StoredIsUploaded`, `RefusalsJustified` | An accepted file is stored byte for byte, and none is refused wrongly, however it is cut. |

Four runs end in a violation: they show where the code departs from what the
repository says of it.

| Run | Property | The statement | What happens |
|---|---|---|---|
| `corruption_stays` | `CorruptionStays` | `storage/cancellation.py:53`, "Fail closed on verified corruption, even after an earlier cancellation." | `mark_run_failed` replaces an integrity failure by the pending cancellation when `failed_result` records the failure a second time; the run becomes resumable. `RunContract` allows it (`Reclassify`), since it is what a client observes. |
| `stranded_waiter` | `WaitersReturn` | `service/waiting.py:22`, "Wait for the current work generation and always recheck durable state." | A wait captured the event of a generation advanced by a resume that was then refused; nobody signals it, and the wait blocks on a terminal run. |
| `render_startup` | `StartupAuditsEveryRun` | `runtime/startup.py:19`, "Audit every run and return interrupted current-config work in FIFO order." | Recovery is killed between moving `page_images` aside and making it again; the missing directory fails this and every later startup before the recovery that would repair it. |
| `intake_abandoned` | `FailedSubmissionSettled` | `service/intake_cleanup.py:24`, "Settle detached work, then fail or quarantine the partial submission." | A registration fails before its row exists; `fail_run` finds no run, its error is suppressed, and the directory stays until the next startup. |

Five more departures have a property and a configuration that refutes it, to
be run by hand. The first two are the exceptions that `LiveRunsOwned` and
`ClosingUnlocks` make:

| Configuration | Property | The statement | What happens |
|---|---|---|---|
| `LocalRunService_lost_claim.cfg` | `ClaimsCleanedUp` | `service/resume_cleanup.py:1`, "Cancellation-safe cleanup for an abandoned resume claim." | A resume is interrupted after its claim, and again while the cleanup reads the status (`resume_cleanup.py:22`): the interruption is suppressed, the failing call is never made, the reservation is given back (`local.py:222`), and the run stays `resuming` with nobody to run it until the next restart. |
| `Intake_kept_lock.cfg` | `ClosingAlwaysUnlocks` | `service/local.py:130`, "Quiesce publishers before releasing exclusive artifact-root ownership." | Writing the process id after the granted `flock` raises (`lock.py:76-80`), which `local.py:112` does not catch; `close()` raises the startup's error (`local.py:325`) before it releases anything. `ArtifactRootLock._file` is `None` and the open file lives on in the traceback of the startup task: the root stays locked until the process exits. |
| `RunLifecycle_cancelled_pages.cfg` | `CancelledPagesPending` | `README.md:118`, "pages without durable commits remain `pending`" | A resume cancelled between its claim and the requeue leaves a failed page in a cancelled run. |
| `LocalRunService_late_cleanup.cfg` | `CleanupSparesOthers` | `service/resume_cleanup.py:17`, "Fail only a resume claim left active after the caller was interrupted." | A resume interrupted a second time in its cleanup releases its reservation while the call that fails the run is still in a thread; it may fail the claim of a later resume. |
| `LocalRunService_stale_signal.cfg` | `CurrentSignalSettled` | `tests/service/test_local.py:170`, `test_stale_terminal_signal_cannot_wake_resumed_generation` | `cancel` signals the generation that is current after its call, which a resume may have advanced. |

### Bounds

* `NumPages = 3`, `MaxAttempts = 2` in `lifecycle`: a first, a middle and a last
  page, an attempt that is retried and a budget that is exhausted. Two pages in
  `corruption_stays`. Crashes, cancellations, restarts and resumes are not
  bounded: they return to states already seen, except that each attempt uses up
  budget.
* `Capacity = 1` makes every full queue happen, and two runs make a backlog.
  `MaxGeneration = 2` gives every run an activation and one that replaces it,
  `MaxOffloads = 1` one abandoned client call beside the owner's. Two clients are the
  least that interleave; the defects found need no third.
* `service_liveness` has only resumes, none of whose calls is left in a thread, and
  `service_waiting` one run, so that
  liveness, which cannot use symmetry, stays checkable.
* `PageChain`: an answer of every shape the reducers tell apart, a first and a
  last page, two attempts and three alterations: alter before the copy into
  `final/`, put back before the last audit, and alter once more before the
  comparison is what it takes to publish an output that is not the answers'; two
  replace files that agree. `PageChain_pages.cfg`, to be run by hand, has an inner
  page too and two alterations (2.3 million states); every property holds.
* `RenderBundle`: three pages, so that a partial set differs from an empty and a
  full one; four renders, a first, one that fails, and ones after either recovery.
* `Intake`: two processes and two runs; two boots, an owner and one that waits,
  follows or takes over from it (symmetry cannot be used with liveness).
* `UploadStream`: two bytes, a signature of two, a limit of four, an overhead of
  two and pieces of up to three: every file and framing up to one over its
  limit, and a signature cut in the middle.

`CHECK_DEADLOCK FALSE` stands in the configurations of the service, of `Intake`,
of `PageChain` and of `RenderBundle` because each may rest: closed, with no
client asking for anything, with a run that is done or not resumable, or, in
`RenderBundle`, out of renders.

### Fairness

`RunLifecycle`: weak fairness of `OwnerStep`, the steps of the event loop and of
its threads. Nothing makes a crash, a restart, a cancel or a resume happen.
`LocalRunService`: weak fairness of the worker's task, of the shutdown, of the
calls in threads and of each client's call in progress, since asyncio runs every
ready task and threads finish their calls. Nothing makes a client ask or leave,
a service close, or a grace period expire: `ClosingEnds` holds because the item
being served ends.
`Intake`: weak fairness of a process's startup and shutdown and of the steps of
each submission, task and thread together, for the same reasons; an upload is read from the form the
server has spooled, so its end does not depend on the client. A booting
process need not get the lock; nothing makes a process boot or close, or a
client submit or leave.

## 4. What is proved

Every safety property of the passing runs, invariant or action property, and
both refinements are theorems, for every value of the constants that the named
assumptions of the modules allow. The runs of section 3 show the same on small
instances and add liveness. The assumptions on the constants:

| Assumption | What it says | Why the code justifies it |
|---|---|---|
| `PagesAssumption` | a run has at least one page | the renderer refuses an empty document |
| `AttemptsAssumption` | one to three attempts per page | the bounds of `max_model_attempts` in `config.py` |
| `FaultsAssumption`, `IntakeAssumption`, `RenderAssumption`, `ChainAssumption` | the names of the faults; bounds are natural numbers; `None` and the like are not data | they are ours; an empty set of faults is allowed |
| `MemoryAssumption`, `EntryAssumption` | the empty memory is no reading position; a missing or an empty `page_images` and an absent manifest are no render | they are distinct values in `contracts/` and states of the disk that no render produces |
| `RunsAssumption` | finitely many runs, `NoRun` not among them | a run is a row of the database; the sentinel is `None` |
| `CapacityAssumption`, `OperationsAssumption` | the queue holds at least one item; the calls of the service | `worker_queue_capacity` is at least 1 (`config.py`) |
| `UploadAssumption` | positive limits and sizes, a signature of at least one byte | `%PDF-`, and the settings' bounds |

### RunLifecycle

Three modules, each with the layers of one inductive invariant. A layer is
inductive given those before it, so a lemma names only the layers it uses.

`RunLifecycle_proofs`:

* `TypeCorrect` (`[]TypeOK`). `TypeOK` alone is not inductive: a step that
  commits or retries a page is typed only if the owner's page exists and it
  holds an attempt. `IInv` adds `ControlInv`, which ties the owner's place to
  its caller, to its attempt and to the head. One lemma per group of actions
  (`SettlePreserves` to `FaultPreserves`) rests on lemmas about each journal
  operation (`RunRowTypes`, `PageTypes`, `ArtifactTypes`, `CheckpointTypes`).
* `FlaggedOutcomeHolds` (`[]FlaggedOutcome`). The invariant is inductive over
  the journal's operations whatever the owner's place is.

`RunLedger_proofs`:

* `LedgerInvariantHolds` (`[]LedgerInvariant`). What the audit demands of the
  tables says nothing of the pages beyond the next one; `Ledger` adds that
  they are untouched (`Untouched`), which is what makes the next attempt the
  first. `LedgerInv` adds what has been published when a commit transaction
  starts, and that a commit about to be dropped is not in the ledger. The proof goes by journal operation, not by owner step: an operation's
  own guards preserve it, so a crash between two of them needs no argument.
* `AttemptBudgetHolds` (`[]AttemptBudget`) and `RunnerAtHeadHolds`
  (`[]RunnerAtHead`). A begin needs the budget to be left, which is
  checked at the step that leads to it (a retry, a reconciliation, a committed
  page); `RunnerInv` relates the owner's attempt number to the attempts of the
  page, so that the check is about the attempt the begin then makes.
* `ImplementsRunContract` (`Spec => ImplementsContract`), the refinement of
  `RunContract`. What a client sees changes legally only if the status is right
  at each step of the owner: `FreshInv` (only a run without a checkpoint is
  initialized), `FailedPagesInv` (a failed page belongs to a failed or resuming
  run) and `StatusInv` (status and failure at each place). Every action is then
  a step of the contract or a stutter.

`RunDisk_proofs`:

* `CompletedIsWholeHolds`, `DestinationsFreeHolds`, `RecoveryAcceptsHolds` and
  `PublishedReportedHolds`. They rest on `DiskInv`:
  for each place of the owner, which unreferenced file or directory may exist
  (`OrphansInv`). A crash at that place leaves it; `RecoverQuarantine`
  moves exactly that away, hence recovery finds nothing to object to, and hence
  nothing is in the way of the next rename. Between the validation of the final
  files and the update, `UpdateInv` keeps what the validation saw of the journal
  (`ReadyToPublish`), which nobody else can change there; of the files it says
  nothing, so `PublishedReported` is about the ways an error reaches `failRun`
  (`ToFailRun`): a published run gets there only through an audit that failed,
  and `DiskInv` gives that audit no reason but an alteration.
* `ReleasedSettledHolds` (`[]ReleasedSettled`), over the status layers.

### LocalRunService

`LocalRunService_proofs`, for any finite set of runs, any set of clients, any
capacity and any selection of the operations:

* `ServiceTypeCorrect` (`[]TypeOK`), with `TypedInv`.
* `SilentAfterCloseHolds` (`SilentAfterClose`, an action property), with
  `AdmissionInv`: which calls a shutdown has ended when.
* `ReservationsHoldAlways` (`[]ReservationsHold`), with `CapacityInv`. The
  counter of reservations is the number of the calls that own one
  (`ReservedInv`, a cardinality), and reservations and queue together fit the
  capacity (`RoomInv`). A backlog and reservations exclude one another.
* `SingleOwnerHolds` (`[]SingleOwner`), with `OwnerInv`: no run is twice in the
  queue, the backlog and the worker's hands (`PlacesInv`), and whoever has
  claimed a run is its only claimant and finds it nowhere there (`ClaimsInv`).
* `LiveRunsOwnedHolds` (`[]LiveRunsOwned`), with `LiveInv`: per run, what its
  status allows its owner to be, or what its last cleanup left.

### Intake and UploadStream

`Intake_proofs`, for any number of processes, runs and starts:
`IntakeTypeCorrect`, `OwnerWritesAloneHolds`, `BoundHasSourceHolds`,
`WorkUndisturbedHolds`, `ReadyRootIsTidyHolds` and `AbandonedSettledHolds`. Four
layers over `TypeOK`. `CallInv` is what a task and the thread beside it can be
together, and what they have written to the row. `PhaseInv` says that whoever
works does so for a ready process, which has the lock, so that a startup visits
only runs at rest (`VisitedAtRest`). `SourceInv` follows the upload to its last
`fsync`: from then on a power loss has one outcome. `TidyInv`, as long as no
call on a run's directory or the journal has raised, says what is due to a submission that is being given up, and
that what is nobody's is on the list of the startup that will move it away.

`UploadStream_proofs`, for any alphabet, signature, limits and pieces:
`StoredIsUploadedHolds` and `RefusalsJustifiedHolds`. Between two chunks the
staged file is what was read (`StreamInv`); `ReadOn` shows that the prefix,
collected piece by piece, is the beginning of the file.

### PageChain and RenderBundle

`PageChain_proofs`, for every number of pages, set of answers, attempt limit,
set of faults and number of alterations:

* `RunnerCarriesAnswers` (`[]RunnerFollowsAnswers`) and
  `PublicationFollowsAnswers` (`[]PublishedFollowsAnswers`), with `TypeCorrect`.
  The files may be altered at any step, so nothing inductive can be said of them.
  The argument goes through the ledger, which alterations do not reach:
  `LedgerFollows` says that its rows determine the memory after every committed
  answer, and what was admitted by an audit and not altered since is equal to the
  row (`CommitIntact`; `AuditStands` keeps this up to the second reading, and
  `exposed` says when it no longer holds). A page derived from an altered
  snapshot may be committed, so the rows' structures are those of the answers
  only as long as the rows replay (`LedgerDerived`); an audit that succeeds shows
  that they do (`AuditedReplays`). `RunnerFollows` and `CandidateFollows` carry
  this through the locals of the runner, and `AnswersPlaced` says that every
  committed answer gave a reading position.
* `AuditIsExactHolds` (`[]AuditExact`) and `NothingRefusedHolds`
  (`[]NothingRefused`), over a second invariant, `ChainInv`: the row of a commit
  is its whole manifest (`LedgerGenuine`), so no other files match it; and the
  answers apply in their order (`AnswersApply`), so the replay of the genuine
  files succeeds (`GenuineReplays`, with `StructureGrows` and `SnapshotValid`
  about the reducers).

`RenderBundle_proofs`, for every number of pages and renders and every set of
faults:

* `BundleImplementsContract` (`Spec => ImplementsContract`), the refinement of
  `RenderContract`. `BoundIsBound` and `UnboundIsLoose` say what the mapping
  makes of a state of the invariant; only `Bind` changes the bundle's place to
  bound.
* `RenderNeverBlocked` (`[]RenderUnblocked`) and `TypeCorrect`. The invariant
  adds `BoundWhole` (what the journal names is on disk and can no longer
  be lost), `Staged` (what is on disk at the steps of a render or a recovery that
  rely on it, nothing where a render starts) and `Rendering` (a render that
  publishes has staged all its pages).

### Only model-checked

Liveness is out of the prover's reach: `AcceptedWorkEnds`,
`CancellationTakesEffect`, `ResumersProceed`, `QueuedRunsServed`, `ClosingEnds`,
`WaitersReturn`, `SubmissionsEnd` and `ClosingUnlocks` are checked on the
instances of section 3, and so are the violations, which are counterexamples.

## 5. Not modelled

Configuration and wiring keep no run state. The model call is reduced to its
outcomes: its prompt, its provider and the accounting of its tokens are outside.
The routes of the HTTP layer other than the submission only translate calls.
PDF parsing and rasterisation (pdfium) are a verdict. The database is SQLite
with `synchronous=FULL`: a committed transaction is taken as atomic and durable.
The hazards listed in `PROJECT.json` without a property say why they have none.

## 6. Plan

Done: `RunJournal`, `RunLifecycle`, `RunContract`; `SingleRunWorker`,
`LocalRunService`; `PageContracts`, `PageChain`; `RenderContract`,
`RenderBundle`; `Intake`, `UploadStream`; their runs and the proofs of section 4.
Left, in this order:

1. the seam between the two halves as a theorem: every transition that
   `RunLifecycle` makes of a run's status is one `SingleRunWorker` allows its
   processor (`ProcessorCall`), so that the two models may be read as one;
2. power losses between the steps of a page commit and of the final
   publication, which `RunJournal` takes as durable renames;
3. errors of the database inside the worker (`worker.py:238`, `worker.py:284`).
