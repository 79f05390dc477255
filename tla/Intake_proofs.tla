----------------------------- MODULE Intake_proofs -----------------------------
(***************************************************************************)
(* Theorems about Intake, for every number of processes, runs and starts   *)
(* and every set of faults.                                                *)
(*                                                                         *)
(* The layers, each inductive given the ones before it:                    *)
(*   TypeOK     types;                                                     *)
(*   CallInv    the task of a submission against the thread it has left    *)
(*              behind or awaits, and the row both have reached;           *)
(*   PhaseInv   whatever works for a process works while it is ready, and  *)
(*              the lock makes one process ready or recovering at a time;  *)
(*   SourceInv  the upload on disk, after a power loss too;                *)
(*   TidyInv    what is left behind as long as no call has raised.         *)
(***************************************************************************)
EXTENDS Intake, TLAPS

-----------------------------------------------------------------------------

Working(r) == task[r] \in Live \/ thread[r] # "none"

CallFacts(r) ==
    /\ task[r] # "none" => owner[r] \in Processes
    /\ task[r] \in {"none", "receive", "sync", "enqueue", "accepted", "dead"} =>
           thread[r] = "none"
    /\ task[r] = "validate" => thread[r] = "validate"
    /\ task[r] = "register" => thread[r] \in RegisterCalls
    /\ task[r] = "settle" => thread[r] \in {"none", "validate"}
    /\ task[r] = "settleRegistered" => thread[r] \in {"none"} \cup RegisterCalls
    /\ task[r] = "quarantining" => thread[r] = "quarantine"
    /\ task[r] = "failing" => thread[r] = "fail"
    /\ task[r] = "done" => thread[r] \in {"none", "fail"}
    /\ task[r] \in {"none", "receive", "sync", "validate", "settle", "quarantining"} =>
           row[r] = "none"
    /\ thread[r] \in {"create", "insert"} => row[r] = "none"
    /\ thread[r] \in {"store", "bind"} => row[r] = "created"
    /\ task[r] \in {"enqueue", "accepted"} => row[r] = "bound"

CallInv == \A r \in Runs : CallFacts(r)

PhaseInv ==
    \A p \in Processes :
        /\ phase[p] \in {"recovering", "auditing", "ready"} => lock = p
        /\ \A r \in Runs : owner[r] = p /\ Working(r) => phase[p] = "ready"
        /\ phase[p] = "auditing" => known[p] = {r \in Runs : row[r] # "none"}

SourceFacts(r) ==
    /\ task[r] = "receive" => file[r] = "staged"
    /\ task[r] = "sync" => file[r] = "stored"
    /\ row[r] = "bound" \/ thread[r] \in RegisterCalls \cup {"validate"} =>
           fileMay[r] = {"stored"}

SourceInv == \A r \in Runs : SourceFacts(r)

Settling(r) ==
    /\ task[r] = "settle" => InRuns(file[r])
    /\ thread[r] = "fail" \/ (task[r] = "settleRegistered" /\ thread[r] = "none") =>
           row[r] # "none"
    /\ task[r] = "done" /\ thread[r] = "none" /\ ~failed[r] =>
           \A f \in fileMay[r] : ~InRuns(f)

Stray(r) == InRuns(file[r]) /\ row[r] = "none" /\ task[r] \notin Live

TidyInv ==
    ~erred =>
        /\ \A r \in Runs : Settling(r)
        /\ \A p \in Processes, r \in Runs :
               Stray(r) => /\ phase[p] = "auditing" => r \in todo[p]
                           /\ phase[p] # "ready"

IntakeInv == TypeOK /\ CallInv /\ PhaseInv /\ SourceInv /\ TidyInv

-----------------------------------------------------------------------------
(* Types. *)

Steps(r) == Submission(r) \/ Leave(r) \/ LeaveCleanup(r)
Ending == PowerLoss \/ \E p \in Processes : Kill(p)
Service(p) == Boot(p) \/ Startup(p) \/ Close(p) \/ Shutdown(p) \/ Exit(p)

LEMMA NextSplits ==
    Next <=> \/ \E p \in Processes : Service(p)
             \/ \E p \in Processes, r \in Runs : Submit(p, r)
             \/ \E r \in Runs : Steps(r)
             \/ Ending
  BY DEF Next, Service, Steps, Ending

TaskPcs == Live \cup {"none", "accepted", "done", "dead"}
ThreadPcs == RegisterCalls \cup {"none", "validate", "quarantine", "fail"}

LEMMA WriteTypes ==
    ASSUME TypeOK, NEW r \in Runs, NEW f \in Files, Write(r, f) \/ WriteDurably(r, f)
    PROVE  /\ file' \in [Runs -> Files] /\ fileMay' \in [Runs -> SUBSET Files]
           /\ \A q \in Runs : file'[q] \in fileMay'[q]
  BY DEF TypeOK, Write, WriteDurably

LEMMA TypeService ==
    ASSUME TypeOK, NEW p \in Processes, Service(p)
    PROVE  TypeOK'
<1> USE DEF TypeOK, submissionVars, diskVars, journalVars
<1>1. CASE Boot(p)
  BY <1>1, IntakeAssumption DEF Boot, To, Phases
<1>2. CASE \/ Acquire(p) \/ RefuseLock(p) \/ AcquireRaises(p) \/ FinishRecovery(p)
           \/ Close(p) \/ Shutdown(p) \/ Exit(p)
  BY <1>2
     DEF Acquire, RefuseLock, AcquireRaises, FinishRecovery, Close, Shutdown, Exit, To, Phases
<1>3. CASE ListRuns(p) \/ RecoveryFails(p)
  <2>1. phase' \in [Processes -> Phases]
    BY <1>3 DEF ListRuns, RecoveryFails, To, Phases
  <2>2. known' \in [Processes -> SUBSET Runs] /\ todo' \in [Processes -> SUBSET Runs]
    BY <1>3 DEF ListRuns, RecoveryFails
  <2>3. QED
    BY <1>3, <2>1, <2>2 DEF ListRuns, RecoveryFails
<1>4. ASSUME NEW r \in Runs, QuarantineUnregistered(p, r) \/ RecoverRegistered(p, r)
      PROVE  TypeOK'
  <2>1. /\ file' \in [Runs -> Files] /\ fileMay' \in [Runs -> SUBSET Files]
        /\ \A q \in Runs : file'[q] \in fileMay'[q]
    BY <1>4, WriteTypes DEF QuarantineUnregistered, RecoverRegistered, Files
  <2>2. failed' \in [Runs -> BOOLEAN]
    BY <1>4 DEF QuarantineUnregistered, RecoverRegistered
  <2>3. todo' \in [Processes -> SUBSET Runs]
    BY <1>4 DEF QuarantineUnregistered, RecoverRegistered, Visit
  <2>4. QED
    BY <1>4, <2>1, <2>2, <2>3 DEF QuarantineUnregistered, RecoverRegistered, Visit
<1>5. QED
  BY <1>1, <1>2, <1>3, <1>4 DEF Service, Startup

LEMMA TypeSubmission ==
    ASSUME TypeOK, NEW r \in Runs, Steps(r) \/ \E p \in Processes : Submit(p, r)
    PROVE  TypeOK'
<1>1. UNCHANGED processVars
  BY DEF Steps, Submission, RefuseUpload, Publish, SyncUpload, SyncFails, ValidateEnds,
         CreateFiles, InsertRun, CheckSource, BindSource, RegistrationFails, Enqueue,
         NothingToQuarantine, Quarantine, QuarantineEnds, FailRun, FailRunEnds, Leave,
         LeaveCleanup, Submit, OnlyTask, OnlySubmission, RegisterStep
<1>2. owner' \in [Runs -> Processes \cup {None}]
  BY DEF TypeOK, Steps, Submission, RefuseUpload, Publish, SyncUpload, SyncFails,
         ValidateEnds, CreateFiles, InsertRun, CheckSource, BindSource, RegistrationFails,
         Enqueue, NothingToQuarantine, Quarantine, QuarantineEnds, FailRun, FailRunEnds,
         Leave, LeaveCleanup, Submit, OnlyTask, OnlySubmission, RegisterStep
<1>3. \/ task' = task
      \/ \E next \in TaskPcs : task' = [task EXCEPT ![r] = next]
  BY DEF TypeOK, Steps, Submission, RefuseUpload, Publish, SyncUpload, SyncFails,
         ValidateEnds, CreateFiles, InsertRun, CheckSource, BindSource, RegistrationFails,
         Enqueue, NothingToQuarantine, Quarantine, QuarantineEnds, FailRun, FailRunEnds,
         Leave, LeaveCleanup, Submit, OnlyTask, Goto, TaskPcs, Live, Submitting, Uploading,
         CleaningUp
<1>4. \/ thread' = thread
      \/ \E next \in ThreadPcs : thread' = [thread EXCEPT ![r] = next]
  BY DEF Steps, Submission, RefuseUpload, Publish, SyncUpload, SyncFails, ValidateEnds,
         CreateFiles, InsertRun, CheckSource, BindSource, RegistrationFails, Enqueue,
         NothingToQuarantine, Quarantine, QuarantineEnds, FailRun, FailRunEnds, Leave,
         LeaveCleanup, Submit, OnlyTask, Call, RegisterStep, ThreadPcs, RegisterCalls
<1>5. /\ row' \in [Runs -> {"none", "created", "bound"}]
      /\ failed' \in [Runs -> BOOLEAN]
      /\ erred' \in BOOLEAN
  BY DEF TypeOK, Steps, Submission, RefuseUpload, Publish, SyncUpload, SyncFails,
         ValidateEnds, CreateFiles, InsertRun, CheckSource, BindSource, RegistrationFails,
         Enqueue, NothingToQuarantine, Quarantine, QuarantineEnds, FailRun, FailRunEnds,
         Leave, LeaveCleanup, Submit, OnlyTask, RegisterStep, journalVars
<1>6. /\ file' \in [Runs -> Files] /\ fileMay' \in [Runs -> SUBSET Files]
      /\ \A q \in Runs : file'[q] \in fileMay'[q]
  <2>1. CASE \E f \in Files : Write(r, f) \/ WriteDurably(r, f)
    BY <2>1, WriteTypes
  <2>2. CASE UNCHANGED diskVars
    BY <2>2 DEF TypeOK, diskVars
  <2>3. CASE \E p \in Processes : Submit(p, r)
    <3>1. \/ /\ file' = [file EXCEPT ![r] = "staged"]
             /\ fileMay' = [fileMay EXCEPT ![r] = @ \cup {"empty", "staged"}]
          \/ Write(r, "empty") \/ UNCHANGED diskVars
      BY <2>3 DEF Submit
    <3>2. CASE /\ file' = [file EXCEPT ![r] = "staged"]
               /\ fileMay' = [fileMay EXCEPT ![r] = @ \cup {"empty", "staged"}]
      BY <3>2 DEF TypeOK, Files
    <3>3. QED
      BY <2>1, <2>2, <3>1, <3>2 DEF Files
  <2>4. CASE Steps(r)
    <3>1. file[r] \in Files
      BY DEF TypeOK
    <3>2. \/ UNCHANGED diskVars
          \/ \E f \in Files : Write(r, f) \/ WriteDurably(r, f)
      BY <2>4, <3>1
         DEF Steps, Submission, RefuseUpload, Publish, SyncUpload, SyncFails, ValidateEnds,
             CreateFiles, InsertRun, CheckSource, BindSource, RegistrationFails, Enqueue,
             NothingToQuarantine, Quarantine, QuarantineEnds, FailRun, FailRunEnds, Leave,
             LeaveCleanup, OnlyTask, Files
    <3>3. QED
      BY <2>1, <2>2, <3>2
  <2>5. QED
    BY <2>3, <2>4
<1>7. /\ task' \in [Runs -> TaskPcs]
      /\ thread' \in [Runs -> ThreadPcs]
  BY <1>3, <1>4 DEF TypeOK, TaskPcs, ThreadPcs
<1>8. QED
  BY <1>1, <1>2, <1>5, <1>6, <1>7 DEF TypeOK, processVars, TaskPcs, ThreadPcs

LEMMA TypeEnding ==
    ASSUME TypeOK, Ending
    PROVE  TypeOK'
<1>1. PICK S \in SUBSET Processes : Ends(S)
  BY DEF Ending, Kill, PowerLoss
<1>2. /\ phase' \in [Processes -> Phases] /\ todo' \in [Processes -> SUBSET Runs]
      /\ lock' \in Processes \cup {None}
  BY <1>1 DEF Ends, TypeOK, Phases
<1>3. /\ task' \in [Runs -> Live \cup {"none", "accepted", "done", "dead"}]
      /\ thread' \in [Runs -> RegisterCalls \cup {"none", "validate", "quarantine", "fail"}]
  BY <1>1 DEF Ends, TypeOK
<1>4. /\ file' \in [Runs -> Files] /\ fileMay' \in [Runs -> SUBSET Files]
      /\ \A q \in Runs : file'[q] \in fileMay'[q]
  <2>1. CASE PowerLoss
    <3>1. file' \in [Runs -> Files] /\ fileMay' = [r \in Runs |-> {file'[r]}]
      BY <2>1 DEF PowerLoss
    <3>2. QED
      BY <3>1
  <2>2. CASE \E p \in Processes : Kill(p)
    BY <2>2 DEF Kill, TypeOK, diskVars
  <2>3. QED
    BY <2>1, <2>2 DEF Ending
<1>5. QED
  BY <1>1, <1>2, <1>3, <1>4 DEF Ends, TypeOK, journalVars

LEMMA TypeStep ==
    ASSUME TypeOK, [Next]_vars
    PROVE  TypeOK'
<1>1. CASE UNCHANGED vars
  BY <1>1 DEF TypeOK, vars, processVars, submissionVars, diskVars, journalVars
<1>2. QED
  BY <1>1, NextSplits, TypeService, TypeSubmission, TypeEnding

-----------------------------------------------------------------------------
(* The task of a submission and its thread. *)

LEMMA CallService ==
    ASSUME CallInv, (\E p \in Processes : Service(p)) \/ UNCHANGED vars
    PROVE  CallInv' /\ UNCHANGED <<submissionVars, row>>
<1>1. UNCHANGED <<submissionVars, row>>
  BY DEF Service, Boot, Startup, Close, Shutdown, Exit, Acquire, RefuseLock,
         AcquireRaises, ListRuns, RecoveryFails, FinishRecovery, QuarantineUnregistered,
         RecoverRegistered, Visit, journalVars, vars
<1>2. QED
  BY <1>1 DEF CallInv, CallFacts, submissionVars

LEMMA CallSubmission ==
    ASSUME TypeOK, CallInv, NEW r \in Runs, Steps(r) \/ \E p \in Processes : Submit(p, r)
    PROVE  CallInv'
<1>1. ASSUME NEW q \in Runs \ {r}
      PROVE  CallFacts(q)'
  <2>1. /\ task'[q] = task[q] /\ thread'[q] = thread[q]
        /\ owner'[q] = owner[q] /\ row'[q] = row[q]
    BY DEF TypeOK, Steps, Submission, RefuseUpload, Publish, SyncUpload, SyncFails,
           ValidateEnds, CreateFiles, InsertRun, CheckSource, BindSource, RegistrationFails,
           Enqueue, NothingToQuarantine, Quarantine, QuarantineEnds, FailRun, FailRunEnds,
           Leave, LeaveCleanup, Submit, OnlyTask, OnlySubmission, RegisterStep, Goto, Call,
           journalVars
  <2>2. QED
    BY <2>1 DEF CallInv, CallFacts
<1>2. CallFacts(r)'
  <2>1. CallFacts(r)
    BY DEF CallInv
  <2> USE DEF TypeOK, CallFacts, Goto, Call, OnlySubmission, journalVars, RegisterCalls
  <2>2. CASE \E p \in Processes : Submit(p, r)
    BY <2>1, <2>2 DEF Submit
  <2>3. CASE RefuseUpload(r) \/ Publish(r) \/ SyncUpload(r) \/ SyncFails(r)
    BY <2>1, <2>3 DEF RefuseUpload, Publish, SyncUpload, SyncFails
  <2>4. CASE ValidateEnds(r)
    BY <2>1, <2>4 DEF ValidateEnds
  <2>5. CASE CreateFiles(r) \/ InsertRun(r) \/ CheckSource(r)
    BY <2>1, <2>5 DEF CreateFiles, InsertRun, CheckSource, RegisterStep
  <2>6. CASE BindSource(r) \/ RegistrationFails(r)
    BY <2>1, <2>6 DEF BindSource, RegistrationFails, RegisterStep
  <2>7. CASE Enqueue(r) \/ Leave(r) \/ LeaveCleanup(r) \/ NothingToQuarantine(r)
    BY <2>1, <2>7
       DEF Enqueue, Leave, LeaveCleanup, NothingToQuarantine, Settled, ThreadsOf, OnlyTask
  <2>8. CASE Quarantine(r) \/ FailRun(r)
    BY <2>1, <2>8 DEF Quarantine, FailRun, Settled, ThreadsOf
  <2>9. CASE QuarantineEnds(r) \/ FailRunEnds(r)
    BY <2>1, <2>9 DEF QuarantineEnds, FailRunEnds
  <2>10. QED
    BY <2>2, <2>3, <2>4, <2>5, <2>6, <2>7, <2>8, <2>9 DEF Steps, Submission
<1>3. QED
  BY <1>1, <1>2 DEF CallInv

LEMMA CallEnding ==
    ASSUME TypeOK, CallInv, Ending
    PROVE  CallInv'
<1>1. PICK S \in SUBSET Processes : Ends(S)
  BY DEF Ending, Kill, PowerLoss
<1>2. ASSUME NEW r \in Runs
      PROVE  CallFacts(r)'
  <2>1. CallFacts(r) /\ owner'[r] = owner[r] /\ row'[r] = row[r]
    BY <1>1 DEF CallInv, Ends, journalVars
  <2>2. CASE owner[r] \in S
    <3>1. /\ thread'[r] = "none"
          /\ task'[r] = IF task[r] \in Live \/ thread[r] # "none" THEN "dead" ELSE task[r]
      BY <1>1, <2>2 DEF Ends
    <3>2. QED
      BY <2>1, <2>2, <3>1
         DEF CallFacts, Live, Submitting, Uploading, CleaningUp, RegisterCalls
  <2>3. CASE owner[r] \notin S
    BY <1>1, <2>1, <2>3 DEF Ends, CallFacts
  <2>4. QED
    BY <2>2, <2>3
<1>3. QED
  BY <1>2 DEF CallInv

LEMMA CallStep ==
    ASSUME TypeOK, CallInv, [Next]_vars
    PROVE  CallInv'
  BY NextSplits, CallService, CallSubmission, CallEnding

-----------------------------------------------------------------------------
(* The lock: work is done for its owner, and for nobody else. *)

LEMMA WorkerIsReady ==
    ASSUME TypeOK, CallInv, PhaseInv, NEW r \in Runs, Working(r)
    PROVE  /\ owner[r] \in Processes /\ phase[owner[r]] = "ready" /\ lock = owner[r]
           /\ \A p \in Processes :
                  phase[p] \in {"recovering", "auditing", "ready"} => p = owner[r]
<1>1. task[r] # "none"
  BY DEF CallInv, CallFacts, Working, Live, Submitting, Uploading, CleaningUp
<1>2. owner[r] \in Processes
  BY <1>1 DEF CallInv, CallFacts
<1>3. QED
  BY <1>2 DEF PhaseInv

LEMMA StepIsWork ==
    ASSUME TypeOK, NEW r \in Runs, Steps(r)
    PROVE  Working(r) /\ UNCHANGED <<processVars, owner>>
<1>1. Working(r)
  BY DEF Steps, Submission, RefuseUpload, Publish, SyncUpload, SyncFails, ValidateEnds,
         CreateFiles, InsertRun, CheckSource, BindSource, RegistrationFails, Enqueue,
         NothingToQuarantine, Quarantine, QuarantineEnds, FailRun, FailRunEnds, Leave,
         LeaveCleanup, RegisterStep, Working, Live, Submitting, Uploading, CleaningUp,
         RegisterCalls
<1>2. UNCHANGED <<processVars, owner>>
  BY DEF Steps, Submission, RefuseUpload, Publish, SyncUpload, SyncFails, ValidateEnds,
         CreateFiles, InsertRun, CheckSource, BindSource, RegistrationFails, Enqueue,
         NothingToQuarantine, Quarantine, QuarantineEnds, FailRun, FailRunEnds, Leave,
         LeaveCleanup, OnlyTask, OnlySubmission, RegisterStep
<1>3. QED
  BY <1>1, <1>2

(* A step of a submission, its first one included, concerns its run only. *)
LEMMA OtherRuns ==
    ASSUME TypeOK, NEW r \in Runs, Steps(r) \/ \E p \in Processes : Submit(p, r),
           NEW q \in Runs \ {r}
    PROVE  /\ task'[q] = task[q] /\ thread'[q] = thread[q] /\ owner'[q] = owner[q]
           /\ row'[q] = row[q] /\ failed'[q] = failed[q]
           /\ file'[q] = file[q] /\ fileMay'[q] = fileMay[q]
<1>1. /\ task'[q] = task[q] /\ thread'[q] = thread[q]
      /\ owner'[q] = owner[q] /\ row'[q] = row[q] /\ failed'[q] = failed[q]
  BY DEF TypeOK, Steps, Submission, RefuseUpload, Publish, SyncUpload, SyncFails,
         ValidateEnds, CreateFiles, InsertRun, CheckSource, BindSource, RegistrationFails,
         Enqueue, NothingToQuarantine, Quarantine, QuarantineEnds, FailRun, FailRunEnds,
         Leave, LeaveCleanup, Submit, OnlyTask, OnlySubmission, RegisterStep, Goto, Call,
         journalVars
<1>2. file'[q] = file[q] /\ fileMay'[q] = fileMay[q]
  BY DEF TypeOK, Steps, Submission, RefuseUpload, Publish, SyncUpload, SyncFails,
         ValidateEnds, CreateFiles, InsertRun, CheckSource, BindSource, RegistrationFails,
         Enqueue, NothingToQuarantine, Quarantine, QuarantineEnds, FailRun, FailRunEnds,
         Leave, LeaveCleanup, Submit, OnlyTask, RegisterStep, Write, WriteDurably, diskVars
<1>3. QED
  BY <1>1, <1>2

LEMMA PhaseStep ==
    ASSUME TypeOK, CallInv, PhaseInv, Next
    PROVE  PhaseInv'
<1>1. CASE \E p \in Processes : Service(p)
  <2>1. PICK p \in Processes : Service(p)
    BY <1>1
  <2>2. UNCHANGED <<task, thread, owner, row>> /\ \A r \in Runs : Working(r)' = Working(r)
    BY <2>1, CallService DEF submissionVars, Working
  <2> USE DEF PhaseInv, TypeOK
  <2>3. CASE Boot(p) \/ Acquire(p) \/ RefuseLock(p) \/ AcquireRaises(p) \/ Exit(p) \/ Close(p)
    BY <2>2, <2>3, IntakeAssumption
       DEF Boot, Acquire, RefuseLock, AcquireRaises, Exit, Close, To
  <2>4. CASE ListRuns(p)
    BY <2>2, <2>4 DEF ListRuns, To
  <2>5. CASE RecoveryFails(p) \/ FinishRecovery(p)
    BY <2>2, <2>5 DEF RecoveryFails, FinishRecovery, To
  <2>6. CASE Shutdown(p)
    <3>1. /\ phase' = [phase EXCEPT ![p] = "closed"] /\ known' = known
          /\ lock' = IF lock = p THEN None ELSE lock
      BY <2>6 DEF Shutdown, To
    <3>2. \A r \in Runs : owner[r] = p => ~Working(r)
      BY <2>6 DEF Shutdown, TasksOf, ThreadsOf, Working
    <3>3. QED
      BY <2>2, <3>1, <3>2, IntakeAssumption
  <2>7. ASSUME NEW r \in Runs, QuarantineUnregistered(p, r) \/ RecoverRegistered(p, r)
        PROVE  PhaseInv'
    BY <2>2, <2>7 DEF QuarantineUnregistered, RecoverRegistered, Visit
  <2>8. QED
    BY <2>1, <2>3, <2>4, <2>5, <2>6, <2>7 DEF Service, Startup
<1>2. ASSUME NEW r \in Runs, Steps(r) \/ \E p \in Processes : Submit(p, r)
      PROVE  PhaseInv'
  <2>1. PICK p \in Processes :
            /\ phase[p] = "ready" /\ lock = p /\ owner'[r] = p
            /\ \A q \in Processes :
                   phase[q] \in {"recovering", "auditing", "ready"} => q = p
    <3>1. CASE Steps(r)
      BY <3>1, StepIsWork, WorkerIsReady
    <3>2. CASE \E p \in Processes : Submit(p, r)
      BY <3>2 DEF Submit, PhaseInv, TypeOK
    <3>3. QED
      BY <1>2, <3>1, <3>2
  <2>2. UNCHANGED <<phase, lock, known>>
    BY <1>2, StepIsWork DEF processVars, Submit
  <2>3. \A q \in Runs \ {r} : owner'[q] = owner[q] /\ Working(q)' = Working(q)
    BY <1>2, OtherRuns DEF Working
  <2>4. QED
    BY <2>1, <2>2, <2>3 DEF PhaseInv
<1>3. CASE Ending
  <2>1. PICK S \in SUBSET Processes : Ends(S)
    BY <1>3 DEF Ending, Kill, PowerLoss
  <2>2. /\ UNCHANGED <<known, owner, row>>
        /\ \A p \in Processes : phase'[p] = IF p \in S THEN "down" ELSE phase[p]
        /\ lock' = IF lock \in S THEN None ELSE lock
    BY <2>1 DEF Ends, journalVars
  <2>3. \A r \in Runs : IF owner[r] \in S THEN ~Working(r)' ELSE Working(r)' = Working(r)
    BY <2>1
       DEF Ends, Working, Live, Submitting, Uploading, CleaningUp
  <2>4. QED
    BY <2>2, <2>3 DEF PhaseInv
<1>4. QED
  BY <1>1, <1>2, <1>3, NextSplits

-----------------------------------------------------------------------------
(* The upload on disk. *)

LEMMA Writes ==
    ASSUME TypeOK, NEW r \in Runs, NEW f
    PROVE  /\ Write(r, f) => file'[r] = f /\ fileMay'[r] = fileMay[r] \cup {f}
           /\ WriteDurably(r, f) => file'[r] = f /\ fileMay'[r] = {f}
           /\ Write(r, f) \/ WriteDurably(r, f) =>
                  \A q \in Runs \ {r} : file'[q] = file[q] /\ fileMay'[q] = fileMay[q]
  BY DEF TypeOK, Write, WriteDurably

(* The directories of the startup's visits belong to no submission at work. *)
LEMMA VisitedAtRest ==
    ASSUME TypeOK, CallInv, PhaseInv, NEW p \in Processes, NEW r \in Runs, Visit(p, r)
    PROVE  /\ ~Working(r)
           /\ r \in known[p] <=> row[r] # "none"
<1>1. phase[p] = "auditing"
  BY DEF Visit
<1>2. known[p] = {q \in Runs : row[q] # "none"}
  BY <1>1 DEF PhaseInv
<1>3. QED
  BY <1>1, <1>2, WorkerIsReady

LEMMA SourceStep ==
    ASSUME TypeOK, CallInv, PhaseInv, SourceInv, Next
    PROVE  SourceInv'
<1>1. CASE \E p \in Processes : Service(p)
  <2>1. PICK p \in Processes : Service(p)
    BY <1>1
  <2>2. UNCHANGED <<task, thread, row>>
    BY <2>1, CallService DEF submissionVars
  <2>3. CASE UNCHANGED diskVars
    BY <2>2, <2>3 DEF SourceInv, SourceFacts, diskVars
  <2>4. ASSUME NEW r \in Runs, QuarantineUnregistered(p, r) \/ RecoverRegistered(p, r),
               ~UNCHANGED diskVars
        PROVE  SourceInv'
    <3>1. ~Working(r) /\ row[r] # "bound"
      BY <2>4, VisitedAtRest DEF QuarantineUnregistered, RecoverRegistered
    <3>2. \A q \in Runs \ {r} : file'[q] = file[q] /\ fileMay'[q] = fileMay[q]
      BY <2>4, Writes DEF QuarantineUnregistered, RecoverRegistered
    <3>3. SourceFacts(r)'
      BY <2>2, <3>1
         DEF SourceFacts, Working, Live, Submitting, Uploading, RegisterCalls
    <3>4. QED
      BY <2>2, <3>2, <3>3 DEF SourceInv, SourceFacts
  <2>5. QED
    BY <2>1, <2>3, <2>4
       DEF Service, Boot, Startup, Close, Shutdown, Exit, Acquire, RefuseLock,
           AcquireRaises, ListRuns, RecoveryFails, FinishRecovery
<1>2. ASSUME NEW r \in Runs, Steps(r) \/ \E p \in Processes : Submit(p, r)
      PROVE  SourceInv'
  <2>1. ASSUME NEW q \in Runs \ {r}
        PROVE  SourceFacts(q)'
    BY <1>2, OtherRuns DEF SourceInv, SourceFacts
  <2>2. SourceFacts(r)'
    <3>1. SourceFacts(r) /\ CallFacts(r) /\ file[r] \in fileMay[r]
      BY DEF SourceInv, CallInv, TypeOK
    <3>2. \A f : /\ Write(r, f) => file'[r] = f /\ fileMay'[r] = fileMay[r] \cup {f}
                 /\ WriteDurably(r, f) => file'[r] = f /\ fileMay'[r] = {f}
      BY Writes
    <3>3. /\ \A t : Goto(r, t) => task'[r] = t
          /\ \A t : Call(r, t) => thread'[r] = t
      BY DEF Goto, Call, TypeOK
    <3> USE DEF SourceFacts, CallFacts, RegisterCalls, diskVars, journalVars
    <3>4. CASE \E p \in Processes : Submit(p, r)
      BY <3>1, <3>2, <3>3, <3>4 DEF Submit, TypeOK
    <3>5. CASE RefuseUpload(r) \/ Publish(r) \/ SyncUpload(r) \/ SyncFails(r)
      BY <3>1, <3>2, <3>3, <3>5 DEF RefuseUpload, Publish, SyncUpload, SyncFails
    <3>6. CASE ValidateEnds(r)
      BY <3>1, <3>3, <3>6 DEF ValidateEnds
    <3>7. CASE CreateFiles(r)
      BY <3>1, <3>3, <3>7 DEF CreateFiles, RegisterStep, InRuns
    <3>8. CASE InsertRun(r) \/ CheckSource(r) \/ BindSource(r) \/ RegistrationFails(r)
      BY <3>1, <3>3, <3>8
         DEF InsertRun, CheckSource, BindSource, RegistrationFails, RegisterStep, TypeOK
    <3>9. CASE Enqueue(r) \/ Leave(r) \/ LeaveCleanup(r) \/ NothingToQuarantine(r)
      BY <3>1, <3>3, <3>9
         DEF Enqueue, Leave, LeaveCleanup, NothingToQuarantine, OnlyTask
    <3>10. CASE Quarantine(r) \/ FailRun(r) \/ FailRunEnds(r)
      BY <3>1, <3>3, <3>10 DEF Quarantine, FailRun, FailRunEnds, TypeOK
    <3>11. CASE QuarantineEnds(r)
      <4>1. thread'[r] = "none" /\ task'[r] = "done" /\ row'[r] = row[r]
        BY <3>3, <3>11 DEF QuarantineEnds
      <4>2. row[r] = "none"
        BY <3>1, <3>11
           DEF QuarantineEnds, TypeOK, Live, Submitting, Uploading, CleaningUp
      <4>3. QED
        BY <4>1, <4>2
    <3>12. QED
      BY <1>2, <3>4, <3>5, <3>6, <3>7, <3>8, <3>9, <3>10, <3>11 DEF Steps, Submission
  <2>3. QED
    BY <2>1, <2>2 DEF SourceInv
<1>3. CASE Ending
  <2>1. ASSUME NEW r \in Runs
        PROVE  SourceFacts(r)'
    <3>1. SourceFacts(r) /\ CallFacts(r)
      BY DEF SourceInv, CallInv
    <3>2. CASE \E p \in Processes : Kill(p)
      <4>1. /\ UNCHANGED <<file, fileMay, row>>
            /\ task'[r] \in {task[r], "dead"} /\ thread'[r] \in {thread[r], "none"}
        BY <3>2 DEF Kill, Ends, diskVars, journalVars
      <4>2. QED
        BY <3>1, <4>1 DEF SourceFacts, RegisterCalls
    <3>3. CASE PowerLoss
      <4>1. /\ file'[r] \in fileMay[r] /\ fileMay'[r] = {file'[r]} /\ row' = row
            /\ task'[r] = IF owner[r] \in Processes /\ (task[r] \in Live \/ thread[r] # "none")
                          THEN "dead" ELSE task[r]
            /\ thread'[r] = IF owner[r] \in Processes THEN "none" ELSE thread[r]
        BY <3>3 DEF PowerLoss, Ends, journalVars
      <4>2. task'[r] \notin {"receive", "sync"} /\ thread'[r] = "none"
        BY <3>1, <4>1 DEF CallFacts, Live, Submitting, Uploading
      <4>3. QED
        BY <3>1, <4>1, <4>2 DEF SourceFacts, RegisterCalls
    <3>4. QED
      BY <1>3, <3>2, <3>3 DEF Ending
  <2>2. QED
    BY <2>1 DEF SourceInv
<1>4. QED
  BY <1>1, <1>2, <1>3, NextSplits

-----------------------------------------------------------------------------
(* What is left behind while no call has raised. *)

LEMMA ErredStays ==
    ASSUME TypeOK, Next
    PROVE  erred => erred'
  BY DEF TypeOK, Next, Boot, Startup, Close, Shutdown, Exit, Kill, PowerLoss, Ends, Acquire,
         RefuseLock, AcquireRaises, ListRuns, RecoveryFails, FinishRecovery,
         QuarantineUnregistered, RecoverRegistered, Visit, Submission, RefuseUpload, Publish,
         SyncUpload, SyncFails, ValidateEnds, CreateFiles, InsertRun, CheckSource, BindSource,
         RegistrationFails, Enqueue, NothingToQuarantine, Quarantine, QuarantineEnds, FailRun,
         FailRunEnds, Leave, LeaveCleanup, Submit, OnlyTask

LEMMA TidyService ==
    ASSUME TypeOK, CallInv, PhaseInv, TidyInv, NEW p \in Processes, Service(p)
    PROVE  TidyInv'
<1> SUFFICES ASSUME ~erred'
             PROVE  /\ \A r \in Runs : Settling(r)'
                    /\ \A q \in Processes, r \in Runs :
                           Stray(r)' => /\ phase'[q] = "auditing" => r \in todo'[q]
                                        /\ phase'[q] # "ready"
  BY DEF TidyInv
<1>1. UNCHANGED <<task, thread, row>>
  BY CallService DEF submissionVars
<1>2. /\ ~erred
      /\ \A r \in Runs : Settling(r)
      /\ \A q \in Processes, r \in Runs :
             Stray(r) => /\ phase[q] = "auditing" => r \in todo[q]
                         /\ phase[q] # "ready"
  BY NextSplits, ErredStays DEF TidyInv
<1>3. ASSUME NEW s \in Runs, QuarantineUnregistered(p, s) \/ RecoverRegistered(p, s)
      PROVE  /\ \A r \in Runs : Settling(r)'
             /\ \A q \in Processes, r \in Runs :
                    Stray(r)' => /\ phase'[q] = "auditing" => r \in todo'[q]
                                 /\ phase'[q] # "ready"
  <2>1. Visit(p, s) /\ ~Working(s) /\ (s \in known[p] <=> row[s] # "none")
    BY <1>3, VisitedAtRest DEF QuarantineUnregistered, RecoverRegistered
  <2>2. \A r \in Runs \ {s} : /\ file'[r] = file[r] /\ fileMay'[r] = fileMay[r]
                              /\ failed'[r] = failed[r]
    BY <1>3, Writes
       DEF QuarantineUnregistered, RecoverRegistered, diskVars, TypeOK
  <2>3. failed[s] => failed'[s]
    BY <1>3 DEF QuarantineUnregistered, RecoverRegistered, TypeOK
  <2>4. \/ fileMay'[s] = {"quarantined"} /\ file'[s] = "quarantined"
        \/ row[s] # "none" /\ fileMay'[s] = fileMay[s] /\ file'[s] = file[s]
        \/ row[s] # "none" /\ file[s] = "stored"
    BY <1>3, <2>1, Writes DEF QuarantineUnregistered, RecoverRegistered, diskVars
  <2>5. ~Stray(s)'
    BY <1>1, <2>4 DEF Stray, InRuns
  <2>6. Settling(s)'
    <3>1. task[s] \notin Live /\ thread[s] = "none"
      BY <2>1 DEF Working
    <3>2. file[s] \in fileMay[s] /\ Settling(s)
      BY <1>2 DEF TypeOK
    <3>3. QED
      BY <1>1, <2>3, <2>4, <3>1, <3>2 DEF Settling, InRuns, Live, CleaningUp
  <2>7. \A r \in Runs \ {s} : Settling(r)' /\ Stray(r)' = Stray(r)
    BY <1>1, <1>2, <2>2 DEF Settling, Stray
  <2>8. QED
    BY <1>2, <2>1, <2>5, <2>6, <2>7 DEF Visit, TypeOK
<1>4. CASE UNCHANGED <<file, fileMay, failed>>
  <2>1. \A r \in Runs : Settling(r)' /\ Stray(r)' = Stray(r)
    BY <1>1, <1>2, <1>4 DEF Settling, Stray
  <2>2. CASE \/ Boot(p) \/ Acquire(p) \/ RefuseLock(p) \/ AcquireRaises(p)
             \/ Close(p) \/ Shutdown(p) \/ Exit(p)
    BY <1>2, <2>1, <2>2
       DEF Boot, Acquire, RefuseLock, AcquireRaises, Close, Shutdown, Exit, To, TypeOK
  <2>3. CASE ListRuns(p)
    BY <1>1, <1>2, <1>4, <2>1, <2>3 DEF ListRuns, To, TypeOK, Stray
  <2>4. CASE FinishRecovery(p)
    BY <1>2, <2>1, <2>4 DEF FinishRecovery, To, TypeOK
  <2>5. CASE RecoveryFails(p)
    BY <2>5 DEF RecoveryFails
  <2>6. QED
    BY <1>3, <2>1, <2>2, <2>3, <2>4, <2>5 DEF Service, Startup
<1>5. QED
  BY <1>3, <1>4
     DEF Service, Startup, Boot, Acquire, RefuseLock, AcquireRaises, Close, Shutdown,
         Exit, ListRuns, RecoveryFails, FinishRecovery, diskVars, journalVars

LEMMA TidySubmission ==
    ASSUME TypeOK, CallInv, PhaseInv, SourceInv, TidyInv,
           NEW r \in Runs, Steps(r) \/ \E p \in Processes : Submit(p, r)
    PROVE  TidyInv'
<1> SUFFICES ASSUME ~erred'
             PROVE  /\ \A q \in Runs : Settling(q)'
                    /\ \A p \in Processes, q \in Runs :
                           Stray(q)' => /\ phase'[p] = "auditing" => q \in todo'[p]
                                        /\ phase'[p] # "ready"
  BY DEF TidyInv
<1>1. /\ ~erred
      /\ \A q \in Runs : Settling(q)
      /\ \A p \in Processes, q \in Runs :
             Stray(q) => /\ phase[p] = "auditing" => q \in todo[p]
                         /\ phase[p] # "ready"
  BY NextSplits, ErredStays DEF TidyInv
<1>2. UNCHANGED processVars
  BY StepIsWork DEF Submit
<1>3. \A q \in Runs \ {r} : Settling(q)' /\ Stray(q)' = Stray(q)
  BY <1>1, OtherRuns DEF Settling, Stray
<1>4. Settling(r)' /\ ~Stray(r)'
  <2>1. /\ Settling(r) /\ CallFacts(r) /\ SourceFacts(r) /\ file[r] \in fileMay[r]
        /\ SourceFacts(r)'
    BY <1>1, NextSplits, SourceStep DEF SourceInv, CallInv, TypeOK
  <2>2. Steps(r) => ~Stray(r)
    BY <1>1, StepIsWork, WorkerIsReady
  <2>3. \A f : /\ Write(r, f) => file'[r] = f /\ fileMay'[r] = fileMay[r] \cup {f}
               /\ WriteDurably(r, f) => file'[r] = f /\ fileMay'[r] = {f}
    BY Writes
  <2>4. /\ \A t : Goto(r, t) => task'[r] = t
        /\ \A t : Call(r, t) => thread'[r] = t
    BY DEF Goto, Call, TypeOK
  <2> USE DEF Settling, Stray, CallFacts, InRuns, diskVars, journalVars
  <2>5. CASE \E p \in Processes : Submit(p, r)
    BY <2>1, <2>4, <2>5 DEF Submit, TypeOK, Live, Submitting, Uploading
  <2>6. CASE RefuseUpload(r) \/ Publish(r) \/ SyncUpload(r) \/ SyncFails(r)
    BY <2>1, <2>3, <2>4, <2>6
       DEF RefuseUpload, Publish, SyncUpload, SyncFails, Live, Submitting, Uploading,
           CleaningUp
  <2>7. CASE ValidateEnds(r)
    <3>1. /\ thread[r] = "validate" /\ file[r] = "stored"
          /\ UNCHANGED <<file, fileMay, row, failed>>
      BY <2>1, <2>7 DEF ValidateEnds, SourceFacts
    <3>2. task[r] \in {"validate", "settle"}
      BY <2>1, <3>1 DEF TypeOK, RegisterCalls, Live, Submitting, Uploading, CleaningUp
    <3>3. \/ task'[r] = "register" /\ thread'[r] = "create"
          \/ task'[r] = "settle" /\ thread'[r] = "none"
      BY <2>4, <2>7, <3>2 DEF ValidateEnds
    <3>4. QED
      BY <3>1, <3>3 DEF Live, Submitting, CleaningUp
  <2>8. CASE CreateFiles(r) \/ InsertRun(r) \/ CheckSource(r) \/ BindSource(r)
    BY <2>1, <2>2, <2>4, <2>8
       DEF CreateFiles, InsertRun, CheckSource, BindSource, RegisterStep, SourceFacts,
           RegisterCalls, TypeOK
  <2>9. CASE RegistrationFails(r)
    BY <2>1, <2>2, <2>4, <2>9
       DEF RegistrationFails, SourceFacts, RegisterCalls
  <2>10. CASE Enqueue(r)
    BY <2>1, <2>4, <2>10 DEF Enqueue, OnlyTask
  <2>11. CASE Leave(r)
    BY <2>1, <2>2, <2>4, <2>11
       DEF Leave, OnlyTask, SourceFacts, RegisterCalls, Live, Submitting, CleaningUp
  <2>12. CASE NothingToQuarantine(r)
    BY <2>1, <2>12 DEF NothingToQuarantine
  <2>13. CASE Quarantine(r) \/ FailRun(r)
    BY <2>1, <2>2, <2>4, <2>13
       DEF Quarantine, FailRun, Settled, ThreadsOf, Live, CleaningUp
  <2>14. CASE QuarantineEnds(r)
    BY <2>3, <2>4, <2>14 DEF QuarantineEnds
  <2>15. CASE FailRunEnds(r)
    <3>1. thread[r] = "fail" /\ thread'[r] = "none" /\ row'[r] = row[r] /\ row[r] # "none"
      BY <2>1, <2>4, <2>15 DEF FailRunEnds
    <3>2. task'[r] = IF task[r] = "failing" THEN "done" ELSE task[r]
      BY <2>15 DEF FailRunEnds, TypeOK
    <3>3. failed'[r]
      <4>1. failed' = [failed EXCEPT ![r] = row[r] # "none"]
        BY <1>1, <2>15 DEF FailRunEnds
      <4>2. QED
        BY <3>1, <4>1 DEF TypeOK
    <3>4. task'[r] # "settle"
      BY <2>1, <3>1, <3>2
    <3>5. QED
      BY <3>1, <3>2, <3>3, <3>4
  <2>16. CASE LeaveCleanup(r)
    BY <2>1, <2>4, <2>16 DEF LeaveCleanup, OnlyTask
  <2>17. QED
    BY <2>5, <2>6, <2>7, <2>8, <2>9, <2>10, <2>11, <2>12, <2>13, <2>14, <2>15, <2>16
       DEF Steps, Submission
<1>5. QED
  BY <1>1, <1>2, <1>3, <1>4 DEF processVars

LEMMA TidyEnding ==
    ASSUME TypeOK, CallInv, PhaseInv, TidyInv, Ending
    PROVE  TidyInv'
<1> SUFFICES ASSUME ~erred'
             PROVE  /\ \A r \in Runs : Settling(r)'
                    /\ \A p \in Processes, r \in Runs :
                           Stray(r)' => /\ phase'[p] = "auditing" => r \in todo'[p]
                                        /\ phase'[p] # "ready"
  BY DEF TidyInv
<1>1. PICK S \in SUBSET Processes : /\ Ends(S)
                                    /\ S = Processes \/ UNCHANGED diskVars
  BY DEF Ending, Kill, PowerLoss
<1>2. /\ ~erred
      /\ \A r \in Runs : Settling(r)
      /\ \A p \in Processes, r \in Runs :
             Stray(r) => /\ phase[p] = "auditing" => r \in todo[p]
                         /\ phase[p] # "ready"
  BY NextSplits, ErredStays DEF TidyInv
<1>3. ASSUME NEW r \in Runs
      PROVE  Settling(r)'
  <2>1. /\ CallFacts(r) /\ Settling(r)
        /\ owner'[r] = owner[r] /\ row'[r] = row[r] /\ failed'[r] = failed[r]
    BY <1>1, <1>2 DEF CallInv, Ends, journalVars
  <2>2. /\ task'[r] = IF owner[r] \in S /\ (task[r] \in Live \/ thread[r] # "none")
                      THEN "dead" ELSE task[r]
        /\ thread'[r] = IF owner[r] \in S THEN "none" ELSE thread[r]
    BY <1>1 DEF Ends
  <2>3. CASE UNCHANGED diskVars
    BY <2>1, <2>2, <2>3 DEF Settling, diskVars, Live, CleaningUp
  <2>4. CASE PowerLoss /\ S = Processes
    <3>1. file'[r] \in fileMay[r] /\ fileMay'[r] = {file'[r]}
      BY <2>4 DEF PowerLoss
    <3>2. task'[r] \notin {"settle", "settleRegistered"}
          /\ (thread'[r] = "fail" => FALSE)
      BY <2>1, <2>2, <2>4 DEF CallFacts, Live, CleaningUp
    <3>3. task'[r] = "done" => task[r] = "done" /\ thread[r] = "none"
      BY <2>1, <2>2, <2>4 DEF CallFacts
    <3>4. QED
      BY <2>1, <3>1, <3>2, <3>3 DEF Settling
  <2>5. QED
    BY <1>1, <2>3, <2>4 DEF Ending, Kill
<1>4. ASSUME NEW p \in Processes, NEW r \in Runs, Stray(r)'
      PROVE  /\ phase'[p] = "auditing" => r \in todo'[p]
             /\ phase'[p] # "ready"
  <2>1. /\ phase'[p] = IF p \in S THEN "down" ELSE phase[p]
        /\ todo'[p] = IF p \in S THEN {} ELSE todo[p]
    BY <1>1 DEF Ends
  <2>2. CASE p \in S
    BY <2>1, <2>2
  <2>3. CASE p \notin S
    <3>1. file'[r] = file[r] /\ row'[r] = row[r]
      BY <1>1, <2>3 DEF Ends, diskVars, journalVars
    <3>2. task'[r] = IF owner[r] \in S /\ (task[r] \in Live \/ thread[r] # "none")
                     THEN "dead" ELSE task[r]
      BY <1>1 DEF Ends
    <3>3. CASE Stray(r)
      BY <1>2, <2>1, <2>3, <3>3
    <3>4. CASE ~Stray(r)
      <4>1. owner[r] \in S /\ Working(r)
        BY <1>4, <3>1, <3>2, <3>4 DEF Stray, Working
      <4>2. phase[p] \notin {"auditing", "ready"}
        BY <2>3, <4>1, WorkerIsReady
      <4>3. QED
        BY <2>1, <2>3, <4>2
    <3>5. QED
      BY <3>3, <3>4
  <2>4. QED
    BY <2>2, <2>3
<1>5. QED
  BY <1>3, <1>4

LEMMA TidyStep ==
    ASSUME TypeOK, CallInv, PhaseInv, SourceInv, TidyInv, Next
    PROVE  TidyInv'
  BY NextSplits, TidyService, TidySubmission, TidyEnding

-----------------------------------------------------------------------------
(* The theorems. *)

LEMMA InitIntake == Init => IntakeInv
<1> SUFFICES ASSUME Init
             PROVE  IntakeInv
  OBVIOUS
<1>1. TypeOK
  <2>1. /\ boots \in 0..MaxBoots /\ lock \in Processes \cup {None} /\ erred \in BOOLEAN
        /\ phase \in [Processes -> Phases] /\ closing \in [Processes -> BOOLEAN]
        /\ known \in [Processes -> SUBSET Runs] /\ todo \in [Processes -> SUBSET Runs]
    <3>1. boots \in 0..MaxBoots
      BY IntakeAssumption DEF Init
    <3>2. known \in [Processes -> SUBSET Runs] /\ todo \in [Processes -> SUBSET Runs]
      BY DEF Init
    <3>3. phase \in [Processes -> Phases]
      BY DEF Init, Phases
    <3>4. QED
      BY <3>1, <3>2, <3>3 DEF Init
  <2>2. /\ file \in [Runs -> Files] /\ fileMay \in [Runs -> SUBSET Files]
        /\ \A r \in Runs : file[r] \in fileMay[r]
    <3>1. {"absent"} \in SUBSET Files
      BY DEF Files
    <3>2. QED
      BY <3>1 DEF Init, Files
  <2>3. QED
    BY <2>1, <2>2 DEF Init, TypeOK
<1>2. \A r \in Runs : CallFacts(r) /\ SourceFacts(r) /\ Settling(r) /\ ~Stray(r) /\ ~Working(r)
  BY DEF Init, CallFacts, SourceFacts, Settling, Stray, Working, InRuns, RegisterCalls, Live,
         Submitting, Uploading, CleaningUp
<1>3. PhaseInv
  BY <1>2 DEF Init, PhaseInv
<1>4. QED
  BY <1>1, <1>2, <1>3 DEF IntakeInv, CallInv, SourceInv, TidyInv

LEMMA IntakeStep == IntakeInv /\ [Next]_vars => IntakeInv'
<1> SUFFICES ASSUME IntakeInv, [Next]_vars
             PROVE  IntakeInv'
  OBVIOUS
<1>1. CASE Next
  BY <1>1, TypeStep, CallStep, PhaseStep, SourceStep, TidyStep DEF IntakeInv
<1>2. CASE UNCHANGED vars
  <2>1. TypeOK' /\ CallInv'
    BY TypeStep, CallStep DEF IntakeInv
  <2> USE <1>2 DEF IntakeInv, vars, processVars, submissionVars, diskVars, journalVars
  <2>2. PhaseInv'
    BY DEF PhaseInv, Working
  <2>3. SourceInv'
    BY DEF SourceInv, SourceFacts
  <2>4. TidyInv'
    BY DEF TidyInv, Settling, Stray
  <2>5. QED
    BY <2>1, <2>2, <2>3, <2>4
<1>3. QED
  BY <1>1, <1>2

THEOREM IntakeInvariant == Spec => []IntakeInv
  BY InitIntake, IntakeStep, PTL DEF Spec

(* The variables keep their types, and the content a run's directory has is *)
(* one of those a power loss may leave.                                     *)
THEOREM IntakeTypeCorrect == Spec => []TypeOK
<1>1. IntakeInv => TypeOK
  BY DEF IntakeInv
<1>2. QED
  BY <1>1, IntakeInvariant, PTL

(* However many processes start over one artifact root, and wherever they   *)
(* are killed or the power fails: a recovery, a submission or a thread left *)
(* behind works only for the process that holds .service.lock.              *)
THEOREM OwnerWritesAloneHolds == Spec => []OwnerWritesAlone
<1>1. IntakeInv => OwnerWritesAlone
  <2> SUFFICES ASSUME IntakeInv, NEW p \in Processes,
                      phase[p] \in {"recovering", "auditing"}
                          \/ TasksOf(p) \cup ThreadsOf(p) # {}
               PROVE  lock = p
    BY DEF OwnerWritesAlone
  <2>1. CASE phase[p] \in {"recovering", "auditing"}
    BY <2>1 DEF IntakeInv, PhaseInv
  <2>2. CASE TasksOf(p) \cup ThreadsOf(p) # {}
    <3>1. PICK r \in Runs : owner[r] = p /\ Working(r)
      BY <2>2 DEF TasksOf, ThreadsOf, Working
    <3>2. QED
      BY <3>1, WorkerIsReady DEF IntakeInv
  <2>3. QED
    BY <2>1, <2>2
<1>2. QED
  BY <1>1, IntakeInvariant, PTL

(* A source the journal names is on disk, durably: bind_source commits only *)
(* after every directory above it was synchronized.  An accepted run is one *)
(* of those.                                                                *)
THEOREM BoundHasSourceHolds == Spec => []BoundHasSource
<1>1. IntakeInv => BoundHasSource
  BY DEF IntakeInv, BoundHasSource, SourceInv, SourceFacts, CallInv, CallFacts
<1>2. QED
  BY <1>1, IntakeInvariant, PTL

(* What a submission or the thread of its register call works in is not     *)
(* moved away: not by a cleanup, which waits for the threads, nor by the    *)
(* startup of a process that has the lock.                                  *)
THEOREM WorkUndisturbedHolds == Spec => []WorkUndisturbed
<1>1. IntakeInv => WorkUndisturbed
  <2> SUFFICES ASSUME IntakeInv, NEW r \in Runs
               PROVE  /\ task[r] = "receive" => file[r] = "staged"
                      /\ task[r] \in {"sync", "validate", "register", "enqueue"} =>
                             file[r] = "stored"
                      /\ thread[r] \in RegisterCalls \cup {"validate"} => file[r] = "stored"
    BY DEF WorkUndisturbed
  <2>1. SourceFacts(r) /\ CallFacts(r) /\ file[r] \in fileMay[r]
    BY DEF IntakeInv, SourceInv, CallInv, TypeOK
  <2>2. QED
    BY <2>1 DEF SourceFacts, CallFacts
<1>2. QED
  BY <1>1, IntakeInvariant, PTL

(* Once a process is ready, every directory under runs/ is that of a        *)
(* registered run or of a submission under way, unless a call has raised.   *)
THEOREM ReadyRootIsTidyHolds == Spec => []ReadyRootIsTidy
<1>1. IntakeInv => ReadyRootIsTidy
  BY DEF IntakeInv, ReadyRootIsTidy, TidyInv, Stray
<1>2. QED
  BY <1>1, IntakeInvariant, PTL

(* A submission given up at whichever await is settled once its cleanup is  *)
(* over: failed in the journal, or out of the runs directory, and a power   *)
(* loss does not bring it back.  No call may have raised.                   *)
THEOREM AbandonedSettledHolds == Spec => []AbandonedSettled
<1>1. IntakeInv => AbandonedSettled
  <2> SUFFICES ASSUME IntakeInv, ~erred, NEW r \in Runs, LeftBehind(r)
               PROVE  FALSE
    BY DEF AbandonedSettled
  <2>1. Settling(r) /\ file[r] \in fileMay[r]
    BY DEF IntakeInv, TidyInv, TypeOK
  <2>2. QED
    BY <2>1 DEF Settling, LeftBehind
<1>2. QED
  BY <1>1, IntakeInvariant, PTL

===============================================================================
