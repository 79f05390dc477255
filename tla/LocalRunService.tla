---------------------------- MODULE LocalRunService ----------------------------
(***************************************************************************)
(* The clients of one service and its shutdown: submit_pdf, resume, cancel *)
(* and wait as LocalRunService makes them out of the worker's operations   *)
(* and repository calls, any client free to leave at any await.            *)
(*                                                                         *)
(* RunLifecycle has one owner of a run at a time.  This module is where    *)
(* that comes from: reservations, the _released events and the admission   *)
(* condition of the service.                                               *)
(***************************************************************************)
EXTENDS SingleRunWorker

CONSTANT Operations

ASSUME OperationsAssumption == Operations \subseteq {"submit", "resume", "cancel", "wait"}

VARIABLES
    pc,        \* per client, where its call is
    target,    \* per client, the run its call is about
    givenUp    \* history: runs whose last cleanup ended without failing them

clientVars == <<pc, target>>
vars == <<status, flagged, queueVars, eventVars, waitVars, taskVars, shutdown,
          offloads, clientVars, givenUp>>

SubmitPcs == {"register", "submitted", "dropped"}
ResumePcs == {"prepare", "prepared", "enqueue", "rollback", "failing"}
CancelPcs == {"cancel", "signal"}
WaitPcs == {"read", "capture", "reread", "listen", "blocked"}

TypeOK ==
    /\ WorkerTypeOK
    /\ pc \in [Clients -> {"idle", "admit"} \cup SubmitPcs \cup ResumePcs
                          \cup CancelPcs \cup WaitPcs]
    /\ target \in [Clients -> Runs \cup {NoRun}]
    /\ givenUp \subseteq Runs

Init ==
    /\ WorkerInit
    /\ pc = [c \in Clients |-> "idle"]
    /\ target = [c \in Clients |-> NoRun]
    /\ givenUp = {}

-----------------------------------------------------------------------------

(* _require_ready. *)
Ready == shutdown = "open" /\ ~Unserved

(* _active_mutations: the calls admitted and not finished. *)
Mutating == {c \in Clients : pc[c] \in SubmitPcs \cup ResumePcs \cup CancelPcs}

Goto(c, next) == pc' = [pc EXCEPT ![c] = next] /\ UNCHANGED target

Call(c, next, r) ==
    /\ pc' = [pc EXCEPT ![c] = next]
    /\ target' = [target EXCEPT ![c] = r]

Return(c) == Call(c, "idle", NoRun)

(* A client knows a run from the answer to its submission, so nobody knows *)
(* one whose submission is going on or being cleaned up.                   *)
InSubmission ==
    {target[c] : c \in {d \in Clients : pc[d] \in SubmitPcs}}
    \cup {r \in Runs : status[r] = "not_started"
                        /\ (<<"fail", r>> \in offloads \/ r \in givenUp)}
Known == {r \in Runs \ InSubmission : status[r] # "absent"}
Fresh == {r \in Runs \ InSubmission : status[r] = "absent"}

UnchangedService == UNCHANGED <<shutdown, offloads, taskVars>>
OnlyWait == UNCHANGED <<status, flagged, queueVars, eventVars>> /\ UnchangedService
OnlyClient == UNCHANGED waitVars /\ OnlyWait
OnlyStatus == UNCHANGED <<queueVars, eventVars, waitVars>> /\ UnchangedService
OnlyQueue == UNCHANGED <<status, flagged, waitVars>> /\ UnchangedService

-----------------------------------------------------------------------------
(* submit_pdf. *)

Submit(c) ==
    /\ pc[c] = "idle" /\ "submit" \in Operations
    /\ Ready
    /\ ReserveAnonymous
    /\ OnlyQueue
    /\ \E r \in Fresh : Call(c, "register", r)

(* The upload is refused, or its client leaves, before registration. *)
RefuseUpload(c) ==
    /\ pc[c] = "register"
    /\ OnlyClient
    /\ Goto(c, "dropped")

Register(c) ==
    /\ pc[c] = "register"
    /\ SetStatus(target[c], "not_started")
    /\ UNCHANGED flagged
    /\ OnlyStatus
    /\ Goto(c, "submitted")

EnqueueSubmitted(c) ==
    /\ pc[c] = "submitted"
    /\ EnqueueAnonymous(target[c])
    /\ OnlyQueue
    /\ Return(c)

LeaveSubmission(c) ==
    /\ pc[c] = "submitted"
    /\ OnlyClient
    /\ Goto(c, "dropped")

(* cleanup_submission and release_reservation. *)
DropSubmission(c) ==
    /\ pc[c] = "dropped"
    /\ FailIf(target[c], Live)
    /\ UNCHANGED <<flagged, waitVars>>
    /\ ReleaseAnonymous
    /\ UnchangedService
    /\ Return(c)

-----------------------------------------------------------------------------
(* resume. *)

(* wait_until_released: an older item may still own the run. *)
Resume(c) ==
    /\ pc[c] = "idle" /\ "resume" \in Operations
    /\ Ready
    /\ \E r \in Known :
           /\ awaiting' = [awaiting EXCEPT ![c] = IF r \in enqueued THEN r ELSE NoRun]
           /\ Call(c, "admit", r)
    /\ UNCHANGED <<captured, listening>>
    /\ OnlyWait

Admit(c) ==
    /\ pc[c] = "admit"
    /\ awaiting[c] = NoRun
    /\ generation[target[c]] < MaxGeneration
    /\ Ready
    /\ Reserve(target[c])
    /\ OnlyQueue
    /\ Goto(c, "prepare")

RefuseResume(c) ==
    /\ pc[c] = "admit"
    /\ awaiting[c] = NoRun
    /\ ~(Ready /\ Reservable(target[c])) \/ generation[target[c]] = MaxGeneration
    /\ OnlyClient
    /\ Return(c)

(* prepare_resume claims a failed run, and refuses any other and a corrupt *)
(* or incompatible one.                                                    *)
Prepare(c) ==
    /\ pc[c] = "prepare"
    /\ UNCHANGED flagged
    /\ OnlyStatus
    /\ \/ /\ status[target[c]] = "failed"
          /\ SetStatus(target[c], "resuming")
          /\ Goto(c, "prepared")
       \/ UNCHANGED status /\ Goto(c, "rollback")

(* Recovery, budget and requeue follow the claim and may refuse it. *)
FinishPrepare(c) ==
    /\ pc[c] = "prepared"
    /\ UNCHANGED flagged
    /\ OnlyStatus
    /\ \/ status[target[c]] = "resuming" /\ UNCHANGED status /\ Goto(c, "enqueue")
       \/ FailIf(target[c], {"resuming"}) /\ Goto(c, "rollback")

EnqueueResumed(c) ==
    /\ pc[c] = "enqueue"
    /\ EnqueueReserved(target[c])
    /\ OnlyQueue
    /\ Return(c)

LeaveResume(c) ==
    /\ pc[c] = "enqueue"
    /\ OnlyClient
    /\ Goto(c, "rollback")

RollBackMutant(c) ==
    /\ pc[c] = "rollback"
    /\ ReleaseReservation(target[c])
    /\ OnlyQueue
    /\ Return(c)

(* rollback_abandoned_resume reads the status of the run.  The generation  *)
(* that the reservation advanced stays so, and its event unset.            *)
RollBack(c) ==
    /\ pc[c] = "rollback"
    /\ UNCHANGED <<status, flagged, waitVars>>
    /\ UnchangedService
    /\ IF status[target[c]] = "resuming"
       THEN Goto(c, "failing") /\ UNCHANGED <<queueVars, eventVars>>
       ELSE ReleaseReservation(target[c]) /\ Return(c)

(* Then it fails the claim, which may have been failed meanwhile. *)
FailClaim(c) ==
    /\ pc[c] = "failing"
    /\ FailIf(target[c], Live)
    /\ UNCHANGED <<flagged, waitVars>>
    /\ ReleaseReservation(target[c])
    /\ UnchangedService
    /\ Return(c)

(* The place of a call is given back whatever became of its cleanup. *)
GiveBack(c) == IF pc[c] = "dropped" THEN ReleaseAnonymous ELSE ReleaseReservation(target[c])

(* A client interrupted once more while its cleanup fails the run: the     *)
(* place is given back with the call still on its way.                     *)
LeaveCleanup(c) ==
    /\ \/ pc[c] = "failing"
       \/ pc[c] = "dropped" /\ status[target[c]] # "absent"
    /\ GiveBack(c)
    /\ Cardinality(offloads) < MaxOffloads
    /\ offloads' = offloads \cup {<<"fail", target[c]>>}
    /\ UNCHANGED <<status, flagged, waitVars, shutdown, taskVars>>
    /\ Return(c)

(* A client interrupted once more while the status is read, or a call of   *)
(* the cleanup that raises: both are suppressed, and nothing fails the run.*)
GiveUp(c) ==
    /\ pc[c] \in {"rollback", "failing", "dropped"}
    /\ GiveBack(c)
    /\ givenUp' = IF status[target[c]] \in Live THEN givenUp \cup {target[c]} ELSE givenUp
    /\ UNCHANGED <<status, flagged, waitVars>>
    /\ UnchangedService
    /\ Return(c)

-----------------------------------------------------------------------------
(* cancel. *)

Cancel(c) ==
    /\ pc[c] = "idle" /\ "cancel" \in Operations
    /\ Ready
    /\ OnlyClient
    /\ \E r \in Known : Call(c, "cancel", r)

CancelCall(c) ==
    /\ pc[c] = "cancel"
    /\ RequestCancel(target[c])
    /\ OnlyStatus
    /\ IF status'[target[c]] \in Terminal THEN Goto(c, "signal") ELSE Return(c)

(* signal_terminal with the generation current by now. *)
CancelSignals(c) ==
    /\ pc[c] = "signal"
    /\ SignalTerminal(<<target[c], generation[target[c]]>>)
    /\ UNCHANGED <<status, flagged, queueVars, generation, captured, awaiting>>
    /\ UnchangedService
    /\ Return(c)

(* The canceller leaves; its call may still be on its way. *)
LeaveCancel(c) ==
    /\ pc[c] \in CancelPcs
    /\ Cardinality(offloads) < MaxOffloads
    /\ offloads' = IF pc[c] = "cancel" THEN offloads \cup {<<"cancel", target[c]>>}
                                       ELSE offloads
    /\ UNCHANGED <<status, flagged, queueVars, eventVars, waitVars, shutdown, taskVars>>
    /\ Return(c)

-----------------------------------------------------------------------------
(* wait. *)

Wait(c) ==
    /\ pc[c] = "idle" /\ "wait" \in Operations
    /\ Ready
    /\ OnlyClient
    /\ \E r \in Known : Call(c, "read", r)

Read(c) ==
    /\ pc[c] = "read"
    /\ OnlyClient
    /\ IF status[target[c]] \in Terminal THEN Return(c) ELSE Goto(c, "capture")

(* terminal_event. *)
Capture(c) ==
    /\ pc[c] = "capture"
    /\ captured' = [captured EXCEPT ![c] = <<target[c], generation[target[c]]>>]
    /\ UNCHANGED <<listening, awaiting>>
    /\ OnlyWait
    /\ Goto(c, "reread")

StopListening(c) ==
    /\ captured' = [captured EXCEPT ![c] = NoItem]
    /\ listening' = listening \ {c}

Reread(c) ==
    /\ pc[c] = "reread"
    /\ UNCHANGED awaiting
    /\ OnlyWait
    /\ IF status[target[c]] \in Terminal
       THEN StopListening(c) /\ Return(c)
       ELSE UNCHANGED <<captured, listening>> /\ Goto(c, "listen")

Listen(c) ==
    /\ pc[c] = "listen"
    /\ UNCHANGED awaiting
    /\ OnlyWait
    /\ \/ ~Ready /\ StopListening(c) /\ Return(c)
       \/ /\ Ready
          /\ listening' = IF captured[c] \in signalled THEN listening
                                                       ELSE listening \cup {c}
          /\ UNCHANGED captured
          /\ Goto(c, "blocked")

WokenMutant(c) == c \notin listening
Woken(c) == c \notin listening \/ shutdown # "open"

Wake(c) ==
    /\ pc[c] = "blocked"
    /\ Woken(c)
    /\ StopListening(c)
    /\ UNCHANGED awaiting
    /\ OnlyWait
    /\ IF Ready THEN Goto(c, "read") ELSE Return(c)

(* A timeout, or the client leaves. *)
Leave(c) ==
    /\ pc[c] \in WaitPcs \cup {"admit"}
    /\ StopListening(c)
    /\ awaiting' = [awaiting EXCEPT ![c] = NoRun]
    /\ OnlyWait
    /\ Return(c)

-----------------------------------------------------------------------------
(* close: no mutation is admitted any more, then those admitted end. *)

Close ==
    /\ shutdown = "open"
    /\ shutdown' = "quiesce"
    /\ UNCHANGED <<status, flagged, queueVars, eventVars, waitVars, taskVars, offloads,
                   clientVars, givenUp>>

Quiesce ==
    /\ Mutating = {}
    /\ Stop
    /\ UNCHANGED <<clientVars, givenUp>>

-----------------------------------------------------------------------------
(* The runs a resume has just claimed. *)
Claims == {r \in Runs : status[r] = "failed" /\ status'[r] = "resuming"}

Ask(c) == (Submit(c) \/ Resume(c) \/ Cancel(c) \/ Wait(c)) /\ UNCHANGED givenUp

Answer(c) ==
    /\ \/ Register(c) \/ EnqueueSubmitted(c) \/ DropSubmission(c) \/ Admit(c)
       \/ RefuseResume(c) \/ Prepare(c) \/ FinishPrepare(c) \/ EnqueueResumed(c)
       \/ RollBack(c) \/ FailClaim(c) \/ CancelCall(c) \/ CancelSignals(c)
       \/ Read(c) \/ Capture(c) \/ Reread(c) \/ Listen(c) \/ Wake(c)
    /\ givenUp' = givenUp \ Claims

Quit(c) ==
    \/ GiveUp(c)
    \/ /\ \/ RefuseUpload(c) \/ LeaveSubmission(c) \/ LeaveResume(c)
          \/ LeaveCleanup(c) \/ LeaveCancel(c) \/ Leave(c)
       /\ UNCHANGED givenUp

(* A cleanup's call that ends in its thread may have raised there. *)
FailureLost == {r \in Runs : <<"fail", r>> \in offloads \ offloads' /\ status'[r] \in Live}

UnchangedCalls == UNCHANGED <<clientVars, givenUp>>
ServeQueue == Serve /\ UnchangedCalls
ShutDown == Quiesce \/ ((Joined \/ AbandonPending \/ FinishShutdown) /\ UnchangedCalls)
Offloaded == OffloadEnds /\ UNCHANGED clientVars /\ givenUp' = givenUp \cup FailureLost
StartWorker == Start /\ UnchangedCalls
Expire == GraceExpires /\ UnchangedCalls

Next ==
    \/ \E c \in Clients : Ask(c) \/ Answer(c) \/ Quit(c)
    \/ StartWorker \/ ServeQueue \/ Offloaded \/ Close \/ ShutDown \/ Expire

Spec == Init /\ [][Next]_vars

(* The event loop runs every task that can run and threads finish their    *)
(* calls; nothing makes a client call, leave or close the service, and the *)
(* grace period need not expire.                                           *)
FairSpec ==
    /\ Spec
    /\ WF_vars(ServeQueue) /\ WF_vars(ShutDown) /\ WF_vars(Offloaded)
    /\ \A c \in Clients : WF_vars(Answer(c))

-----------------------------------------------------------------------------
(* Safety. *)

Places(r, items) == {i \in DOMAIN items : RunOf(items[i]) = r}
Preparing(r) == {c \in Clients : target[c] = r /\ pc[c] \in SubmitPcs \cup ResumePcs}
Serving(r) == IF RunOf(active) = r /\ worker \in {"load", "process", "release"} THEN 1 ELSE 0

Owners(r) == Cardinality(Preparing(r)) + Cardinality(Places(r, queue))
             + Cardinality(Places(r, backlog)) + Serving(r)

(* A run is in the hands of one owner at most: a submission, a resume, the *)
(* queue or the worker, so nothing drives the journal of a run twice.      *)
SingleOwner == \A r \in Runs : Owners(r) <= 1

(* A run that is not terminal has an owner while the service runs, or is   *)
(* about to be failed by an abandoned cleanup, so it is not lost until the *)
(* next restart.  The one exception is a run that never began to run and   *)
(* whose cleanup was itself cut short.                                     *)
LiveRunsOwned ==
    ~Unserved /\ ~Stopping =>
        \A r \in Runs : status[r] \in Live =>
            \/ Owners(r) = 1
            \/ <<"fail", r>> \in offloads
            \/ r \in givenUp /\ status[r] # "running"

(* resume_cleanup.py: a resume claim left by an interrupted caller is      *)
(* failed, so every claim has somebody who runs it or will fail it.        *)
ClaimsCleanedUp ==
    ~Unserved /\ ~Stopping =>
        \A r \in Runs : status[r] = "resuming" =>
            Owners(r) = 1 \/ <<"fail", r>> \in offloads

(* A reservation stands for room in the queue, and is not granted while    *)
(* recovered work still waits: put_nowait never fails and nothing admitted *)
(* later overtakes the backlog.                                            *)
ReservationsHold ==
    /\ Len(queue) + Cardinality(reserved) + anonymous <= Capacity
    /\ backlog # <<>> => reserved = {} /\ anonymous = 0

(* What is signalled terminal under its current generation while queued or *)
(* being served is terminal, so a wait on it does not spin.                *)
CurrentSignalSettled ==
    \A r \in enqueued : <<r, generation[r]>> \in signalled => status[r] \in Terminal

(* resume_cleanup.py: the cleanup of an abandoned resume fails its own     *)
(* claim only, never the claim of a later resume or what that has queued.  *)
Claimed(r) == \/ \E c \in Clients : target[c] = r /\ pc[c] \in {"prepared", "enqueue"}
              \/ r \in enqueued

CleanupSparesOthers ==
    [][\A r \in Runs :
          <<"fail", r>> \in offloads /\ <<"fail", r>> \notin offloads' /\ Claimed(r)
          => status'[r] = status[r]]_vars

(* Once the service is closed, and the artifact root unlocked, none of its *)
(* threads changes a run any more.                                         *)
SilentAfterClose == [][shutdown = "closed" => UNCHANGED <<status, flagged>>]_vars

-----------------------------------------------------------------------------
(* Liveness. *)

(* A waiting client is answered, or told that the service stops. *)
WaitersReturn == \A c \in Clients : pc[c] \in WaitPcs ~> pc[c] \notin WaitPcs

(* A resume call held back by an older activation goes on. *)
ResumersProceed == \A c \in Clients : pc[c] = "admit" ~> pc[c] # "admit"

(* What is queued is served. *)
QueuedRunsServed == \A r \in Runs : r \in enqueued ~> r \notin enqueued

(* Closing ends, though no grace period expires. *)
ClosingEnds == shutdown = "quiesce" ~> shutdown = "closed"
===============================================================================
