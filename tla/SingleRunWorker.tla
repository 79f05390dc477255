---------------------------- MODULE SingleRunWorker ----------------------------
(***************************************************************************)
(* The in-memory state of SingleRunWorker and its operations: the bounded  *)
(* queue, the startup backlog, reservations, the generation of work of     *)
(* each run with its terminal event, and the one task that serves the      *)
(* queue.  Every section under the worker's asyncio lock contains no await *)
(* and is one step here.  The clients that call the operations, and the    *)
(* shutdown of the service, are in LocalRunService.                        *)
(*                                                                         *)
(* The repository appears as the status of each run, changed as            *)
(* RunLifecycle lets it change.  A repository call is an effect, made in a *)
(* thread, and a continuation on the event loop: two steps.                *)
(***************************************************************************)
EXTENDS Integers, Sequences, FiniteSets

CONSTANTS
    Runs,            \* run identifiers, which are UUIDs
    Clients,         \* concurrent callers of the service
    NoRun,           \* not a run
    Capacity,        \* Settings.worker_queue_capacity
    MaxGeneration,   \* bound: activations of one run
    MaxOffloads      \* bound: abandoned client calls under way at a time

ASSUME RunsAssumption == IsFiniteSet(Runs) /\ NoRun \notin Runs
ASSUME CapacityAssumption == Capacity \in Nat \ {0}

VARIABLES
    status,      \* runs.status, "absent" before registration
    flagged,     \* running runs whose cancel_requested is set
    queue,       \* _queue: items <<run, generation>>, NoItem for None
    backlog,     \* _backlog: recovered items the queue had no room for
    enqueued,    \* _enqueued
    reserved,    \* _reserved_ids; the generation reserved is the current one
    anonymous,   \* _anonymous_reservations
    generation,  \* _generations
    signalled,   \* _events that are set, but for old ones nobody captured
    captured,    \* per client, the event its wait got from terminal_event
    listening,   \* the clients blocked on their event and not woken yet
    awaiting,    \* per client, the run whose _released event it awaits
    worker,      \* where the worker's task is
    active,      \* the item the task holds, or NoItem
    seen,        \* the status the task read last
    shutdown,    \* where _shutdown is
    offloads     \* calls in threads whose awaiting task is gone

queueVars == <<queue, backlog, enqueued, reserved, anonymous>>
eventVars == <<generation, signalled>>
waitVars == <<captured, listening, awaiting>>
taskVars == <<worker, active, seen>>

Items == Runs \X Nat
NoItem == <<NoRun, 0>>
RunStatuses == {"absent", "not_started", "resuming", "running", "failed", "completed"}
Terminal == {"completed", "failed"}
Live == {"not_started", "resuming", "running"}

WorkerTypeOK ==
    /\ status \in [Runs -> RunStatuses]
    /\ flagged \subseteq Runs
    /\ queue \in Seq(Items \cup {NoItem})
    /\ backlog \in Seq(Items)
    /\ enqueued \subseteq Runs
    /\ reserved \subseteq Runs
    /\ anonymous \in Nat
    /\ generation \in [Runs -> Nat]
    /\ signalled \subseteq Items
    /\ captured \in [Clients -> Items \cup {NoItem}]
    /\ listening \subseteq Clients
    /\ awaiting \in [Clients -> Runs \cup {NoRun}]
    /\ worker \in {"off", "get", "load", "process", "release", "read", "signal", "done"}
    /\ active \in Items \cup {NoItem}
    /\ seen \in RunStatuses
    /\ shutdown \in {"open", "quiesce", "join", "cancelling", "abandon", "drain", "closed"}
    /\ offloads \subseteq {"cancel", "process", "fail"} \X Runs

(* recover_startup has run: what is left unfinished is resuming. *)
WorkerInit ==
    /\ status \in [Runs -> {"absent", "resuming", "failed"}]
    /\ flagged = {}
    /\ queue = <<>>
    /\ backlog = <<>>
    /\ enqueued = {}
    /\ reserved = {}
    /\ anonymous = 0
    /\ generation = [r \in Runs |-> 0]
    /\ signalled = {}
    /\ captured = [c \in Clients |-> NoItem]
    /\ listening = {}
    /\ awaiting = [c \in Clients |-> NoRun]
    /\ worker = "off"
    /\ active = NoItem
    /\ seen = "absent"
    /\ shutdown = "open"
    /\ offloads = {}

-----------------------------------------------------------------------------
(* Durable transitions of a run. *)

SetStatus(r, s) == status' = [status EXCEPT ![r] = s]
FailIf(r, set) == IF status[r] \in set THEN SetStatus(r, "failed") ELSE UNCHANGED status

RequestCancelMutant(r) ==
    /\ IF status[r] \in {"not_started", "resuming"} THEN SetStatus(r, "cancelled")
                                                   ELSE UNCHANGED status
    /\ flagged' = IF status[r] = "running" THEN flagged \cup {r} ELSE flagged

(* request_cancel. *)
RequestCancel(r) ==
    /\ FailIf(r, {"not_started", "resuming"})
    /\ flagged' = IF status[r] = "running" THEN flagged \cup {r} ELSE flagged

(* One repository call of an activation. *)
ProcessorCall(r) ==
    /\ \/ status[r] \in {"not_started", "resuming"} /\ SetStatus(r, "running")
       \/ status[r] = "running" /\ r \notin flagged /\ SetStatus(r, "completed")
       \/ status[r] \in Live /\ SetStatus(r, "failed")
    /\ flagged' = flagged \ {r}

-----------------------------------------------------------------------------
(* Events. *)

(* signal_terminal: an event that is set wakes whoever listens by then,    *)
(* even when it is cleared later.                                          *)
SignalTerminal(item) ==
    /\ signalled' = signalled \cup {item}
    /\ listening' = {c \in listening : captured[c] # item}

(* _released[r].set() for each of the runs. *)
SetReleased(rs) ==
    awaiting' = [c \in Clients |-> IF awaiting[c] \in rs THEN NoRun ELSE awaiting[c]]

(* _advance_generation_locked: a new generation with a new event.  Nothing *)
(* but a wait that captured it earlier reads the event of an older one.    *)
AdvanceGeneration(r) ==
    /\ generation' = [generation EXCEPT ![r] = @ + 1]
    /\ signalled' = {e \in signalled : e[1] = r => \E c \in Clients : captured[c] = e}

-----------------------------------------------------------------------------
(* Reservations. *)

HasCapacityMutant ==
    Len(queue) + Cardinality(reserved) + anonymous < Capacity

(* _has_capacity_locked. *)
HasCapacity ==
    Len(queue) + Len(backlog) + Cardinality(reserved) + anonymous < Capacity

ReservableMutant(r) == r \notin reserved /\ HasCapacity
Reservable(r) == r \notin enqueued \cup reserved /\ HasCapacity

Reserve(r) ==
    /\ Reservable(r)
    /\ reserved' = reserved \cup {r}
    /\ AdvanceGeneration(r)
    /\ UNCHANGED <<queue, backlog, enqueued, anonymous>>

ReserveAnonymous ==
    /\ HasCapacity
    /\ anonymous' = anonymous + 1
    /\ UNCHANGED <<queue, backlog, enqueued, reserved, eventVars>>

ReleaseReservation(r) ==
    /\ reserved' = reserved \ {r}
    /\ UNCHANGED <<queue, backlog, enqueued, anonymous, eventVars>>

ReleaseAnonymous ==
    /\ anonymous' = IF anonymous > 0 THEN anonymous - 1 ELSE 0
    /\ UNCHANGED <<queue, backlog, enqueued, reserved, eventVars>>

(* enqueue_reserved: the event of the reserved generation is cleared. *)
EnqueueReserved(r) ==
    /\ r \in reserved
    /\ reserved' = reserved \ {r}
    /\ queue' = Append(queue, <<r, generation[r]>>)
    /\ enqueued' = enqueued \cup {r}
    /\ signalled' = signalled \ {<<r, generation[r]>>}
    /\ UNCHANGED <<backlog, anonymous, generation>>

EnqueueAnonymous(r) ==
    /\ anonymous > 0
    /\ anonymous' = anonymous - 1
    /\ AdvanceGeneration(r)
    /\ queue' = Append(queue, <<r, generation[r] + 1>>)
    /\ enqueued' = enqueued \cup {r}
    /\ UNCHANGED <<backlog, reserved>>

-----------------------------------------------------------------------------
(* The worker's task. *)

MinNat(a, b) == IF a < b THEN a ELSE b

(* _fill_from_backlog_locked. *)
FillFrom(items) ==
    LET room == MinNat(Capacity - Len(queue), Len(items))
    IN  /\ queue' = queue \o SubSeq(items, 1, room)
        /\ backlog' = SubSeq(items, room + 1, Len(items))

Orders(S) == {f \in [1..Cardinality(S) -> S] : \A i, j \in DOMAIN f : f[i] = f[j] => i = j}
Recoverable == {r \in Runs : status[r] = "resuming"}

(* start: every recovered run is queued, in any order. *)
Start ==
    /\ worker = "off" /\ shutdown = "open"
    /\ worker' = "get"
    /\ generation' = [r \in Runs |-> IF r \in Recoverable THEN generation[r] + 1
                                                          ELSE generation[r]]
    /\ enqueued' = Recoverable
    /\ \E order \in Orders(Recoverable) :
           FillFrom([i \in DOMAIN order |-> <<order[i], generation'[order[i]]>>])
    /\ UNCHANGED <<status, flagged, reserved, anonymous, signalled, waitVars,
                   active, seen, shutdown, offloads>>

Stopping == shutdown \notin {"open", "quiesce"}

RunOf(item) == item[1]
Dequeued(items) == {RunOf(items[i]) : i \in DOMAIN items} \ {NoRun}

(* _run takes the next item; a stopping worker gives it back and ends. *)
Take ==
    /\ worker = "get"
    /\ queue # <<>>
    /\ queue' = Tail(queue)
    /\ \/ /\ Head(queue) = NoItem \/ Stopping
          /\ worker' = "done"
          /\ enqueued' = enqueued \ {RunOf(Head(queue))}
          /\ SetReleased({RunOf(Head(queue))} \ {NoRun})
          /\ UNCHANGED active
       \/ /\ Head(queue) # NoItem /\ ~Stopping
          /\ worker' = "load"
          /\ active' = Head(queue)
          /\ UNCHANGED <<enqueued, awaiting>>
    /\ UNCHANGED <<status, flagged, backlog, reserved, anonymous, eventVars, captured,
                   listening, seen, shutdown, offloads>>

Load ==
    /\ worker = "load"
    /\ worker' = IF status[RunOf(active)] \in Terminal THEN "release" ELSE "process"
    /\ UNCHANGED <<status, flagged, queueVars, eventVars, waitVars, active, seen,
                   shutdown, offloads>>

(* process_run and _ensure_terminal: the activation moves the run on until *)
(* it is terminal.                                                         *)
Process ==
    /\ worker = "process"
    /\ \/ ProcessorCall(RunOf(active)) /\ UNCHANGED worker
       \/ /\ status[RunOf(active)] \in Terminal
          /\ worker' = "release"
          /\ UNCHANGED <<status, flagged>>
    /\ UNCHANGED <<queueVars, eventVars, waitVars, active, seen, shutdown, offloads>>

ReleaseMutant ==
    /\ worker = "release"
    /\ worker' = "read"
    /\ enqueued' = enqueued \ {RunOf(active)}
    /\ UNCHANGED <<status, flagged, queue, backlog, reserved, anonymous, eventVars, waitVars,
                   active, seen, shutdown, offloads>>

(* The finally block of _process_item, up to its await. *)
Release ==
    /\ worker = "release"
    /\ worker' = "read"
    /\ enqueued' = enqueued \ {RunOf(active)}
    /\ SetReleased({RunOf(active)})
    /\ UNCHANGED <<status, flagged, queue, backlog, reserved, anonymous, eventVars, captured,
                   listening, active, seen, shutdown, offloads>>

ReadBack ==
    /\ worker = "read"
    /\ worker' = "signal"
    /\ seen' = status[RunOf(active)]
    /\ UNCHANGED <<status, flagged, queueVars, eventVars, waitVars, active, shutdown,
                   offloads>>

SignalMutant ==
    /\ worker = "signal"
    /\ active' = NoItem
    /\ seen' = "absent"
    /\ IF seen \in Terminal THEN SignalTerminal(active)
                            ELSE UNCHANGED <<signalled, listening>>
    /\ worker' = IF Stopping THEN "done" ELSE "get"
    /\ UNCHANGED <<status, flagged, queueVars, generation, captured, awaiting, shutdown,
                   offloads>>

(* The rest of the finally block, then _run's check and refill. *)
Signal ==
    /\ worker = "signal"
    /\ active' = NoItem
    /\ seen' = "absent"
    /\ IF seen \in Terminal THEN SignalTerminal(active)
                            ELSE UNCHANGED <<signalled, listening>>
    /\ IF Stopping
       THEN worker' = "done" /\ UNCHANGED <<queue, backlog>>
       ELSE worker' = "get" /\ FillFrom(backlog)
    /\ UNCHANGED <<status, flagged, enqueued, reserved, anonymous, generation, captured,
                   awaiting, shutdown, offloads>>

Serve == Take \/ Load \/ Process \/ Release \/ ReadBack \/ Signal

-----------------------------------------------------------------------------
(* stop. *)

Unserved == worker \in {"off", "done"}

Idle == active = NoItem \/ worker \in {"read", "signal"}

StopMutant ==
    /\ shutdown = "quiesce"
    /\ shutdown' = IF Unserved THEN "abandon" ELSE "join"
    /\ UNCHANGED <<status, flagged, queueVars, eventVars, waitVars, taskVars, offloads>>

(* _active_run_id is None from the finally block on, so an item on its way *)
(* to the terminal event counts as inactive.                               *)
Stop ==
    /\ shutdown = "quiesce"
    /\ IF Unserved
       THEN shutdown' = "abandon" /\ UNCHANGED queue
       ELSE /\ shutdown' = "join"
            /\ queue' = IF Idle /\ queue = <<>> THEN <<NoItem>> ELSE queue
    /\ UNCHANGED <<status, flagged, backlog, enqueued, reserved, anonymous, eventVars,
                   waitVars, taskVars, offloads>>

Joined ==
    /\ shutdown \in {"join", "cancelling"}
    /\ worker = "done"
    /\ shutdown' = "abandon"
    /\ UNCHANGED <<status, flagged, queueVars, eventVars, waitVars, taskVars, offloads>>

(* The grace period is over: the task is cancelled at its await.  A call   *)
(* it made goes on in its thread.                                          *)
GraceExpires ==
    /\ shutdown = "join"
    /\ shutdown' = "cancelling"
    /\ \/ /\ worker \in {"get", "read", "signal"}
          /\ worker' = "done"
          /\ active' = NoItem
          /\ seen' = "absent"
          /\ UNCHANGED <<enqueued, awaiting, offloads>>
       \/ /\ worker \in {"load", "process", "release"}
          /\ worker' = "read"
          /\ enqueued' = enqueued \ {RunOf(active)}
          /\ SetReleased({RunOf(active)})
          /\ offloads' = IF worker = "process" THEN offloads \cup {<<"process", RunOf(active)>>}
                                               ELSE offloads
          /\ UNCHANGED <<active, seen>>
    /\ UNCHANGED <<status, flagged, queue, backlog, reserved, anonymous, eventVars, captured,
                   listening>>

(* _release_pending. *)
AbandonPending ==
    /\ shutdown = "abandon"
    /\ shutdown' = "drain"
    /\ enqueued' = enqueued \ Dequeued(queue \o backlog)
    /\ SetReleased(Dequeued(queue \o backlog))
    /\ queue' = <<>>
    /\ backlog' = <<>>
    /\ reserved' = {}
    /\ anonymous' = 0
    /\ UNCHANGED <<status, flagged, eventVars, captured, listening, taskVars, offloads>>

(* A call in a thread ends after its task was cancelled; it may raise. *)
OffloadEnds ==
    \E call \in offloads :
        /\ offloads' = offloads \ {call}
        /\ \/ call[1] = "cancel" /\ RequestCancel(call[2])
           \/ call[1] = "process" /\ ProcessorCall(call[2])
           \/ call[1] \in {"process", "fail"} /\ UNCHANGED <<status, flagged>>
           \/ call[1] = "fail" /\ FailIf(call[2], Live) /\ flagged' = flagged \ {call[2]}
        /\ UNCHANGED <<queueVars, eventVars, waitVars, taskVars, shutdown>>

FinishShutdownMutant ==
    /\ shutdown = "drain"
    /\ shutdown' = "closed"
    /\ UNCHANGED <<status, flagged, queueVars, eventVars, waitVars, taskVars, offloads>>

(* The drains of stop and _shutdown; then the artifact root is unlocked.   *)
FinishShutdown ==
    /\ shutdown = "drain"
    /\ offloads = {}
    /\ shutdown' = "closed"
    /\ UNCHANGED <<status, flagged, queueVars, eventVars, waitVars, taskVars, offloads>>
===============================================================================
