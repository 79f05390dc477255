------------------------ MODULE LocalRunService_proofs ------------------------
(***************************************************************************)
(* Theorems about LocalRunService and SingleRunWorker, for every number of *)
(* runs and clients, every capacity of the queue and every choice of       *)
(* operations.                                                             *)
(*                                                                         *)
(* The layers, each inductive given the ones before it:                    *)
(*   TypedInv      types, and what the calls and the task hold;            *)
(*   AdmissionInv  what has not begun yet, and what a shutdown has ended;  *)
(*   CapacityInv   reservations against the calls that own them;           *)
(*   OwnerInv      the owners of a run exclude one another;                *)
(*   LiveInv       the status of a run against its owner.                  *)
(***************************************************************************)
EXTENDS LocalRunService, FiniteSetTheorems, SequenceTheorems, TLAPS

-----------------------------------------------------------------------------
(* Sequences: the queue and the backlog. *)

LEMMA AppendEffect ==
    ASSUME NEW S, NEW s \in Seq(S), NEW v \in S
    PROVE  /\ Append(s, v) \in Seq(S)
           /\ Len(Append(s, v)) = Len(s) + 1
           /\ \A i \in 1..Len(s) + 1 :
                  Append(s, v)[i] = IF i = Len(s) + 1 THEN v ELSE s[i]
  OBVIOUS

(* The refill moves a prefix of the items to the end of the queue, as far  *)
(* as the queue has room.                                                  *)
Filled(S, T, items, room) ==
    /\ queue' \in Seq(T) /\ backlog' \in Seq(S)
    /\ Len(queue') = Len(queue) + room
    /\ Len(backlog') = Len(items) - room
    /\ Len(queue') <= Capacity
    /\ backlog' # <<>> => Len(queue') = Capacity
    /\ \A i \in 1..Len(queue) : queue'[i] = queue[i]
    /\ \A i \in 1..room : queue'[Len(queue) + i] = items[i]
    /\ \A i \in 1..Len(items) - room : backlog'[i] = items[room + i]

LEMMA FillEffect ==
    ASSUME NEW S, NEW T, S \subseteq T, NEW items \in Seq(S), queue \in Seq(T),
           Len(queue) <= Capacity, FillFrom(items)
    PROVE  \E room \in 0..Len(items) : Filled(S, T, items, room)
<1> DEFINE room == MinNat(Capacity - Len(queue), Len(items))
           moved == SubSeq(items, 1, room)
           kept == SubSeq(items, room + 1, Len(items))
<1>1. /\ Len(queue) \in Nat /\ Len(items) \in Nat /\ Capacity \in Nat
      /\ \A i \in 1..Len(items) : items[i] \in S
  BY CapacityAssumption, LenProperties, ElementOfSeq
<1>2. room \in 0..Len(items) /\ Len(queue) + room <= Capacity
  BY <1>1 DEF MinNat
<1>3. /\ moved \in Seq(S) /\ Len(moved) = room
      /\ \A i \in 1..room : moved[i] = items[i]
  <2>1. \A i \in 1..room : items[i] \in S
    BY <1>1, <1>2
  <2>2. /\ moved \in Seq(S) /\ Len(moved) = IF 1 <= room THEN room - 1 + 1 ELSE 0
        /\ \A i \in 1..room - 1 + 1 : moved[i] = items[1 + i - 1]
    BY <1>2, <2>1, SubSeqProperties
  <2>3. QED
    BY <1>2, <2>2
<1>4. /\ kept \in Seq(S) /\ Len(kept) = Len(items) - room
      /\ \A i \in 1..Len(items) - room : kept[i] = items[room + i]
  <2>1. \A i \in room + 1 .. Len(items) : items[i] \in S
    BY <1>1, <1>2
  <2>2. /\ kept \in Seq(S)
        /\ Len(kept) = IF room + 1 <= Len(items) THEN Len(items) - (room + 1) + 1 ELSE 0
        /\ \A i \in 1..Len(items) - (room + 1) + 1 : kept[i] = items[room + 1 + i - 1]
    BY <1>1, <1>2, <2>1, SubSeqProperties
  <2>3. QED
    BY <1>1, <1>2, <2>2
<1>5. queue' = queue \o moved /\ backlog' = kept
  BY DEF FillFrom
<1>6. moved \in Seq(T)
  BY <1>3, SeqMonotonic
<1>7. /\ queue' \in Seq(T) /\ Len(queue') = Len(queue) + room
      /\ \A i \in 1..Len(queue) + room :
             queue'[i] = IF i <= Len(queue) THEN queue[i] ELSE moved[i - Len(queue)]
  BY <1>3, <1>5, <1>6, ConcatProperties
<1>8. backlog' # <<>> => Len(queue') = Capacity
  <2>1. backlog' # <<>> => room # Len(items)
    BY <1>1, <1>4, <1>5, EmptySeq
  <2>2. QED
    BY <1>1, <1>7, <2>1 DEF MinNat
<1>9. \A i \in 1..Len(queue) : queue'[i] = queue[i]
  BY <1>1, <1>2, <1>7
<1>10. \A i \in 1..room : queue'[Len(queue) + i] = items[i]
  BY <1>1, <1>2, <1>3, <1>7
<1>11. QED
  BY <1>1, <1>2, <1>4, <1>5, <1>7, <1>8, <1>9, <1>10 DEF Filled

-----------------------------------------------------------------------------
(* Types.  The refill keeps the type of the queue and the backlog only     *)
(* while the queue is within its capacity, which is CapacityInv's part.    *)

ClientPcs == {"idle", "admit"} \cup SubmitPcs \cup ResumePcs \cup CancelPcs \cup WaitPcs
ServedPcs == {"load", "process", "release"}
HoldingPcs == ServedPcs \cup {"read", "signal"}

Calling == \A c \in Clients : IF pc[c] = "idle" THEN target[c] = NoRun ELSE target[c] \in Runs

TypedInv ==
    /\ TypeOK
    /\ Calling
    /\ worker \in HoldingPcs => active \in Items

ClientTypes ==
    /\ pc \in [Clients -> ClientPcs]
    /\ target \in [Clients -> Runs \cup {NoRun}]
    /\ Calling

LEMMA TypedParts == TypedInv <=> /\ WorkerTypeOK /\ ClientTypes /\ givenUp \subseteq Runs
                                 /\ worker \in HoldingPcs => active \in Items
  BY DEF TypedInv, TypeOK, ClientTypes, ClientPcs

(* A call moves on, begins or returns. *)
LEMMA ClientMoves ==
    ASSUME ClientTypes, NEW c \in Clients
    PROVE  /\ \A next \in ClientPcs \ {"idle"} :
                  Goto(c, next) /\ pc[c] # "idle" => ClientTypes'
           /\ \A next \in ClientPcs \ {"idle"}, r \in Runs : Call(c, next, r) => ClientTypes'
           /\ Return(c) => ClientTypes'
           /\ UNCHANGED clientVars => ClientTypes'
<1> USE DEF ClientTypes, Calling
<1>1. ASSUME NEW next \in ClientPcs \ {"idle"}, Goto(c, next), pc[c] # "idle"
      PROVE  ClientTypes'
  BY <1>1 DEF Goto
<1>2. ASSUME NEW next \in ClientPcs \ {"idle"}, NEW r \in Runs, Call(c, next, r)
      PROVE  ClientTypes'
  BY <1>2 DEF Call
<1>3. ASSUME Return(c) PROVE ClientTypes'
  BY <1>3 DEF Return, Call, ClientPcs
<1>4. ASSUME UNCHANGED clientVars PROVE ClientTypes'
  BY <1>4 DEF clientVars
<1>5. QED
  BY <1>1, <1>2, <1>3, <1>4

LEMMA AnswerClients ==
    ASSUME ClientTypes, NEW c \in Clients, Ask(c) \/ Answer(c) \/ Quit(c)
    PROVE  ClientTypes'
<1> USE DEF ClientPcs, SubmitPcs, ResumePcs, CancelPcs, WaitPcs
<1>1. /\ \A next \in ClientPcs \ {"idle"} : Goto(c, next) /\ pc[c] # "idle" => ClientTypes'
      /\ \A next \in ClientPcs \ {"idle"}, r \in Runs : Call(c, next, r) => ClientTypes'
      /\ Return(c) => ClientTypes'
  BY ClientMoves
<1>2. CASE Ask(c)
  BY <1>1, <1>2 DEF Ask, Submit, Resume, Cancel, Wait, Fresh, Known
<1>3. CASE Answer(c)
  BY <1>1, <1>3
     DEF Answer, Register, EnqueueSubmitted, DropSubmission, Admit, RefuseResume, Prepare,
         FinishPrepare, EnqueueResumed, RollBack, FailClaim, CancelCall, CancelSignals,
         Read, Capture,
         Reread, Listen, Wake
<1>4. CASE Quit(c)
  BY <1>1, <1>4
     DEF Quit, RefuseUpload, LeaveSubmission, LeaveResume, LeaveCleanup, GiveUp,
         LeaveCancel, Leave
<1>5. QED
  BY <1>2, <1>3, <1>4

(* What the calls and the offloads do to the row of a run. *)
LEMMA StatusTypes ==
    ASSUME status \in [Runs -> RunStatuses], flagged \subseteq Runs, NEW r
    PROVE  /\ \A s \in RunStatuses : SetStatus(r, s) => status' \in [Runs -> RunStatuses]
           /\ \A set : FailIf(r, set) => status' \in [Runs -> RunStatuses]
           /\ r \in Runs /\ RequestCancel(r) =>
                  status' \in [Runs -> RunStatuses] /\ flagged' \subseteq Runs
           /\ ProcessorCall(r) => status' \in [Runs -> RunStatuses] /\ flagged' \subseteq Runs
  BY DEF SetStatus, FailIf, RequestCancel, ProcessorCall, RunStatuses

LEMMA AnswerTypes ==
    ASSUME TypedInv, NEW c \in Clients, Ask(c) \/ Answer(c) \/ Quit(c)
    PROVE  WorkerTypeOK'
<1>1. WorkerTypeOK /\ ClientTypes
  BY TypedParts
<1>2. target[c] \in Runs \/ pc[c] = "idle"
  BY <1>1 DEF ClientTypes, Calling
<1>3. ASSUME UNCHANGED <<queueVars, eventVars, waitVars, taskVars, shutdown, offloads>>,
             status' \in [Runs -> RunStatuses], flagged' \subseteq Runs
      PROVE  WorkerTypeOK'
  BY <1>1, <1>3 DEF WorkerTypeOK, queueVars, eventVars, waitVars, taskVars
<1>4. CASE Register(c) \/ Prepare(c) \/ FinishPrepare(c) \/ CancelCall(c)
  <2>1. /\ UNCHANGED <<queueVars, eventVars, waitVars, taskVars, shutdown, offloads>>
        /\ target[c] \in Runs
    BY <1>2, <1>4
       DEF Register, Prepare, FinishPrepare, CancelCall, OnlyStatus, UnchangedService
  <2>2. status' \in [Runs -> RunStatuses] /\ flagged' \subseteq Runs
    BY <1>1, <1>4, <2>1, StatusTypes
       DEF Register, Prepare, FinishPrepare, CancelCall, WorkerTypeOK, RunStatuses
  <2>3. QED
    BY <1>3, <2>1, <2>2
<1>5. CASE RollBack(c) \/ FailClaim(c) \/ DropSubmission(c) \/ GiveUp(c)
  BY <1>1, <1>2, <1>5, StatusTypes
     DEF RollBack, FailClaim, DropSubmission, GiveUp, GiveBack, ReleaseReservation,
         ReleaseAnonymous, UnchangedService,
         WorkerTypeOK, queueVars, eventVars, waitVars, taskVars
<1>6. CASE Submit(c)
  BY <1>1, <1>6
     DEF Submit, ReserveAnonymous, OnlyQueue, UnchangedService, WorkerTypeOK, eventVars,
         waitVars, taskVars
<1>7. CASE Admit(c)
  <2>1. target[c] \in Runs
    BY <1>2, <1>7 DEF Admit
  <2>2. generation' \in [Runs -> Nat]
    BY <1>1, <1>7, <2>1 DEF Admit, Reserve, AdvanceGeneration, WorkerTypeOK
  <2>3. signalled' \subseteq Items
    BY <1>1, <1>7 DEF Admit, Reserve, AdvanceGeneration, WorkerTypeOK
  <2>4. QED
    BY <1>1, <1>7, <2>1, <2>2, <2>3
       DEF Admit, Reserve, OnlyQueue, UnchangedService, WorkerTypeOK, waitVars, taskVars
<1>8. CASE EnqueueSubmitted(c) \/ EnqueueResumed(c)
  <2>1. target[c] \in Runs /\ generation[target[c]] \in Nat
    BY <1>1, <1>2, <1>8 DEF EnqueueSubmitted, EnqueueResumed, WorkerTypeOK
  <2>2. ASSUME NEW g \in Nat
        PROVE  Append(queue, <<target[c], g>>) \in Seq(Items \cup {NoItem})
    <3>1. <<target[c], g>> \in Items \cup {NoItem}
      BY <2>1 DEF Items
    <3>2. QED
      BY <1>1, <3>1, AppendEffect DEF WorkerTypeOK
  <2>3. \E g \in Nat : queue' = Append(queue, <<target[c], g>>)
    BY <1>8, <2>1
       DEF EnqueueSubmitted, EnqueueResumed, EnqueueAnonymous, EnqueueReserved
  <2>4. queue' \in Seq(Items \cup {NoItem})
    BY <2>2, <2>3
  <2>5. generation' \in [Runs -> Nat] /\ signalled' \subseteq Items /\ anonymous' \in Nat
    BY <1>1, <1>8
       DEF EnqueueSubmitted, EnqueueResumed, EnqueueAnonymous, EnqueueReserved,
           AdvanceGeneration, WorkerTypeOK
  <2>6. QED
    BY <1>1, <1>8, <2>1, <2>4, <2>5
       DEF EnqueueSubmitted, EnqueueResumed, EnqueueAnonymous, EnqueueReserved, OnlyQueue,
           UnchangedService, WorkerTypeOK, waitVars, taskVars
<1>9. CASE LeaveCleanup(c) \/ LeaveCancel(c)
  BY <1>1, <1>2, <1>9
     DEF LeaveCleanup, GiveUp, GiveBack, LeaveCancel, CancelPcs, ReleaseReservation,
         ReleaseAnonymous,
         WorkerTypeOK, queueVars, eventVars, waitVars, taskVars
<1>10. CASE CancelSignals(c)
  BY <1>1, <1>2, <1>10
     DEF CancelSignals, SignalTerminal, UnchangedService, WorkerTypeOK, queueVars, taskVars,
         Items
<1>11. CASE RefuseUpload(c) \/ LeaveSubmission(c) \/ LeaveResume(c) \/ RefuseResume(c)
            \/ Cancel(c) \/ Wait(c) \/ Read(c)
  BY <1>1, <1>3, <1>11
     DEF RefuseUpload, LeaveSubmission, LeaveResume, RefuseResume, Cancel, Wait, Read,
         OnlyClient, OnlyWait, UnchangedService, WorkerTypeOK
<1>12. CASE Resume(c) \/ Capture(c) \/ Reread(c) \/ Listen(c) \/ Wake(c) \/ Leave(c)
  <2>1. UNCHANGED <<status, flagged, queueVars, eventVars, taskVars, shutdown, offloads>>
    BY <1>12 DEF Resume, Capture, Reread, Listen, Wake, Leave, OnlyWait, UnchangedService
  <2>2. captured' \in [Clients -> Items \cup {NoItem}]
    <3>1. CASE Capture(c)
      <4>1. <<target[c], generation[target[c]]>> \in Items
        BY <1>1, <1>2, <3>1 DEF Capture, WorkerTypeOK, Items
      <4>2. QED
        BY <1>1, <3>1, <4>1 DEF Capture, WorkerTypeOK
    <3>2. CASE ~Capture(c)
      BY <1>1, <1>12, <3>2 DEF Resume, Reread, Listen, Wake, Leave, StopListening,
                               WorkerTypeOK
    <3>3. QED
      BY <3>1, <3>2
  <2>3. awaiting' \in [Clients -> Runs \cup {NoRun}]
    <3>1. CASE Resume(c)
      BY <1>1, <3>1 DEF Resume, Known, WorkerTypeOK
    <3>2. CASE ~Resume(c)
      BY <1>1, <1>12, <3>2 DEF Capture, Reread, Listen, Wake, Leave, WorkerTypeOK
    <3>3. QED
      BY <3>1, <3>2
  <2>4. listening' \subseteq Clients
    BY <1>1, <1>12
       DEF Resume, Capture, Reread, Listen, Wake, Leave, StopListening, WorkerTypeOK
  <2>5. QED
    BY <1>1, <2>1, <2>2, <2>3, <2>4 DEF WorkerTypeOK, queueVars, eventVars, taskVars
<1>13. QED
  BY <1>4, <1>5, <1>6, <1>7, <1>8, <1>9, <1>10, <1>11, <1>12 DEF Ask, Answer, Quit

(* The recovered runs, in whatever order, are a sequence of items. *)
LEMMA RecoveredItems ==
    ASSUME WorkerTypeOK, NEW order \in Orders(Recoverable),
           NEW g \in [Runs -> Nat]
    PROVE  LET items == [i \in DOMAIN order |-> <<order[i], g[order[i]]>>]
           IN  /\ items \in Seq(Items) /\ items \in Seq(Items \cup {NoItem})
               /\ Len(items) = Cardinality(Recoverable)
               /\ \A i \in 1..Len(items) :
                      /\ items[i] = <<order[i], g[order[i]]>>
                      /\ order[i] \in Recoverable
               /\ \A i, j \in 1..Len(items) : order[i] = order[j] => i = j
               /\ \A r \in Recoverable : \E i \in 1..Len(items) : order[i] = r
<1> DEFINE n == Cardinality(Recoverable)
           items == [i \in DOMAIN order |-> <<order[i], g[order[i]]>>]
<1>1. Recoverable \subseteq Runs /\ IsFiniteSet(Recoverable) /\ n \in Nat
  BY RunsAssumption, FS_Subset, FS_CardinalityType DEF Recoverable
<1>2. /\ order \in [1..n -> Recoverable]
      /\ \A i, j \in DOMAIN order : order[i] = order[j] => i = j
  BY DEF Orders
<1>3. items \in [1..n -> Items]
  BY <1>1, <1>2 DEF Items
<1>4. items \in Seq(Items) /\ Len(items) = n
  BY <1>1, <1>3
<1>5. items \in Seq(Items \cup {NoItem})
  BY <1>4, SeqMonotonic
<1>6. \A i \in 1..n : items[i] = <<order[i], g[order[i]]>> /\ order[i] \in Recoverable
  BY <1>2
<1>7. \A i, j \in 1..n : order[i] = order[j] => i = j
  BY <1>2
<1>8. \A r \in Recoverable : \E i \in 1..n : order[i] = r
  <2>1. order \in Injection(1..n, Recoverable)
    BY <1>2 DEF Injection, IsInjective
  <2>2. Cardinality(1..n) = n
    BY <1>1, FS_Interval
  <2>3. order \in Surjection(1..n, Recoverable)
    BY <1>1, <2>1, <2>2, FS_Injection
  <2>4. QED
    BY <2>3 DEF Surjection
<1>9. QED
  BY <1>4, <1>5, <1>6, <1>7, <1>8

(* The steps of the worker's task, of the offloaded calls and of stop.     *)
WorkerStep == StartWorker \/ ServeQueue \/ Offloaded \/ Close \/ ShutDown \/ Expire

LEMMA WorkerKeepsClients ==
    ASSUME WorkerStep
    PROVE  UNCHANGED clientVars /\ (~Offloaded => UNCHANGED givenUp)
  BY DEF WorkerStep, StartWorker, ServeQueue, Offloaded, Close, ShutDown, Quiesce, Expire,
         clientVars, UnchangedCalls

LEMMA ReleasedTypes ==
    ASSUME awaiting \in [Clients -> Runs \cup {NoRun}], NEW rs, SetReleased(rs)
    PROVE  awaiting' \in [Clients -> Runs \cup {NoRun}]
  BY DEF SetReleased

LEMMA WorkerTypes ==
    ASSUME TypedInv, Len(queue) <= Capacity, WorkerStep
    PROVE  WorkerTypeOK' /\ (worker' \in HoldingPcs => active' \in Items)
<1>1. WorkerTypeOK
  BY TypedParts
<1>2. worker \in HoldingPcs => active \in Items
  BY DEF TypedInv
<1> USE DEF HoldingPcs, ServedPcs
<1>3. active \in Items => RunOf(active) \in Runs
  BY DEF Items, RunOf
<1>4. Items \subseteq Items \cup {NoItem}
  OBVIOUS
<1>5. CASE Start
  <2>1. generation' \in [Runs -> Nat] /\ Recoverable \subseteq Runs
    BY <1>1, <1>5 DEF Start, WorkerTypeOK, Recoverable
  <2>2. PICK order \in Orders(Recoverable) :
            FillFrom([i \in DOMAIN order |-> <<order[i], generation'[order[i]]>>])
    BY <1>5 DEF Start
  <2>3. [i \in DOMAIN order |-> <<order[i], generation'[order[i]]>>] \in Seq(Items)
    BY <1>1, <2>1, RecoveredItems
  <2>4. queue' \in Seq(Items \cup {NoItem}) /\ backlog' \in Seq(Items)
    BY <1>1, <1>4, <2>2, <2>3, FillEffect DEF Filled, WorkerTypeOK
  <2>5. QED
    BY <1>1, <1>5, <2>1, <2>4 DEF Start, WorkerTypeOK, waitVars
<1>6. CASE Take
  <2>1. /\ Head(queue) \in Items \cup {NoItem}
        /\ Tail(queue) \in Seq(Items \cup {NoItem})
    BY <1>1, <1>6, HeadTailProperties DEF Take, WorkerTypeOK
  <2>2. awaiting' \in [Clients -> Runs \cup {NoRun}]
    BY <1>1, <1>6, ReleasedTypes DEF Take, WorkerTypeOK
  <2>3. QED
    BY <1>1, <1>6, <2>1, <2>2 DEF Take, WorkerTypeOK, eventVars
<1>7. CASE Load \/ Process \/ ReadBack
  <2>1. worker \in HoldingPcs /\ RunOf(active) \in Runs
    BY <1>2, <1>3, <1>7 DEF Load, Process, ReadBack
  <2>2. status' \in [Runs -> RunStatuses] /\ flagged' \subseteq Runs
    BY <1>1, <1>7, StatusTypes DEF Load, Process, ReadBack, WorkerTypeOK
  <2>3. QED
    BY <1>1, <1>2, <1>7, <2>1, <2>2
       DEF Load, Process, ReadBack, WorkerTypeOK, queueVars, eventVars, waitVars
<1>8. CASE Release
  BY <1>1, <1>2, <1>8, ReleasedTypes DEF Release, WorkerTypeOK, eventVars
<1>9. CASE Signal
  <2>1. backlog \in Seq(Items) /\ queue \in Seq(Items \cup {NoItem})
    BY <1>1 DEF WorkerTypeOK
  <2>2. queue' \in Seq(Items \cup {NoItem}) /\ backlog' \in Seq(Items)
    BY <1>4, <1>9, <2>1, FillEffect DEF Filled, Signal
  <2>3. signalled' \subseteq Items /\ listening' \subseteq Clients
    BY <1>1, <1>2, <1>9 DEF Signal, SignalTerminal, WorkerTypeOK
  <2>4. QED
    BY <1>1, <1>9, <2>2, <2>3 DEF Signal, WorkerTypeOK, RunStatuses
<1>10. CASE OffloadEnds
  <2>1. status' \in [Runs -> RunStatuses] /\ flagged' \subseteq Runs
    BY <1>1, <1>10, StatusTypes DEF OffloadEnds, WorkerTypeOK
  <2>2. QED
    BY <1>1, <1>2, <1>10, <2>1
       DEF OffloadEnds, WorkerTypeOK, queueVars, eventVars, waitVars, taskVars
<1>11. CASE Stop
  <2>1. <<NoItem>> \in Seq(Items \cup {NoItem})
    OBVIOUS
  <2>2. QED
    BY <1>1, <1>2, <1>11, <2>1 DEF Stop, WorkerTypeOK, eventVars, waitVars, taskVars
<1>12. CASE Close \/ Joined \/ FinishShutdown
  BY <1>1, <1>2, <1>12
     DEF Close, Joined, FinishShutdown, WorkerTypeOK, queueVars, eventVars, waitVars,
         taskVars
<1>13. CASE AbandonPending
  BY <1>1, <1>2, <1>13, ReleasedTypes DEF AbandonPending, WorkerTypeOK, eventVars, taskVars
<1>14. CASE GraceExpires
  <2>1. awaiting' \in [Clients -> Runs \cup {NoRun}]
    BY <1>1, <1>14, ReleasedTypes DEF GraceExpires, WorkerTypeOK
  <2>2. QED
    BY <1>1, <1>2, <1>3, <1>14, <2>1 DEF GraceExpires, WorkerTypeOK, eventVars, RunStatuses
<1>15. QED
  BY <1>5, <1>6, <1>7, <1>8, <1>9, <1>10, <1>11, <1>12, <1>13, <1>14
     DEF WorkerStep, StartWorker, ServeQueue, Serve, Offloaded, ShutDown, Quiesce, Expire

LEMMA NextSplits ==
    Next <=> WorkerStep \/ \E c \in Clients : Ask(c) \/ Answer(c) \/ Quit(c)
  BY DEF Next, WorkerStep

LEMMA TypedStep ==
    ASSUME TypedInv, Len(queue) <= Capacity, Next
    PROVE  TypedInv'
<1>1. CASE WorkerStep
  <2>1. ClientTypes' /\ givenUp' \subseteq Runs
    BY <1>1, WorkerKeepsClients, TypedParts
       DEF ClientTypes, Calling, clientVars, Offloaded, FailureLost
  <2>2. QED
    BY <1>1, <2>1, WorkerTypes DEF TypedInv, TypeOK, ClientTypes, ClientPcs
<1>2. CASE \E c \in Clients : Ask(c) \/ Answer(c) \/ Quit(c)
  <2>1. PICK c \in Clients : Ask(c) \/ Answer(c) \/ Quit(c)
    BY <1>2
  <2>2. WorkerTypeOK' /\ ClientTypes' /\ givenUp' \subseteq Runs
    <3>1. givenUp' \subseteq Runs
      BY <2>1, TypedParts DEF Ask, Answer, Quit, GiveUp, ClientTypes, Calling
    <3>2. QED
      BY <2>1, <3>1, AnswerTypes, AnswerClients, TypedParts
  <2>3. UNCHANGED taskVars
    BY <2>1
       DEF Ask, Answer, Quit, Submit, Resume, Cancel, Wait, Register, EnqueueSubmitted,
           DropSubmission, Admit, RefuseResume, Prepare, FinishPrepare, EnqueueResumed,
           RollBack, FailClaim, CancelCall, CancelSignals, Read, Capture, Reread, Listen,
           Wake,
           RefuseUpload, LeaveSubmission, LeaveResume, LeaveCleanup, GiveUp, GiveBack,
           LeaveCancel, Leave,
           OnlyQueue, OnlyWait, OnlyClient, OnlyStatus, UnchangedService
  <2>4. QED
    BY <2>2, <2>3 DEF TypedInv, TypeOK, ClientTypes, ClientPcs, taskVars
<1>3. QED
  BY <1>1, <1>2, NextSplits

LEMMA TypedStay ==
    ASSUME TypedInv, UNCHANGED vars
    PROVE  TypedInv'
  BY DEF TypedInv, TypeOK, vars, WorkerTypeOK, Calling, queueVars, eventVars, waitVars,
         taskVars, clientVars

-----------------------------------------------------------------------------
(* Before the worker starts nothing is under way, and a call of the worker *)
(* or of a client is over before the step of the shutdown that relies on   *)
(* it: stop waits for the mutations, then for the task, then for threads.  *)

Unstarted ==
    /\ queue = <<>> /\ backlog = <<>> /\ enqueued = {} /\ reserved = {} /\ anonymous = 0
    /\ offloads = {}
    /\ \A c \in Clients : pc[c] = "idle"
    /\ \A r \in Runs : status[r] \in {"absent", "resuming", "failed"}

AdmissionInv ==
    /\ worker = "off" => Unstarted
    /\ Stopping => Mutating = {}
    /\ shutdown \in {"abandon", "drain", "closed"} => Unserved
    /\ shutdown = "closed" => offloads = {}
    /\ ~Stopping => \A call \in offloads : call[1] # "process"

LEMMA AdmissionStep ==
    ASSUME TypedInv, AdmissionInv, Next
    PROVE  AdmissionInv'
<1> USE DEF Stopping, Unserved
<1>1. CASE \E c \in Clients : Ask(c) \/ Answer(c) \/ Quit(c)
  <2>1. PICK c \in Clients : Ask(c) \/ Answer(c) \/ Quit(c)
    BY <1>1
  <2>2. UNCHANGED <<worker, shutdown>>
    BY <2>1
       DEF Ask, Answer, Quit, Submit, Resume, Cancel, Wait, Register, EnqueueSubmitted,
           DropSubmission, Admit, RefuseResume, Prepare, FinishPrepare, EnqueueResumed,
           RollBack, FailClaim, CancelCall, CancelSignals, Read, Capture, Reread, Listen,
           Wake,
           RefuseUpload, LeaveSubmission, LeaveResume, LeaveCleanup, GiveUp, GiveBack,
           LeaveCancel, Leave,
           OnlyQueue, OnlyWait, OnlyClient, OnlyStatus, UnchangedService, taskVars
  <2>3. worker # "off"
    BY <2>1
       DEF AdmissionInv, Unstarted, Ready, Ask, Answer, Quit, Submit, Resume, Cancel, Wait,
           Register, EnqueueSubmitted, DropSubmission, Admit, RefuseResume, Prepare,
           FinishPrepare, EnqueueResumed, RollBack, FailClaim, CancelCall, CancelSignals,
           Read, Capture,
           Reread, Listen, Wake, RefuseUpload, LeaveSubmission, LeaveResume,
           LeaveCleanup, GiveUp, GiveBack,
           LeaveCancel, Leave, CancelPcs, WaitPcs
  <2>4. CASE c \in Mutating \/ Ready
    <3>1. ~Stopping
      BY <2>4 DEF AdmissionInv, Ready
    <3>2. \A call \in offloads' : call \in offloads \/ call[1] # "process"
      BY <2>1
         DEF Ask, Answer, Quit, Submit, Resume, Cancel, Wait, Register, EnqueueSubmitted,
             DropSubmission, Admit, RefuseResume, Prepare, FinishPrepare, EnqueueResumed,
             RollBack, FailClaim, CancelCall, CancelSignals, Read, Capture, Reread,
             Listen, Wake,
             RefuseUpload, LeaveSubmission, LeaveResume, LeaveCleanup, GiveUp, GiveBack,
             LeaveCancel, Leave,
             OnlyQueue, OnlyWait, OnlyClient, OnlyStatus, UnchangedService
    <3>3. QED
      BY <2>2, <2>3, <3>1, <3>2 DEF AdmissionInv
  <2>5. CASE c \notin Mutating /\ ~Ready
    <3>1. /\ UNCHANGED offloads
          /\ RefuseResume(c) \/ Read(c) \/ Capture(c) \/ Reread(c) \/ Listen(c) \/ Wake(c)
             \/ Leave(c)
      BY <2>1, <2>5
         DEF Mutating, Ask, Answer, Quit, Submit, Resume, Cancel, Wait, Register,
             EnqueueSubmitted, DropSubmission, Admit, RefuseResume, Prepare, FinishPrepare,
             EnqueueResumed, RollBack, FailClaim, CancelCall, CancelSignals, Read,
             Capture, Reread,
             Listen, Wake, RefuseUpload, LeaveSubmission, LeaveResume, LeaveCleanup,
             GiveUp, GiveBack,
             LeaveCancel, Leave, OnlyWait, OnlyClient, UnchangedService, SubmitPcs,
             ResumePcs, CancelPcs
    <3>2. Mutating' \subseteq Mutating
      BY <3>1
         DEF Mutating, RefuseResume, Read, Capture, Reread, Listen, Wake, Leave, Goto, Call,
             Return, SubmitPcs, ResumePcs, CancelPcs, TypedInv, TypeOK
    <3>3. QED
      BY <2>2, <2>3, <3>1, <3>2 DEF AdmissionInv
  <2>6. QED
    BY <2>4, <2>5
<1>2. CASE WorkerStep
  <2>1. UNCHANGED clientVars /\ UNCHANGED Mutating
    BY <1>2, WorkerKeepsClients DEF clientVars, Mutating
  <2>2. CASE StartWorker
    BY <2>1, <2>2 DEF StartWorker, Start, AdmissionInv
  <2>3. CASE ServeQueue
    BY <2>1, <2>3
       DEF ServeQueue, Serve, Take, Load, Process, Release, ReadBack, Signal, AdmissionInv
  <2>4. CASE Offloaded
    BY <2>1, <2>4 DEF Offloaded, OffloadEnds, AdmissionInv, Unstarted, taskVars
  <2>5. CASE Close \/ ShutDown
    BY <2>1, <2>5
       DEF Close, ShutDown, Quiesce, Stop, Joined, AbandonPending, FinishShutdown,
           AdmissionInv, Unstarted, taskVars, queueVars, Dequeued, clientVars
  <2>6. CASE Expire
    BY <2>1, <2>6 DEF Expire, GraceExpires, AdmissionInv
  <2>7. QED
    BY <1>2, <2>2, <2>3, <2>4, <2>5, <2>6 DEF WorkerStep
<1>3. QED
  BY <1>1, <1>2, NextSplits

LEMMA AdmissionStay ==
    ASSUME AdmissionInv, UNCHANGED vars
    PROVE  AdmissionInv'
  BY DEF AdmissionInv, Unstarted, Stopping, Unserved, Mutating, vars, queueVars, taskVars,
         clientVars

-----------------------------------------------------------------------------
(* Reservations: an anonymous one per submission, one by name per resume,  *)
(* and room in the queue for each of them.  While recovered work waits in  *)
(* the backlog nothing is reserved, because the queue has no room to       *)
(* spare: the task refills it before it waits for an item again.           *)

Submitting == {c \in Clients : pc[c] \in SubmitPcs}
Resuming == {c \in Clients : pc[c] \in ResumePcs}

ReservedInv ==
    /\ IsFiniteSet(Submitting) /\ Cardinality(Submitting) = anonymous
    /\ IsFiniteSet(reserved) /\ reserved = {target[c] : c \in Resuming}
    /\ \A c, d \in Resuming : target[c] = target[d] => c = d

RoomInv ==
    /\ Len(queue) + Cardinality(reserved) + anonymous <= Capacity
    /\ backlog # <<>> => /\ reserved = {} /\ anonymous = 0
                         /\ \/ Unserved
                            \/ worker = "get" /\ Len(queue) = Capacity
                            \/ worker # "get" /\ Len(queue) >= Capacity - 1

CapacityInv == ReservedInv /\ RoomInv

LEMMA Counts ==
    ASSUME TypedInv, ReservedInv
    PROVE  /\ Cardinality(reserved) \in Nat /\ Len(queue) \in Nat /\ Len(backlog) \in Nat
           /\ anonymous \in Nat /\ Capacity \in Nat /\ Capacity > 0
           /\ backlog = <<>> <=> Len(backlog) = 0
<1>1. queue \in Seq(Items \cup {NoItem}) /\ backlog \in Seq(Items) /\ anonymous \in Nat
  BY DEF TypedInv, TypeOK, WorkerTypeOK
<1>2. Len(queue) \in Nat /\ Len(backlog) \in Nat
  BY <1>1, LenProperties
<1>3. backlog = <<>> <=> Len(backlog) = 0
  BY <1>1, EmptySeq
<1>4. Cardinality(reserved) \in Nat
  BY FS_CardinalityType DEF ReservedInv
<1>5. QED
  BY <1>1, <1>2, <1>3, <1>4, CapacityAssumption

LEMMA QueueWithinCapacity ==
    ASSUME TypedInv, CapacityInv
    PROVE  Len(queue) <= Capacity
  BY Counts DEF CapacityInv, RoomInv

(* The calls that hold a reservation, after a client has moved. *)
LEMMA ClientSets ==
    ASSUME ClientTypes, NEW c \in Clients, NEW next, pc' = [pc EXCEPT ![c] = next]
    PROVE  /\ Submitting' = IF next \in SubmitPcs THEN Submitting \cup {c}
                                                  ELSE Submitting \ {c}
           /\ Resuming' = IF next \in ResumePcs THEN Resuming \cup {c} ELSE Resuming \ {c}
<1>1. \A d \in Clients : pc'[d] = IF d = c THEN next ELSE pc[d]
  BY DEF ClientTypes
<1>2. QED
  BY <1>1 DEF Submitting, Resuming

LEMMA MovedCalls ==
    ASSUME ClientTypes, NEW c \in Clients, NEW next,
           Goto(c, next) \/ \E r : Call(c, next, r)
    PROVE  /\ Submitting' = IF next \in SubmitPcs THEN Submitting \cup {c}
                                                  ELSE Submitting \ {c}
           /\ Resuming' = IF next \in ResumePcs THEN Resuming \cup {c} ELSE Resuming \ {c}
           /\ \A d \in Clients \ {c} : pc'[d] = pc[d] /\ target'[d] = target[d]
           /\ pc'[c] = next
           /\ Goto(c, next) => target' = target
           /\ \A r : Call(c, next, r) => target'[c] = r
<1>1. /\ pc' = [pc EXCEPT ![c] = next]
      /\ \A d \in Clients \ {c} : pc'[d] = pc[d] /\ target'[d] = target[d]
      /\ pc'[c] = next
      /\ \A r : Call(c, next, r) => target'[c] = r
  BY DEF Goto, Call, ClientTypes
<1>2. QED
  BY <1>1, ClientSets DEF Goto

(* One submission more or less, with its anonymous reservation. *)
LEMMA SubmittingCounts ==
    ASSUME TypedInv, ReservedInv, NEW c
    PROVE  /\ IsFiniteSet(Submitting \cup {c}) /\ IsFiniteSet(Submitting \ {c})
           /\ c \notin Submitting => Cardinality(Submitting \cup {c}) = anonymous + 1
           /\ c \in Submitting => /\ anonymous > 0
                                  /\ Cardinality(Submitting \ {c}) = anonymous - 1
<1>1. IsFiniteSet(Submitting) /\ Cardinality(Submitting) = anonymous /\ anonymous \in Nat
  BY DEF ReservedInv, TypedInv, TypeOK, WorkerTypeOK
<1>2. c \in Submitting => anonymous # 0
  BY <1>1, FS_EmptySet
<1>3. QED
  BY <1>1, <1>2, FS_AddElement, FS_RemoveElement

(* One resume more or less, with the run it has reserved. *)
LEMMA ResumingCounts ==
    ASSUME TypedInv, ReservedInv, NEW c
    PROVE  /\ IsFiniteSet(reserved \cup {target[c]}) /\ IsFiniteSet(reserved \ {target[c]})
           /\ target[c] \notin reserved =>
                  Cardinality(reserved \cup {target[c]}) = Cardinality(reserved) + 1
           /\ c \in Resuming =>
                  /\ target[c] \in reserved
                  /\ Cardinality(reserved \ {target[c]}) = Cardinality(reserved) - 1
                  /\ reserved \ {target[c]} = {target[d] : d \in Resuming \ {c}}
<1>1. /\ IsFiniteSet(reserved) /\ reserved = {target[d] : d \in Resuming}
      /\ \A d, e \in Resuming : target[d] = target[e] => d = e
  BY DEF ReservedInv
<1>2. c \in Resuming => reserved \ {target[c]} = {target[d] : d \in Resuming \ {c}}
  BY <1>1
<1>3. /\ IsFiniteSet(reserved \cup {target[c]})
      /\ target[c] \notin reserved =>
             Cardinality(reserved \cup {target[c]}) = Cardinality(reserved) + 1
  BY <1>1, FS_AddElement
<1>4. /\ IsFiniteSet(reserved \ {target[c]})
      /\ target[c] \in reserved =>
             Cardinality(reserved \ {target[c]}) = Cardinality(reserved) - 1
  BY <1>1, FS_RemoveElement
<1>5. c \in Resuming => target[c] \in reserved
  BY <1>1
<1>6. QED
  BY <1>2, <1>3, <1>4, <1>5

LEMMA ReservedAnswer ==
    ASSUME TypedInv, CapacityInv, NEW c \in Clients, Ask(c) \/ Answer(c) \/ Quit(c)
    PROVE  CapacityInv'
<1> USE DEF SubmitPcs, ResumePcs
<1>1. ClientTypes /\ ReservedInv /\ RoomInv
  BY TypedParts DEF CapacityInv
<1>2. /\ Cardinality(reserved) \in Nat /\ Len(queue) \in Nat /\ Len(backlog) \in Nat
      /\ anonymous \in Nat /\ Capacity \in Nat /\ Capacity > 0
      /\ backlog = <<>> <=> Len(backlog) = 0
  BY <1>1, Counts
<1>3. \A item : Len(Append(queue, item)) = Len(queue) + 1
  OBVIOUS
<1>4. ASSUME NEW next, Goto(c, next) \/ \E r : Call(c, next, r)
      PROVE  /\ Submitting' = IF next \in SubmitPcs THEN Submitting \cup {c}
                                                    ELSE Submitting \ {c}
             /\ Resuming' = IF next \in ResumePcs THEN Resuming \cup {c} ELSE Resuming \ {c}
             /\ \A d \in Clients \ {c} : target'[d] = target[d]
             /\ Goto(c, next) => target' = target
  BY <1>1, <1>4, MovedCalls
<1>5. ASSUME UNCHANGED <<queue, backlog, reserved, anonymous, worker>>,
             Submitting' = Submitting, Resuming' = Resuming,
             \A d \in Resuming : target'[d] = target[d]
      PROVE  CapacityInv'
  BY <1>1, <1>5 DEF CapacityInv, ReservedInv, RoomInv, Unserved
<1>6. CASE Submit(c)
  <2>1. PICK r : Call(c, "register", r)
    BY <1>6 DEF Submit
  <2>2. /\ Submitting' = Submitting \cup {c} /\ Resuming' = Resuming \ {c}
        /\ \A d \in Clients \ {c} : target'[d] = target[d]
    BY <1>4, <2>1
  <2>3. c \notin Submitting /\ c \notin Resuming
    BY <1>6 DEF Submit, Submitting, Resuming
  <2>4. /\ HasCapacity /\ anonymous' = anonymous + 1 /\ ~Unserved
        /\ UNCHANGED <<queue, backlog, reserved, worker>>
    BY <1>6 DEF Submit, ReserveAnonymous, Ready, OnlyQueue, UnchangedService, taskVars
  <2>5. ReservedInv'
    BY <1>1, <2>2, <2>3, <2>4, SubmittingCounts DEF ReservedInv, Resuming
  <2>6. RoomInv'
    BY <1>1, <1>2, <2>4 DEF RoomInv, HasCapacity
  <2>7. QED
    BY <2>5, <2>6 DEF CapacityInv
<1>7. CASE Admit(c)
  <2>1. Submitting' = Submitting \ {c} /\ Resuming' = Resuming \cup {c} /\ target' = target
    BY <1>4, <1>7 DEF Admit
  <2>2. c \notin Submitting /\ c \notin Resuming
    BY <1>7 DEF Admit, Submitting, Resuming
  <2>3. /\ HasCapacity /\ target[c] \notin reserved /\ reserved' = reserved \cup {target[c]}
        /\ ~Unserved /\ UNCHANGED <<queue, backlog, anonymous, worker>>
    BY <1>7
       DEF Admit, Reserve, Reservable, Ready, OnlyQueue, UnchangedService, taskVars
  <2>4. ReservedInv'
    <3>1. /\ reserved' = {target'[d] : d \in Resuming'} /\ IsFiniteSet(reserved')
          /\ \A d \in Resuming : target[d] # target[c]
      BY <1>1, <2>1, <2>3, ResumingCounts DEF ReservedInv
    <3>2. IsFiniteSet(Submitting') /\ Cardinality(Submitting') = anonymous'
      BY <1>1, <2>1, <2>2, <2>3 DEF ReservedInv
    <3>3. \A d, e \in Resuming' : target'[d] = target'[e] => d = e
      BY <1>1, <2>1, <3>1 DEF ReservedInv
    <3>4. QED
      BY <3>1, <3>2, <3>3 DEF ReservedInv
  <2>5. RoomInv'
    <3>1. Cardinality(reserved') = Cardinality(reserved) + 1
      BY <1>1, <2>3, ResumingCounts
    <3>2. QED
      BY <1>1, <1>2, <2>3, <3>1 DEF RoomInv, HasCapacity
  <2>6. QED
    BY <2>4, <2>5 DEF CapacityInv
<1>8. CASE EnqueueSubmitted(c) \/ DropSubmission(c)
           \/ ((LeaveCleanup(c) \/ GiveUp(c)) /\ pc[c] = "dropped")
  <2>1. /\ Submitting' = Submitting \ {c} /\ Resuming' = Resuming \ {c}
        /\ \A d \in Clients \ {c} : target'[d] = target[d]
    <3>1. Call(c, "idle", NoRun)
      BY <1>8 DEF EnqueueSubmitted, DropSubmission, LeaveCleanup, GiveUp, GiveBack, Return
    <3>2. QED
      BY <1>4, <3>1
  <2>2. c \in Submitting /\ c \notin Resuming
    BY <1>8 DEF EnqueueSubmitted, DropSubmission, LeaveCleanup, GiveUp, GiveBack,
                Submitting, Resuming
  <2>3. anonymous > 0 /\ Cardinality(Submitting \ {c}) = anonymous - 1
    BY <1>1, <2>2, SubmittingCounts
  <2>4. /\ anonymous' = anonymous - 1 /\ UNCHANGED <<backlog, reserved, worker>>
        /\ queue' = queue \/ \E item : queue' = Append(queue, item)
    BY <1>2, <1>8, <2>3
       DEF EnqueueSubmitted, EnqueueAnonymous, DropSubmission, LeaveCleanup, GiveUp,
           GiveBack,
           ReleaseAnonymous, ReleaseReservation, OnlyQueue, UnchangedService, taskVars
  <2>5. ReservedInv'
    BY <1>1, <2>1, <2>2, <2>3, <2>4, SubmittingCounts DEF ReservedInv, Resuming
  <2>6. RoomInv'
    BY <1>1, <1>2, <1>3, <2>3, <2>4 DEF RoomInv, Unserved
  <2>7. QED
    BY <2>5, <2>6 DEF CapacityInv
<1>9. CASE \/ EnqueueResumed(c) \/ FailClaim(c)
           \/ (RollBack(c) /\ status[target[c]] # "resuming")
           \/ (LeaveCleanup(c) \/ GiveUp(c)) /\ pc[c] # "dropped"
  <2>1. /\ Submitting' = Submitting \ {c} /\ Resuming' = Resuming \ {c}
        /\ \A d \in Clients \ {c} : target'[d] = target[d]
    <3>1. Call(c, "idle", NoRun)
      BY <1>9 DEF EnqueueResumed, RollBack, FailClaim, LeaveCleanup, GiveUp, GiveBack,
                  Return
    <3>2. QED
      BY <1>4, <3>1
  <2>2. c \in Resuming /\ c \notin Submitting
    BY <1>9 DEF EnqueueResumed, RollBack, FailClaim, LeaveCleanup, GiveUp, GiveBack,
                Submitting, Resuming
  <2>3. /\ reserved' = reserved \ {target[c]} /\ UNCHANGED <<backlog, anonymous, worker>>
        /\ queue' = queue \/ \E item : queue' = Append(queue, item)
    BY <1>9
       DEF EnqueueResumed, EnqueueReserved, RollBack, FailClaim, LeaveCleanup, GiveUp,
           GiveBack, ReleaseAnonymous,
           ReleaseReservation, OnlyQueue, UnchangedService, taskVars
  <2>4. /\ target[c] \in reserved /\ Cardinality(reserved') = Cardinality(reserved) - 1
        /\ reserved' = {target[d] : d \in Resuming \ {c}} /\ IsFiniteSet(reserved')
    BY <1>1, <2>2, <2>3, ResumingCounts
  <2>5. ReservedInv'
    <3>1. \A d \in Resuming' : d \in Clients \ {c} /\ d \in Resuming /\ target'[d] = target[d]
      BY <2>1 DEF Resuming
    <3>2. reserved' = {target'[d] : d \in Resuming'}
      BY <2>1, <2>4, <3>1
    <3>3. IsFiniteSet(Submitting') /\ Cardinality(Submitting') = anonymous'
      BY <1>1, <2>1, <2>2, <2>3 DEF ReservedInv
    <3>4. \A d, e \in Resuming' : target'[d] = target'[e] => d = e
      BY <1>1, <3>1 DEF ReservedInv
    <3>5. QED
      BY <2>4, <3>2, <3>3, <3>4 DEF ReservedInv
  <2>6. RoomInv'
    BY <1>1, <1>2, <1>3, <2>3, <2>4 DEF RoomInv, Unserved
  <2>7. QED
    BY <2>5, <2>6 DEF CapacityInv
<1>10. CASE RefuseUpload(c) \/ LeaveSubmission(c) \/ Register(c)
  <2>1. /\ Submitting' = Submitting \cup {c} /\ Resuming' = Resuming \ {c}
        /\ target' = target
    BY <1>4, <1>10 DEF RefuseUpload, LeaveSubmission, Register
  <2>2. c \in Submitting /\ c \notin Resuming
    BY <1>10 DEF RefuseUpload, LeaveSubmission, Register, Submitting, Resuming
  <2>3. UNCHANGED <<queue, backlog, reserved, anonymous, worker>>
    BY <1>10
       DEF RefuseUpload, LeaveSubmission, Register, OnlyClient, OnlyWait, OnlyStatus,
           UnchangedService, queueVars, taskVars
  <2>4. QED
    BY <1>5, <2>1, <2>2, <2>3
<1>11. CASE \/ Prepare(c) \/ FinishPrepare(c) \/ LeaveResume(c)
            \/ (RollBack(c) /\ status[target[c]] = "resuming")
  <2>1. /\ Submitting' = Submitting \ {c} /\ Resuming' = Resuming \cup {c}
        /\ target' = target
    BY <1>4, <1>11 DEF Prepare, FinishPrepare, LeaveResume, RollBack
  <2>2. c \in Resuming /\ c \notin Submitting
    BY <1>11 DEF Prepare, FinishPrepare, LeaveResume, RollBack, Submitting, Resuming
  <2>3. UNCHANGED <<queue, backlog, reserved, anonymous, worker>>
    BY <1>11
       DEF Prepare, FinishPrepare, LeaveResume, RollBack, OnlyClient, OnlyWait, OnlyStatus,
           UnchangedService, queueVars, taskVars
  <2>4. QED
    BY <1>5, <2>1, <2>2, <2>3
<1>12. CASE Resume(c) \/ RefuseResume(c) \/ Cancel(c) \/ CancelCall(c) \/ CancelSignals(c)
            \/ LeaveCancel(c) \/ Wait(c) \/ Read(c) \/ Capture(c) \/ Reread(c) \/ Listen(c)
            \/ Wake(c) \/ Leave(c)
  <2>1. \E next \in ClientPcs \ (SubmitPcs \cup ResumePcs) :
            Goto(c, next) \/ \E r : Call(c, next, r)
    BY <1>12
       DEF Resume, RefuseResume, Cancel, CancelCall, CancelSignals, LeaveCancel, Wait, Read,
           Capture, Reread, Listen, Wake, Leave, Return, ClientPcs, CancelPcs, WaitPcs
  <2>2. /\ Submitting' = Submitting \ {c} /\ Resuming' = Resuming \ {c}
        /\ \A d \in Clients \ {c} : target'[d] = target[d]
    BY <1>4, <2>1
  <2>3. c \notin Submitting /\ c \notin Resuming
    BY <1>12
       DEF Resume, RefuseResume, Cancel, CancelCall, CancelSignals, LeaveCancel, Wait, Read,
           Capture, Reread, Listen, Wake, Leave, CancelPcs, WaitPcs, Submitting, Resuming
  <2>4. UNCHANGED <<queue, backlog, reserved, anonymous, worker>>
    BY <1>12
       DEF Resume, RefuseResume, Cancel, CancelCall, CancelSignals, LeaveCancel, Wait, Read,
           Capture, Reread, Listen, Wake, Leave, OnlyClient, OnlyWait, OnlyStatus,
           UnchangedService, queueVars, taskVars
  <2>5. QED
    BY <1>5, <2>2, <2>3, <2>4 DEF Resuming
<1>13. CASE LeaveCleanup(c) \/ GiveUp(c)
  BY <1>8, <1>9, <1>13
<1>14. CASE Ask(c)
  BY <1>6, <1>12, <1>14 DEF Ask
<1>15. CASE Answer(c)
  BY <1>7, <1>8, <1>9, <1>10, <1>11, <1>12, <1>15 DEF Answer
<1>16. CASE Quit(c)
  BY <1>10, <1>11, <1>12, <1>13, <1>16 DEF Quit
<1>17. QED
  BY <1>14, <1>15, <1>16

LEMMA ReservedWorker ==
    ASSUME TypedInv, AdmissionInv, CapacityInv, WorkerStep
    PROVE  CapacityInv'
<1>1. WorkerTypeOK /\ ReservedInv /\ RoomInv
  BY TypedParts DEF CapacityInv
<1>2. /\ Cardinality(reserved) \in Nat /\ Len(queue) \in Nat /\ Len(backlog) \in Nat
      /\ anonymous \in Nat /\ Capacity \in Nat /\ Capacity > 0
      /\ backlog = <<>> <=> Len(backlog) = 0
  BY <1>1, Counts
<1>3. UNCHANGED <<Submitting, Resuming, target>>
  BY WorkerKeepsClients DEF clientVars, Submitting, Resuming
<1>4. Len(queue) <= Capacity
  BY QueueWithinCapacity
<1>5. Items \subseteq Items \cup {NoItem}
  OBVIOUS
<1>6. ASSUME UNCHANGED <<reserved, anonymous>>, RoomInv'
      PROVE  CapacityInv'
  BY <1>1, <1>3, <1>6 DEF CapacityInv, ReservedInv
<1>7. CASE Start
  <2>1. generation' \in [Runs -> Nat]
    BY <1>1, <1>7 DEF Start, WorkerTypeOK, Recoverable
  <2>2. PICK order \in Orders(Recoverable) :
            FillFrom([i \in DOMAIN order |-> <<order[i], generation'[order[i]]>>])
    BY <1>7 DEF Start
  <2>3. [i \in DOMAIN order |-> <<order[i], generation'[order[i]]>>] \in Seq(Items)
    BY <1>1, <2>1, <2>2, RecoveredItems
  <2>4. Len(queue') <= Capacity /\ (backlog' # <<>> => Len(queue') = Capacity)
    BY <1>1, <1>4, <1>5, <2>2, <2>3, FillEffect DEF Filled, WorkerTypeOK
  <2>5. queue' \in Seq(Items \cup {NoItem})
    BY <1>1, <1>4, <1>5, <2>2, <2>3, FillEffect DEF Filled, WorkerTypeOK
  <2>6. Len(queue') \in Nat
    BY <2>5, LenProperties
  <2>7. reserved' = {} /\ anonymous' = 0 /\ worker' = "get" /\ UNCHANGED <<reserved,
  anonymous>>
    BY <1>7 DEF Start, AdmissionInv, Unstarted
  <2>8. RoomInv'
    BY <1>2, <2>4, <2>6, <2>7, FS_EmptySet DEF RoomInv
  <2>9. QED
    BY <1>6, <2>7, <2>8
<1>8. CASE Take
  <2>1. Len(queue') = Len(queue) - 1
    BY <1>1, <1>8, HeadTailProperties DEF Take, WorkerTypeOK
  <2>2. QED
    <3>1. /\ UNCHANGED <<backlog, reserved, anonymous>> /\ worker = "get"
          /\ worker' \in {"load", "done"}
      BY <1>8 DEF Take
    <3>2. Len(queue') + Cardinality(reserved') + anonymous' <= Capacity
      BY <1>1, <1>2, <2>1, <3>1 DEF RoomInv
    <3>3. backlog # <<>> => reserved = {} /\ anonymous = 0 /\ Len(queue') = Capacity - 1
      BY <1>1, <1>2, <2>1, <3>1 DEF RoomInv, Unserved
    <3>4. RoomInv'
      BY <1>2, <3>1, <3>2, <3>3 DEF RoomInv, Unserved
    <3>5. QED
      BY <1>6, <3>1, <3>4
<1>9. CASE Load \/ Process \/ Release \/ ReadBack
  BY <1>1, <1>6, <1>9 DEF Load, Process, Release, ReadBack, queueVars, RoomInv, Unserved
<1>10. CASE Signal
  <2>1. UNCHANGED <<reserved, anonymous>> /\ worker' \in {"get", "done"}
    BY <1>10 DEF Signal
  <2>2. CASE Stopping
    BY <1>1, <1>6, <1>10, <2>1, <2>2 DEF Signal, RoomInv, Unserved
  <2>3. CASE ~Stopping
    <3>1. backlog \in Seq(Items) /\ queue \in Seq(Items \cup {NoItem}) /\ FillFrom(backlog)
      BY <1>1, <1>10, <2>3 DEF WorkerTypeOK, Signal
    <3>2. PICK room \in 0..Len(backlog) :
              /\ Len(queue') = Len(queue) + room
              /\ Len(queue') <= Capacity
              /\ backlog' \in Seq(Items) /\ Len(backlog') = Len(backlog) - room
              /\ backlog' # <<>> => Len(queue') = Capacity
      BY <1>4, <1>5, <3>1, FillEffect DEF Filled
    <3>3. backlog = <<>> => room = 0 /\ backlog' = <<>>
      BY <1>2, <3>2, EmptySeq
    <3>4. worker' = "get"
      BY <1>10, <2>3 DEF Signal
    <3>5. backlog # <<>> => reserved = {} /\ anonymous = 0
      BY <1>1 DEF RoomInv
    <3>6. Len(queue') + Cardinality(reserved) + anonymous <= Capacity
      <4>1. CASE backlog = <<>>
        BY <1>1, <1>2, <3>2, <3>3, <4>1 DEF RoomInv
      <4>2. CASE backlog # <<>>
        <5>1. Cardinality(reserved) = 0
          BY <3>5, <4>2, FS_EmptySet
        <5>2. QED
          BY <1>2, <3>2, <3>5, <4>2, <5>1
      <4>3. QED
        BY <4>1, <4>2
    <3>7. QED
      BY <1>6, <2>1, <3>2, <3>3, <3>4, <3>5, <3>6 DEF RoomInv
  <2>4. QED
    BY <2>2, <2>3
<1>11. CASE OffloadEnds \/ Close \/ Joined \/ FinishShutdown
  BY <1>1, <1>6, <1>11
     DEF OffloadEnds, Close, Joined, FinishShutdown, queueVars, taskVars, RoomInv, Unserved
<1>12. CASE Quiesce
  <2>1. Submitting = {} /\ Resuming = {}
    BY <1>12 DEF Quiesce, Mutating, Submitting, Resuming
  <2>2. reserved = {} /\ anonymous = 0 /\ Cardinality(reserved) = 0
    BY <1>1, <2>1, FS_EmptySet DEF ReservedInv
  <2>3. UNCHANGED <<reserved, anonymous, backlog, worker>>
    BY <1>12 DEF Quiesce, Stop, taskVars
  <2>4. \/ queue' = queue
        \/ queue = <<>> /\ queue' = <<NoItem>> /\ ~Unserved
    <3>1. CASE Unserved
      BY <1>12, <3>1 DEF Quiesce, Stop
    <3>2. CASE ~Unserved
      BY <1>12, <3>2 DEF Quiesce, Stop
    <3>3. QED
      BY <3>1, <3>2
  <2>5. Len(<<>>) = 0 /\ Len(<<NoItem>>) = 1
    OBVIOUS
  <2>6. RoomInv'
    <3>1. CASE queue' = queue
      BY <1>1, <2>3, <3>1 DEF RoomInv, Unserved
    <3>2. CASE queue = <<>> /\ queue' = <<NoItem>> /\ ~Unserved
      <4>1. Len(queue) = 0 /\ Len(queue') = 1
        BY <2>5, <3>2
      <4>2. backlog # <<>> => worker # "get" /\ Len(queue) >= Capacity - 1
        BY <1>1, <1>2, <3>2, <4>1 DEF RoomInv
      <4>3. QED
        BY <1>2, <2>2, <2>3, <4>1, <4>2 DEF RoomInv
    <3>3. QED
      BY <2>4, <3>1, <3>2
  <2>7. QED
    BY <1>6, <2>3, <2>6
<1>13. CASE AbandonPending
  <2>1. Resuming = {} /\ Submitting = {}
    BY <1>13 DEF AbandonPending, AdmissionInv, Stopping, Mutating, Submitting, Resuming
  <2>2. queue' = <<>> /\ backlog' = <<>> /\ reserved' = {} /\ anonymous' = 0
    BY <1>13 DEF AbandonPending
  <2>3. ReservedInv'
    BY <1>3, <2>1, <2>2, FS_EmptySet DEF ReservedInv
  <2>4. RoomInv'
    BY <1>2, <2>2, FS_EmptySet DEF RoomInv
  <2>5. QED
    BY <2>3, <2>4 DEF CapacityInv
<1>14. CASE GraceExpires
  BY <1>1, <1>6, <1>14 DEF GraceExpires, RoomInv, Unserved
<1>15. QED
  BY <1>7, <1>8, <1>9, <1>10, <1>11, <1>12, <1>13, <1>14
     DEF WorkerStep, StartWorker, ServeQueue, Serve, Offloaded, ShutDown, Expire

LEMMA CapacityStay ==
    ASSUME CapacityInv, UNCHANGED vars
    PROVE  CapacityInv'
  BY DEF CapacityInv, ReservedInv, RoomInv, Submitting, Resuming, Unserved, vars, queueVars,
         taskVars, clientVars

(* The three layers that every further argument about the service uses. *)
BasicInv == TypedInv /\ AdmissionInv /\ CapacityInv

LEMMA InitBasic ==
    ASSUME Init
    PROVE  BasicInv
<1>1. TypedInv
  BY DEF Init, WorkerInit, TypedInv, TypeOK, WorkerTypeOK, Calling, HoldingPcs, ServedPcs,
         Items, RunStatuses
<1>2. AdmissionInv
  BY DEF Init, WorkerInit, AdmissionInv, Unstarted, Stopping, Unserved
<1>3. Submitting = {} /\ Resuming = {}
  BY DEF Init, Submitting, Resuming, SubmitPcs, ResumePcs
<1>4. ReservedInv
  BY <1>3, FS_EmptySet DEF Init, WorkerInit, ReservedInv
<1>5. RoomInv
  BY CapacityAssumption, FS_EmptySet DEF Init, WorkerInit, RoomInv
<1>6. QED
  BY <1>1, <1>2, <1>4, <1>5 DEF BasicInv, CapacityInv

LEMMA BasicStep ==
    ASSUME BasicInv, [Next]_vars
    PROVE  BasicInv'
<1>1. CASE Next
  <2>1. TypedInv'
    BY <1>1, QueueWithinCapacity, TypedStep DEF BasicInv
  <2>2. AdmissionInv'
    BY <1>1, AdmissionStep DEF BasicInv
  <2>3. CapacityInv'
    BY <1>1, NextSplits, ReservedAnswer, ReservedWorker DEF BasicInv
  <2>4. QED
    BY <2>1, <2>2, <2>3 DEF BasicInv
<1>2. CASE UNCHANGED vars
  BY <1>2, TypedStay, AdmissionStay, CapacityStay DEF BasicInv
<1>3. QED
  BY <1>1, <1>2

(* Every state has the types the module declares. *)
THEOREM ServiceTypeCorrect == Spec => []TypeOK
<1>1. BasicInv => TypeOK
  BY DEF BasicInv, TypedInv
<1>2. QED
  BY <1>1, InitBasic, BasicStep, PTL DEF Spec

(* A reservation of submit_pdf or resume stands for room in the queue and  *)
(* recovered work is not overtaken: put_nowait of the worker never fails.  *)
THEOREM ReservationsHoldAlways == Spec => []ReservationsHold
<1>1. BasicInv => ReservationsHold
  BY DEF BasicInv, CapacityInv, RoomInv, ReservationsHold
<1>2. QED
  BY <1>1, InitBasic, BasicStep, PTL DEF Spec

(* After close has unlocked the artifact root, no client's call and no     *)
(* thread left behind writes the row of a run.                             *)
THEOREM SilentAfterCloseHolds == Spec => SilentAfterClose
<1>1. ASSUME BasicInv, [Next]_vars, shutdown = "closed"
      PROVE  UNCHANGED <<status, flagged>>
  <2>1. Unserved /\ offloads = {} /\ Mutating = {} /\ ~Ready
    BY <1>1 DEF BasicInv, AdmissionInv, Stopping, Ready
  <2>2. CASE WorkerStep
    BY <1>1, <2>1, <2>2
       DEF WorkerStep, StartWorker, Start, ServeQueue, Serve, Take, Load, Process, Release,
           ReadBack, Signal, Offloaded, OffloadEnds, Close, ShutDown, Quiesce, Stop, Joined,
           AbandonPending, FinishShutdown, Expire, GraceExpires, Unserved
  <2>3. ASSUME NEW c \in Clients, Ask(c) \/ Answer(c) \/ Quit(c)
        PROVE  UNCHANGED <<status, flagged>>
    <3>1. pc[c] \notin SubmitPcs \cup ResumePcs \cup CancelPcs
      BY <2>1 DEF Mutating
    <3>2. QED
      BY <2>1, <2>3, <3>1
         DEF Ask, Answer, Quit, Submit, Resume, Cancel, Wait, Register, EnqueueSubmitted,
             DropSubmission, Admit, RefuseResume, Prepare, FinishPrepare, EnqueueResumed,
             RollBack, FailClaim, CancelCall, CancelSignals, Read, Capture, Reread,
             Listen, Wake,
             RefuseUpload, LeaveSubmission, LeaveResume, LeaveCleanup, GiveUp, GiveBack,
             LeaveCancel, Leave,
             SubmitPcs, ResumePcs, CancelPcs, OnlyWait, OnlyClient
  <2>4. CASE UNCHANGED vars
    BY <2>4 DEF vars
  <2>5. QED
    BY <1>1, <2>2, <2>3, <2>4, NextSplits
<1>2. BasicInv /\ [Next]_vars => [shutdown = "closed" => UNCHANGED <<status, flagged>>]_vars
  BY <1>1
<1>3. QED
  BY <1>2, InitBasic, BasicStep, PTL DEF Spec, SilentAfterClose

-----------------------------------------------------------------------------
(* The owners of a run exclude one another: a run is queued, waits in the  *)
(* backlog or is served once, only while it is in _enqueued, and whoever   *)
(* submits or resumes it does so while it is not.                          *)

Distinct(items) == \A i, j \in 1..Len(items) : RunOf(items[i]) = RunOf(items[j]) => i = j
Holds(items, r) == \E i \in 1..Len(items) : RunOf(items[i]) = r
Separate(s, t) ==
    /\ Distinct(s) /\ Distinct(t)
    /\ \A i \in 1..Len(s), j \in 1..Len(t) : RunOf(s[i]) # RunOf(t[j])

PlacesInv ==
    /\ Separate(queue, backlog)
    /\ \A i \in 1..Len(queue) : RunOf(queue[i]) \in enqueued \cup {NoRun}
    /\ \A i \in 1..Len(backlog) : RunOf(backlog[i]) \in enqueued
    /\ worker \in ServedPcs =>
           /\ RunOf(active) \in enqueued
           /\ ~Holds(queue, RunOf(active)) /\ ~Holds(backlog, RunOf(active))

ClaimsInv ==
    /\ \A r \in enqueued : status[r] # "absent"
    /\ \A c \in Submitting \cup Resuming : target[c] \notin enqueued
    /\ \A c \in Submitting, d \in Clients : target[d] = target[c] => d = c
    /\ \A c \in Clients : pc[c] \notin {"idle", "register", "dropped"} =>
                              status[target[c]] # "absent"

OwnerInv == PlacesInv /\ ClaimsInv

LEMMA SequenceFacts ==
    ASSUME TypedInv
    PROVE  /\ queue \in Seq(Items \cup {NoItem}) /\ backlog \in Seq(Items)
           /\ Len(queue) \in Nat /\ Len(backlog) \in Nat
           /\ DOMAIN queue = 1..Len(queue) /\ DOMAIN backlog = 1..Len(backlog)
           /\ \A i \in 1..Len(queue) : queue[i] \in Items \cup {NoItem}
           /\ \A i \in 1..Len(backlog) : backlog[i] \in Items
<1>1. queue \in Seq(Items \cup {NoItem}) /\ backlog \in Seq(Items)
  BY DEF TypedInv, TypeOK, WorkerTypeOK
<1>2. QED
  BY <1>1, LenProperties, ElementOfSeq

(* The refill keeps the runs of the queue and of what it takes from apart, *)
(* and brings in no other.                                                 *)
LEMMA FilledPlaces ==
    ASSUME TypedInv, Len(queue) <= Capacity, NEW items \in Seq(Items), FillFrom(items),
           Separate(queue, items)
    PROVE  /\ Separate(queue', backlog')
           /\ \A i \in 1..Len(queue') : \/ i \in 1..Len(queue) /\ queue'[i] = queue[i]
                                        \/ \E j \in 1..Len(items) : queue'[i] = items[j]
           /\ \A i \in 1..Len(backlog') : \E j \in 1..Len(items) : backlog'[i] = items[j]
           /\ \A r : Holds(queue, r) \/ Holds(items, r) <=> Holds(queue', r) \/ Holds(backlog', r)
<1>1. Items \subseteq Items \cup {NoItem} /\ queue \in Seq(Items \cup {NoItem})
  BY SequenceFacts
<1>2. PICK room \in 0..Len(items) :
          Filled(Items, Items \cup {NoItem}, items, room)
  BY <1>1, FillEffect
<1> USE DEF Filled
<1>3. Len(queue) \in Nat /\ Len(items) \in Nat /\ room \in Nat /\ room <= Len(items)
  BY <1>1, <1>2, LenProperties
<1>4. \A i \in 1..Len(queue') :
          \/ i \in 1..Len(queue) /\ queue'[i] = queue[i]
          \/ i \notin 1..Len(queue) /\ i - Len(queue) \in 1..room
             /\ queue'[i] = items[i - Len(queue)]
  <2>1. TAKE i \in 1..Len(queue')
  <2>2. CASE i <= Len(queue)
    BY <1>2, <1>3, <2>2
  <2>3. CASE i > Len(queue)
    <3>1. i - Len(queue) \in 1..room /\ Len(queue) + (i - Len(queue)) = i
      BY <1>2, <1>3, <2>3
    <3>2. queue'[Len(queue) + (i - Len(queue))] = items[i - Len(queue)]
      BY <1>2, <3>1
    <3>3. QED
      BY <1>3, <2>3, <3>1, <3>2
  <2>4. QED
    BY <1>2, <1>3, <2>2, <2>3
<1>5. \A j \in 1..room : j \in 1..Len(items)
  BY <1>3
<1>6. \A i \in 1..Len(backlog') : room + i \in 1..Len(items) /\ backlog'[i] = items[room + i]
  BY <1>2, <1>3
<1>7. Distinct(queue')
  <2>1. SUFFICES ASSUME NEW i \in 1..Len(queue'), NEW j \in 1..Len(queue'),
                        RunOf(queue'[i]) = RunOf(queue'[j])
                 PROVE  i = j
    BY DEF Distinct
  <2>2. CASE i \in 1..Len(queue) /\ j \in 1..Len(queue)
    BY <1>2, <2>1, <2>2 DEF Separate, Distinct
  <2>3. CASE i \notin 1..Len(queue) /\ j \notin 1..Len(queue)
    <3>1. i - Len(queue) = j - Len(queue)
      BY <1>4, <1>5, <2>1, <2>3 DEF Separate, Distinct
    <3>2. QED
      BY <1>2, <1>3, <3>1
  <2>4. CASE i \in 1..Len(queue) /\ j \notin 1..Len(queue)
    BY <1>4, <1>5, <2>1, <2>4 DEF Separate
  <2>5. CASE i \notin 1..Len(queue) /\ j \in 1..Len(queue)
    BY <1>4, <1>5, <2>1, <2>5 DEF Separate
  <2>6. QED
    BY <2>2, <2>3, <2>4, <2>5
<1>8. Distinct(backlog')
  <2>1. SUFFICES ASSUME NEW i \in 1..Len(backlog'), NEW j \in 1..Len(backlog'),
                        RunOf(backlog'[i]) = RunOf(backlog'[j])
                 PROVE  i = j
    BY DEF Distinct
  <2>2. room + i = room + j
    BY <1>6, <2>1 DEF Separate, Distinct
  <2>3. QED
    BY <1>2, <1>3, <2>2
<1>9. \A i \in 1..Len(queue'), j \in 1..Len(backlog') : RunOf(queue'[i]) # RunOf(backlog'[j])
  <2>1. TAKE i \in 1..Len(queue'), j \in 1..Len(backlog')
  <2>2. CASE i \in 1..Len(queue)
    BY <1>2, <1>6, <2>2 DEF Separate
  <2>3. CASE i \notin 1..Len(queue)
    <3>1. i - Len(queue) \in 1..room /\ queue'[i] = items[i - Len(queue)]
      BY <1>4, <2>3
    <3>2. i - Len(queue) # room + j
      BY <1>2, <1>3, <3>1
    <3>3. QED
      BY <1>5, <1>6, <3>1, <3>2 DEF Separate, Distinct
  <2>4. QED
    BY <2>2, <2>3
<1>10. \A i \in 1..Len(queue') : \/ i \in 1..Len(queue) /\ queue'[i] = queue[i]
                                 \/ \E j \in 1..Len(items) : queue'[i] = items[j]
  BY <1>4, <1>5
<1>11. \A i \in 1..Len(queue) : i \in 1..Len(queue') /\ queue'[i] = queue[i]
  BY <1>2, <1>3
<1>12. \A j \in 1..Len(items) : \/ \E i \in 1..Len(queue') : queue'[i] = items[j]
                                \/ \E i \in 1..Len(backlog') : backlog'[i] = items[j]
  <2>1. TAKE j \in 1..Len(items)
  <2>2. CASE j <= room
    <3>1. Len(queue) + j \in 1..Len(queue') /\ j \in 1..room
      BY <1>2, <1>3, <2>2
    <3>2. queue'[Len(queue) + j] = items[j]
      BY <1>2, <3>1
    <3>3. QED
      BY <3>1, <3>2
  <2>3. CASE j > room
    <3>1. j - room \in 1..Len(backlog') /\ room + (j - room) = j
      BY <1>2, <1>3, <2>3
    <3>2. backlog'[j - room] = items[room + (j - room)]
      BY <1>6, <3>1
    <3>3. QED
      BY <3>1, <3>2
  <2>4. QED
    BY <1>3, <2>2, <2>3
<1>13. \A r : Holds(queue, r) \/ Holds(items, r) <=> Holds(queue', r) \/ Holds(backlog', r)
  <2>1. TAKE r
  <2>2. Holds(queue, r) => Holds(queue', r)
    BY <1>11 DEF Holds
  <2>3. Holds(items, r) => Holds(queue', r) \/ Holds(backlog', r)
    BY <1>12 DEF Holds
  <2>4. Holds(queue', r) => Holds(queue, r) \/ Holds(items, r)
    BY <1>10 DEF Holds
  <2>5. Holds(backlog', r) => Holds(items, r)
    BY <1>6 DEF Holds
  <2>6. QED
    BY <2>2, <2>3, <2>4, <2>5
<1>14. QED
  BY <1>6, <1>7, <1>8, <1>9, <1>10, <1>13 DEF Separate

(* No step forgets a registered run. *)
LEMMA StatusStays ==
    ASSUME TypedInv, Next, NEW r \in Runs, status[r] # "absent"
    PROVE  status'[r] # "absent"
<1>1. status \in [Runs -> RunStatuses]
  BY DEF TypedInv, TypeOK, WorkerTypeOK
<1>2. /\ \A q, s : SetStatus(q, s) /\ s # "absent" => status'[r] # "absent"
      /\ \A q, set : FailIf(q, set) => status'[r] # "absent"
      /\ \A q : RequestCancel(q) => status'[r] # "absent"
      /\ \A q : ProcessorCall(q) => status'[r] # "absent"
  BY <1>1 DEF SetStatus, FailIf, RequestCancel, ProcessorCall
<1>3. CASE WorkerStep
  BY <1>2, <1>3
     DEF WorkerStep, StartWorker, Start, ServeQueue, Serve, Take, Load, Process, Release,
         ReadBack, Signal, Offloaded, OffloadEnds, Close, ShutDown, Quiesce, Stop, Joined,
         AbandonPending, FinishShutdown, Expire, GraceExpires
<1>4. ASSUME NEW c \in Clients, Ask(c) \/ Answer(c) \/ Quit(c)
      PROVE  status'[r] # "absent"
  <2>1. CASE Register(c) \/ Prepare(c) \/ FinishPrepare(c) \/ FailClaim(c)
             \/ DropSubmission(c) \/ CancelCall(c)
    BY <1>2, <2>1
       DEF Register, Prepare, FinishPrepare, FailClaim, DropSubmission, CancelCall
  <2>2. CASE ~(Register(c) \/ Prepare(c) \/ FinishPrepare(c) \/ FailClaim(c)
               \/ DropSubmission(c) \/ CancelCall(c))
    <3>1. UNCHANGED status
      BY <1>4, <2>2
         DEF Ask, Answer, Quit, Submit, Resume, Cancel, Wait, EnqueueSubmitted, Admit,
             RefuseResume, EnqueueResumed, RollBack, CancelSignals, Read, Capture, Reread,
             Listen, Wake, RefuseUpload, LeaveSubmission, LeaveResume, LeaveCleanup, GiveUp,
             LeaveCancel,
             Leave, OnlyQueue, OnlyWait, OnlyClient
    <3>2. QED
      BY <3>1
  <2>3. QED
    BY <2>1, <2>2
<1>5. QED
  BY <1>3, <1>4, NextSplits

(* An item is queued for a run that nothing else holds. *)
LEMMA AppendPlaces ==
    ASSUME TypedInv, PlacesInv, NEW r \in Runs, r \notin enqueued, NEW g \in Nat,
           queue' = Append(queue, <<r, g>>), enqueued' = enqueued \cup {r},
           UNCHANGED <<backlog, worker, active>>
    PROVE  PlacesInv'
<1>1. <<r, g>> \in Items \cup {NoItem} /\ RunOf(<<r, g>>) = r
  BY DEF Items, RunOf
<1>2. /\ queue \in Seq(Items \cup {NoItem}) /\ Len(queue) \in Nat /\ Len(backlog) \in Nat
  BY SequenceFacts
<1>3. /\ Len(queue') = Len(queue) + 1
      /\ \A i \in 1..Len(queue) + 1 :
             queue'[i] = IF i = Len(queue) + 1 THEN <<r, g>> ELSE queue[i]
  BY <1>1, <1>2, AppendEffect
<1>4. \A i \in 1..Len(queue') : \/ i = Len(queue) + 1 /\ queue'[i] = <<r, g>>
                                \/ i \in 1..Len(queue) /\ queue'[i] = queue[i]
  BY <1>2, <1>3
<1>5. r # NoRun
  BY RunsAssumption
<1>6. Separate(queue', backlog')
  <2>1. /\ \A i \in 1..Len(queue) : RunOf(queue[i]) # r
        /\ \A i \in 1..Len(backlog) : RunOf(backlog[i]) # r
    BY <1>5 DEF PlacesInv
  <2>2. Distinct(queue')
    BY <1>1, <1>4, <2>1 DEF PlacesInv, Separate, Distinct
  <2>3. \A i \in 1..Len(queue'), j \in 1..Len(backlog') : RunOf(queue'[i]) # RunOf(backlog'[j])
    BY <1>1, <1>4, <2>1 DEF PlacesInv, Separate
  <2>4. QED
    BY <2>2, <2>3 DEF PlacesInv, Separate
<1>7. \A i \in 1..Len(queue') : RunOf(queue'[i]) \in enqueued' \cup {NoRun}
  BY <1>1, <1>4 DEF PlacesInv
<1>8. worker' \in ServedPcs =>
          /\ RunOf(active') \in enqueued'
          /\ ~Holds(queue', RunOf(active')) /\ ~Holds(backlog', RunOf(active'))
  BY <1>1, <1>4 DEF PlacesInv, Holds
<1>9. QED
  BY <1>6, <1>7, <1>8 DEF PlacesInv

LEMMA OwnerAnswer ==
    ASSUME BasicInv, OwnerInv, NEW c \in Clients, Ask(c) \/ Answer(c) \/ Quit(c)
    PROVE  OwnerInv'
<1>1. /\ TypedInv /\ ClientTypes /\ WorkerTypeOK /\ ReservedInv /\ PlacesInv /\ ClaimsInv
      /\ \A d \in Clients : target[d] = NoRun \/ target[d] \in Runs
      /\ \A d \in Clients : pc[d] # "idle" => target[d] \in Runs
  BY TypedParts DEF BasicInv, CapacityInv, OwnerInv, ClientTypes, Calling
<1>2. Next
  BY NextSplits
<1>3. \A r \in Runs : status[r] # "absent" => status'[r] # "absent"
  BY <1>1, <1>2, StatusStays
<1>4. ASSUME UNCHANGED <<queue, backlog, enqueued, worker, active>>
      PROVE  PlacesInv'
  BY <1>1, <1>4 DEF PlacesInv, Separate, Distinct, Holds
<1>5. enqueued \subseteq Runs /\ \A d \in Submitting \cup Resuming : target[d] \in Runs
  BY <1>1 DEF WorkerTypeOK, Submitting, Resuming, SubmitPcs, ResumePcs
<1>6. NoRun \notin Runs
  BY RunsAssumption
<1>7. CASE Submit(c)
  <2>1. PICK r \in Fresh : Call(c, "register", r)
    BY <1>7 DEF Submit
  <2>2. /\ Submitting' = Submitting \cup {c} /\ Resuming' = Resuming \ {c}
        /\ \A d \in Clients \ {c} : pc'[d] = pc[d] /\ target'[d] = target[d]
        /\ pc'[c] = "register" /\ target'[c] = r
    BY <1>1, <2>1, MovedCalls DEF SubmitPcs, ResumePcs
  <2>3. /\ UNCHANGED <<queue, backlog, enqueued, worker, active>>
        /\ pc[c] = "idle"
    BY <1>7 DEF Submit, ReserveAnonymous, OnlyQueue, UnchangedService, taskVars
  <2>4. \A d \in Clients : target[d] # r
    <3>1. \A d \in Submitting : target[d] # r
      BY <2>1 DEF Fresh, InSubmission, Submitting
    <3>2. \A d \in Clients \ Submitting : target[d] # r
      BY <1>1, <1>6, <2>1 DEF Fresh, ClaimsInv, Submitting, SubmitPcs, ClientTypes, Calling
    <3>3. QED
      BY <3>1, <3>2 DEF Submitting
  <2>5. r \in Runs /\ r \notin enqueued
    BY <1>1, <2>1 DEF Fresh, ClaimsInv
  <2>6. \A d \in Clients \ {c} : target'[d] # r /\ (d \in Submitting' <=> d \in Submitting)
    BY <2>2, <2>4
  <2>7. \A d \in Submitting', e \in Clients : target'[e] = target'[d] => e = d
    <3>1. TAKE d \in Submitting', e \in Clients
    <3>2. CASE d = c
      BY <2>2, <2>6, <3>2
    <3>3. CASE d # c /\ e = c
      BY <2>2, <2>6, <3>3 DEF Submitting
    <3>4. CASE d # c /\ e # c
      BY <1>1, <2>2, <2>6, <3>4 DEF ClaimsInv, Submitting
    <3>5. QED
      BY <3>2, <3>3, <3>4
  <2>8. \A d \in Submitting' \cup Resuming' : target'[d] \notin enqueued'
    BY <1>1, <2>2, <2>3, <2>5 DEF ClaimsInv, Submitting, Resuming
  <2>9. \A d \in Clients : pc'[d] \notin {"idle", "register", "dropped"} =>
                               status'[target'[d]] # "absent"
    BY <1>1, <1>3, <2>2 DEF ClaimsInv
  <2>10. \A q \in enqueued' : status'[q] # "absent"
    BY <1>1, <1>3, <1>5, <2>3 DEF ClaimsInv
  <2>11. QED
    BY <1>4, <2>3, <2>7, <2>8, <2>9, <2>10 DEF OwnerInv, ClaimsInv
<1>8. CASE Admit(c)
  <2>1. /\ Submitting' = Submitting \ {c} /\ Resuming' = Resuming \cup {c}
        /\ target' = target /\ pc'[c] = "prepare"
        /\ \A d \in Clients \ {c} : pc'[d] = pc[d]
    BY <1>1, <1>8, MovedCalls DEF Admit, SubmitPcs, ResumePcs
  <2>2. /\ UNCHANGED <<queue, backlog, enqueued, worker, active>>
        /\ pc[c] = "admit" /\ target[c] \notin enqueued
    BY <1>8 DEF Admit, Reserve, Reservable, OnlyQueue, UnchangedService, taskVars
  <2>3. \A q \in enqueued' : status'[q] # "absent"
    BY <1>1, <1>3, <1>5, <2>2 DEF ClaimsInv
  <2>4. \A d \in Clients : pc'[d] \notin {"idle", "register", "dropped"} =>
                               status'[target'[d]] # "absent"
    BY <1>1, <1>3, <2>1, <2>2 DEF ClaimsInv
  <2>5. QED
    BY <1>1, <1>4, <2>1, <2>2, <2>3, <2>4 DEF OwnerInv, ClaimsInv
<1>9. CASE EnqueueSubmitted(c) \/ EnqueueResumed(c)
  <2>1. /\ Submitting' = Submitting \ {c} /\ Resuming' = Resuming \ {c}
        /\ \A d \in Clients \ {c} : pc'[d] = pc[d] /\ target'[d] = target[d]
        /\ pc'[c] = "idle" /\ target'[c] = NoRun
    <3>1. Call(c, "idle", NoRun)
      BY <1>9 DEF EnqueueSubmitted, EnqueueResumed, Return
    <3>2. QED
      BY <1>1, <3>1, MovedCalls DEF SubmitPcs, ResumePcs
  <2>2. /\ c \in Submitting \/ c \in Resuming
        /\ pc[c] \in {"submitted", "enqueue"}
        /\ target[c] \in Runs /\ target[c] \notin enqueued /\ generation[target[c]] \in Nat
    BY <1>1, <1>5, <1>9
       DEF EnqueueSubmitted, EnqueueResumed, Submitting, Resuming, SubmitPcs, ResumePcs,
           ClaimsInv, WorkerTypeOK
  <2>3. /\ enqueued' = enqueued \cup {target[c]} /\ UNCHANGED <<backlog, worker, active>>
        /\ \E g \in Nat : queue' = Append(queue, <<target[c], g>>)
    BY <1>9, <2>2
       DEF EnqueueSubmitted, EnqueueResumed, EnqueueAnonymous, EnqueueReserved, OnlyQueue,
           UnchangedService, taskVars
  <2>4. PlacesInv'
    BY <1>1, <2>2, <2>3, AppendPlaces
  <2>5. \A d \in (Submitting \cup Resuming) \ {c} : target[d] # target[c]
    BY <1>1, <2>2 DEF ClaimsInv, ReservedInv, Submitting, Resuming, SubmitPcs, ResumePcs
  <2>6. \A d \in Submitting' \cup Resuming' : target'[d] \notin enqueued'
    BY <1>1, <2>1, <2>3, <2>5 DEF ClaimsInv, Submitting, Resuming
  <2>7. \A d \in Submitting', e \in Clients : target'[e] = target'[d] => e = d
    BY <1>1, <1>5, <1>6, <2>1 DEF ClaimsInv, Submitting
  <2>8. \A q \in enqueued' : status'[q] # "absent"
    BY <1>1, <1>3, <1>5, <2>2, <2>3 DEF ClaimsInv
  <2>9. \A d \in Clients : pc'[d] \notin {"idle", "register", "dropped"} =>
                               status'[target'[d]] # "absent"
    BY <1>1, <1>3, <2>1 DEF ClaimsInv
  <2>10. QED
    BY <2>4, <2>6, <2>7, <2>8, <2>9 DEF OwnerInv, ClaimsInv
<1>10. CASE Resume(c) \/ Cancel(c) \/ Wait(c)
  <2>1. PICK r \in Known, next \in {"admit", "cancel", "read"} : Call(c, next, r)
    BY <1>10 DEF Resume, Cancel, Wait
  <2>2. /\ Submitting' = Submitting \ {c} /\ Resuming' = Resuming \ {c}
        /\ \A d \in Clients \ {c} : pc'[d] = pc[d] /\ target'[d] = target[d]
        /\ target'[c] = r
    BY <1>1, <2>1, MovedCalls DEF SubmitPcs, ResumePcs
  <2>3. UNCHANGED <<status, queue, backlog, enqueued, worker, active>>
    BY <1>10
       DEF Resume, Cancel, Wait, OnlyClient, OnlyWait, UnchangedService, queueVars, taskVars
  <2>4. r \in Runs /\ status[r] # "absent" /\ \A d \in Submitting : target[d] # r
    BY <2>1 DEF Known, InSubmission, Submitting
  <2>5. \A d \in Submitting', e \in Clients : target'[e] = target'[d] => e = d
    BY <1>1, <2>2, <2>4 DEF ClaimsInv, Submitting
  <2>6. \A d \in Clients : pc'[d] \notin {"idle", "register", "dropped"} =>
                               status'[target'[d]] # "absent"
    BY <1>1, <2>2, <2>3, <2>4 DEF ClaimsInv
  <2>7. \A d \in Submitting' \cup Resuming' : target'[d] \notin enqueued'
    BY <1>1, <2>2, <2>3 DEF ClaimsInv, Submitting, Resuming
  <2>8. QED
    BY <1>1, <1>4, <2>3, <2>5, <2>6, <2>7 DEF OwnerInv, ClaimsInv

<1>11. ASSUME UNCHANGED <<queue, backlog, enqueued, worker, active>>,
              \/ Return(c)
              \/ \E next : /\ Goto(c, next)
                           /\ next \in SubmitPcs => pc[c] \in SubmitPcs
                           /\ next \in ResumePcs => pc[c] \in ResumePcs
                           /\ \/ pc[c] \notin {"idle", "register", "dropped"}
                              \/ next = "dropped"
                              \/ status'[target[c]] # "absent"
       PROVE  OwnerInv'
  <2>1. PICK next :
            /\ Goto(c, next) \/ (Call(c, next, NoRun) /\ next = "idle")
            /\ next \in SubmitPcs => pc[c] \in SubmitPcs
            /\ next \in ResumePcs => pc[c] \in ResumePcs
            /\ \/ pc[c] \notin {"idle", "register", "dropped"}
               \/ next \in {"dropped", "idle"}
               \/ status'[target[c]] # "absent"
    BY <1>11 DEF Return, SubmitPcs, ResumePcs
  <2>2. /\ Submitting' \subseteq Submitting /\ Resuming' \subseteq Resuming
        /\ \A d \in Clients \ {c} : pc'[d] = pc[d] /\ target'[d] = target[d]
        /\ pc'[c] = next
        /\ target' = target \/ (target'[c] = NoRun /\ next = "idle")
    BY <1>1, <2>1, MovedCalls DEF Submitting, Resuming, SubmitPcs, ResumePcs
  <2>3. \A d \in Submitting' \cup Resuming' : target'[d] = target[d]
    BY <2>2 DEF Submitting, Resuming, SubmitPcs, ResumePcs
  <2>4. \A d \in Submitting', e \in Clients : target'[e] = target'[d] => e = d
    BY <1>1, <1>5, <1>6, <2>2, <2>3 DEF ClaimsInv
  <2>5. \A d \in Submitting' \cup Resuming' : target'[d] \notin enqueued'
    BY <1>1, <1>11, <2>2, <2>3 DEF ClaimsInv
  <2>6. \A q \in enqueued' : status'[q] # "absent"
    BY <1>1, <1>3, <1>5, <1>11 DEF ClaimsInv
  <2>7. ASSUME NEW d \in Clients, pc'[d] \notin {"idle", "register", "dropped"}
        PROVE  status'[target'[d]] # "absent"
    <3>1. CASE d # c
      BY <1>1, <1>3, <2>2, <2>7, <3>1 DEF ClaimsInv
    <3>2. CASE d = c
      <4>1. target' = target /\ next \notin {"dropped", "idle"}
        BY <2>2, <2>7, <3>2
      <4>2. CASE pc[c] \notin {"idle", "register", "dropped"}
        BY <1>1, <1>3, <3>2, <4>1, <4>2 DEF ClaimsInv
      <4>3. QED
        BY <2>1, <3>2, <4>1, <4>2
    <3>3. QED
      BY <3>1, <3>2
  <2>8. QED
    BY <1>4, <1>11, <2>4, <2>5, <2>6, <2>7 DEF OwnerInv, ClaimsInv
<1>12. CASE Register(c) \/ RefuseUpload(c) \/ LeaveSubmission(c) \/ Prepare(c)
            \/ FinishPrepare(c) \/ LeaveResume(c)
            \/ (RollBack(c) /\ status[target[c]] = "resuming")
  <2>1. UNCHANGED <<queue, backlog, enqueued, worker, active>>
    BY <1>12
       DEF Register, RefuseUpload, LeaveSubmission, Prepare, FinishPrepare, LeaveResume,
           RollBack,
           OnlyStatus, OnlyClient, OnlyWait, UnchangedService, queueVars, taskVars
  <2>2. Register(c) => status'[target[c]] # "absent"
    BY <1>1, <1>5 DEF Register, SetStatus, WorkerTypeOK, Submitting, SubmitPcs
  <2>3. QED
    BY <1>11, <1>12, <2>1, <2>2
       DEF Register, RefuseUpload, LeaveSubmission, Prepare, FinishPrepare, LeaveResume,
           RollBack, SubmitPcs, ResumePcs
<1>13. CASE \/ DropSubmission(c) \/ RefuseResume(c) \/ FailClaim(c) \/ LeaveCleanup(c)
            \/ (RollBack(c) /\ status[target[c]] # "resuming")
            \/ GiveUp(c) \/ CancelSignals(c) \/ LeaveCancel(c) \/ Leave(c)
  <2>1. UNCHANGED <<queue, backlog, enqueued, worker, active>>
    BY <1>13
       DEF DropSubmission, RefuseResume, RollBack, FailClaim, LeaveCleanup, GiveUp,
           GiveBack, CancelSignals, LeaveCancel,
           Leave, ReleaseAnonymous, ReleaseReservation, OnlyClient, OnlyWait,
           UnchangedService, queueVars, taskVars
  <2>2. Return(c)
    BY <1>13
       DEF DropSubmission, RefuseResume, RollBack, FailClaim, LeaveCleanup, GiveUp,
           GiveBack, CancelSignals, LeaveCancel,
           Leave
  <2>3. QED
    BY <1>11, <2>1, <2>2
<1>14. CASE CancelCall(c) \/ Read(c) \/ Capture(c) \/ Reread(c) \/ Listen(c) \/ Wake(c)
  <2>1. UNCHANGED <<queue, backlog, enqueued, worker, active>>
    BY <1>14
       DEF CancelCall, Read, Capture, Reread, Listen, Wake, OnlyStatus, OnlyClient,
           OnlyWait,
           UnchangedService, queueVars, taskVars
  <2>2. /\ pc[c] \notin {"idle", "register", "dropped"}
        /\ Return(c) \/ \E next \in CancelPcs \cup WaitPcs : Goto(c, next)
    BY <1>14 DEF CancelCall, Read, Capture, Reread, Listen, Wake, CancelPcs, WaitPcs
  <2>3. QED
    BY <1>11, <2>1, <2>2 DEF CancelPcs, WaitPcs, SubmitPcs, ResumePcs
<1>15. CASE RollBack(c)
  BY <1>12, <1>13, <1>15
<1>16. CASE Ask(c)
  BY <1>7, <1>8, <1>9, <1>10, <1>16 DEF Ask
<1>17. CASE Answer(c)
  BY <1>8, <1>9, <1>10, <1>12, <1>13, <1>14, <1>15, <1>17, Zenon DEF Answer
<1>18. CASE Quit(c)
  BY <1>12, <1>13, <1>18, Zenon DEF Quit
<1>19. QED
  BY <1>16, <1>17, <1>18

LEMMA OwnerWorker ==
    ASSUME BasicInv, OwnerInv, WorkerStep
    PROVE  OwnerInv'
<1>1. /\ TypedInv /\ WorkerTypeOK /\ AdmissionInv /\ PlacesInv /\ ClaimsInv
      /\ Len(queue) <= Capacity /\ RoomInv
      /\ worker \in HoldingPcs => active \in Items
  BY TypedParts, QueueWithinCapacity DEF BasicInv, CapacityInv, OwnerInv
<1>2. Next
  BY NextSplits
<1>3. \A r \in Runs : status[r] # "absent" => status'[r] # "absent"
  BY <1>1, <1>2, StatusStays
<1>4. UNCHANGED <<Submitting, Resuming, pc, target>>
  BY WorkerKeepsClients DEF clientVars, Submitting, Resuming
<1>5. enqueued \subseteq Runs
  BY <1>1 DEF WorkerTypeOK
<1>6. ASSUME enqueued' \subseteq enqueued, PlacesInv'
      PROVE  OwnerInv'
  <2>1. \A r \in enqueued' : status'[r] # "absent"
    BY <1>1, <1>3, <1>5, <1>6 DEF ClaimsInv
  <2>2. \A c \in Submitting \cup Resuming : target[c] \notin enqueued'
    BY <1>1, <1>6 DEF ClaimsInv
  <2>3. \A c \in Clients : pc[c] \notin {"idle", "register", "dropped"} =>
                               status'[target[c]] # "absent"
    BY <1>1, <1>3 DEF ClaimsInv, TypedInv, Calling
  <2>4. QED
    BY <1>1, <1>4, <1>6, <2>1, <2>2, <2>3 DEF OwnerInv, ClaimsInv
<1>7. /\ queue \in Seq(Items \cup {NoItem}) /\ backlog \in Seq(Items)
      /\ Len(queue) \in Nat /\ Len(backlog) \in Nat
      /\ \A i \in 1..Len(queue) : queue[i] \in Items \cup {NoItem}
      /\ \A i \in 1..Len(backlog) : backlog[i] \in Items
  BY <1>1, SequenceFacts
<1>8. NoRun \notin Runs /\ RunOf(NoItem) = NoRun /\ \A item \in Items : RunOf(item) \in Runs
  BY RunsAssumption DEF RunOf, NoItem, Items
<1>9. CASE Start
  <2>1. generation' \in [Runs -> Nat]
    BY <1>1, <1>9 DEF Start, WorkerTypeOK, Recoverable
  <2>2. PICK order \in Orders(Recoverable) :
            FillFrom([i \in DOMAIN order |-> <<order[i], generation'[order[i]]>>])
    BY <1>9 DEF Start
  <2> DEFINE items == [i \in DOMAIN order |-> <<order[i], generation'[order[i]]>>]
  <2>3. /\ items \in Seq(Items)
        /\ \A i \in 1..Len(items) :
               items[i] = <<order[i], generation'[order[i]]>> /\ order[i] \in Recoverable
        /\ \A i, j \in 1..Len(items) : order[i] = order[j] => i = j
    BY <1>1, <2>1, RecoveredItems
  <2>4. queue = <<>> /\ Len(queue) = 0 /\ \A c \in Clients : pc[c] = "idle"
    BY <1>1, <1>9 DEF Start, AdmissionInv, Unstarted
  <2>5. FillFrom(items)
    BY <2>2
  <2> HIDE DEF items
  <2>6. /\ Separate(queue, items)
        /\ \A i \in 1..Len(items) : RunOf(items[i]) \in Recoverable
    BY <2>3, <2>4 DEF Separate, Distinct, RunOf
  <2>7. /\ Separate(queue', backlog')
        /\ \A i \in 1..Len(queue') : \/ i \in 1..Len(queue) /\ queue'[i] = queue[i]
                                     \/ \E j \in 1..Len(items) : queue'[i] = items[j]
        /\ \A i \in 1..Len(backlog') : \E j \in 1..Len(items) : backlog'[i] = items[j]
    BY <1>1, <2>3, <2>5, <2>6, FilledPlaces
  <2>8. enqueued' = Recoverable /\ worker' = "get" /\ UNCHANGED status
    BY <1>9 DEF Start
  <2>9. PlacesInv'
    BY <2>4, <2>6, <2>7, <2>8 DEF PlacesInv, ServedPcs
  <2>10. Submitting = {} /\ Resuming = {}
    BY <2>4 DEF Submitting, Resuming, SubmitPcs, ResumePcs
  <2>11. \A r \in enqueued' : status'[r] # "absent"
    BY <2>8 DEF Recoverable
  <2>12. QED
    BY <1>4, <2>4, <2>9, <2>10, <2>11 DEF OwnerInv, ClaimsInv
<1>10. CASE Take
  <2>1. /\ queue # <<>> /\ queue' = Tail(queue) /\ UNCHANGED backlog /\ worker = "get"
        /\ enqueued' \subseteq enqueued
    BY <1>10 DEF Take
  <2>2. /\ Len(queue') = Len(queue) - 1 /\ Head(queue) = queue[1]
        /\ \A i \in 1..Len(queue') : queue'[i] = queue[i + 1]
    BY <1>7, <2>1, HeadTailProperties
  <2>3. \A i \in 1..Len(queue') : i + 1 \in 1..Len(queue) /\ i + 1 # 1
    BY <1>7, <2>2
  <2>4. 1 \in 1..Len(queue)
    BY <1>7, <2>1, EmptySeq
  <2>5. Separate(queue', backlog')
    <3>1. Distinct(queue')
      <4>1. SUFFICES ASSUME NEW i \in 1..Len(queue'), NEW j \in 1..Len(queue'),
                            RunOf(queue'[i]) = RunOf(queue'[j])
                     PROVE  i = j
        BY DEF Distinct
      <4>2. i + 1 = j + 1
        BY <1>1, <2>2, <2>3, <4>1 DEF PlacesInv, Separate, Distinct
      <4>3. QED
        BY <1>7, <2>2, <4>2
    <3>2. \A i \in 1..Len(queue'), j \in 1..Len(backlog') : RunOf(queue'[i]) # RunOf(backlog'[j])
      BY <1>1, <2>1, <2>2, <2>3 DEF PlacesInv, Separate
    <3>3. Distinct(backlog')
      BY <1>1, <2>1 DEF PlacesInv, Separate, Distinct
    <3>4. QED
      BY <3>1, <3>2, <3>3 DEF Separate
  <2>6. \A i \in 1..Len(queue') :
            /\ RunOf(queue'[i]) # RunOf(Head(queue))
            /\ RunOf(queue'[i]) \in enqueued \cup {NoRun}
    BY <1>1, <2>2, <2>3, <2>4 DEF PlacesInv, Separate, Distinct
  <2>7. \A i \in 1..Len(backlog') :
            RunOf(backlog'[i]) # RunOf(Head(queue)) /\ RunOf(backlog'[i]) \in enqueued
    BY <1>1, <2>1, <2>2, <2>4 DEF PlacesInv, Separate
  <2>8. CASE worker' = "done"
    <3>1. enqueued' = enqueued \ {RunOf(Head(queue))}
      BY <1>10, <2>8 DEF Take
    <3>2. PlacesInv'
      BY <2>5, <2>6, <2>7, <2>8, <3>1 DEF PlacesInv, ServedPcs
    <3>3. QED
      BY <1>6, <2>1, <3>2
  <2>9. CASE worker' = "load"
    <3>1. enqueued' = enqueued /\ active' = Head(queue) /\ Head(queue) # NoItem
      BY <1>10, <2>9 DEF Take
    <3>2. RunOf(active') \in Runs
      BY <1>7, <1>8, <2>2, <2>4, <3>1
    <3>3. RunOf(active') \in enqueued'
      BY <1>1, <1>8, <2>2, <2>4, <3>1, <3>2 DEF PlacesInv
    <3>4. PlacesInv'
      BY <2>5, <2>6, <2>7, <3>1, <3>3 DEF PlacesInv, Holds
    <3>5. QED
      BY <1>6, <2>1, <3>4
  <2>10. QED
    BY <1>10, <2>8, <2>9 DEF Take
<1>11. ASSUME UNCHANGED <<queue, backlog, active>>, enqueued' \subseteq enqueued,
              \/ UNCHANGED enqueued /\ (worker' \in ServedPcs => worker \in ServedPcs)
              \/ /\ worker \in ServedPcs /\ worker' \notin ServedPcs
                 /\ enqueued' = enqueued \ {RunOf(active)}
       PROVE  OwnerInv'
  <2>1. PlacesInv'
    BY <1>1, <1>11 DEF PlacesInv, Separate, Distinct, Holds
  <2>2. QED
    BY <1>6, <1>11, <2>1
<1>12. CASE Load \/ Process \/ Release \/ ReadBack
  <2>1. UNCHANGED <<queue, backlog, active>> /\ enqueued' \subseteq enqueued
    BY <1>12 DEF Load, Process, Release, ReadBack, queueVars
  <2>2. \/ UNCHANGED enqueued /\ (worker' \in ServedPcs => worker \in ServedPcs)
        \/ /\ worker \in ServedPcs /\ worker' \notin ServedPcs
           /\ enqueued' = enqueued \ {RunOf(active)}
    BY <1>12 DEF Load, Process, Release, ReadBack, queueVars, ServedPcs
  <2>3. QED
    BY <1>11, <2>1, <2>2
<1>13. CASE Signal
  <2>1. worker' \in {"get", "done"} /\ UNCHANGED enqueued
    BY <1>13 DEF Signal
  <2>2. CASE Stopping
    <3>1. UNCHANGED <<queue, backlog>>
      BY <1>13, <2>2 DEF Signal
    <3>2. PlacesInv'
      BY <1>1, <2>1, <3>1 DEF PlacesInv, Separate, Distinct, Holds, ServedPcs
    <3>3. QED
      BY <1>6, <2>1, <3>2
  <2>3. CASE ~Stopping
    <3>1. FillFrom(backlog)
      BY <1>13, <2>3 DEF Signal
    <3>2. /\ Separate(queue', backlog')
          /\ \A i \in 1..Len(queue') : \/ i \in 1..Len(queue) /\ queue'[i] = queue[i]
                                       \/ \E j \in 1..Len(backlog) : queue'[i] = backlog[j]
          /\ \A i \in 1..Len(backlog') : \E j \in 1..Len(backlog) : backlog'[i] = backlog[j]
      BY <1>1, <1>7, <3>1, FilledPlaces DEF PlacesInv
    <3>3. PlacesInv'
      BY <1>1, <2>1, <3>2 DEF PlacesInv, ServedPcs
    <3>4. QED
      BY <1>6, <2>1, <3>3
  <2>4. QED
    BY <2>2, <2>3
<1>14. CASE OffloadEnds \/ Close \/ Joined \/ FinishShutdown
  BY <1>11, <1>14 DEF OffloadEnds, Close, Joined, FinishShutdown, queueVars, taskVars
<1>15. CASE Quiesce
  <2>1. UNCHANGED <<backlog, enqueued, worker, active>>
    BY <1>15 DEF Quiesce, Stop, taskVars
  <2>2. \/ queue' = queue
        \/ queue' = <<NoItem>>
    BY <1>15 DEF Quiesce, Stop
  <2>3. CASE queue' = queue
    BY <1>11, <2>1, <2>3
  <2>4. CASE queue' = <<NoItem>>
    <3>1. Len(queue') = 1 /\ queue'[1] = NoItem
      BY <2>4
    <3>2. \A i \in 1..Len(queue') : i = 1 /\ RunOf(queue'[i]) = NoRun
      BY <1>8, <3>1
    <3>3. Separate(queue', backlog')
      BY <1>1, <1>5, <1>8, <2>1, <3>2 DEF PlacesInv, Separate, Distinct
    <3>4. PlacesInv'
      BY <1>1, <1>5, <1>8, <2>1, <3>2, <3>3 DEF PlacesInv, Holds
    <3>5. QED
      BY <1>6, <2>1, <3>4
  <2>5. QED
    BY <2>2, <2>3, <2>4
<1>16. CASE AbandonPending
  <2>1. queue' = <<>> /\ backlog' = <<>> /\ enqueued' \subseteq enqueued /\ UNCHANGED worker
    BY <1>16 DEF AbandonPending, taskVars
  <2>2. worker \notin ServedPcs
    BY <1>1, <1>16 DEF AbandonPending, AdmissionInv, Unserved, ServedPcs
  <2>3. PlacesInv'
    BY <2>1, <2>2 DEF PlacesInv, Separate, Distinct
  <2>4. QED
    BY <1>6, <2>1, <2>3
<1>17. CASE GraceExpires
  <2>1. UNCHANGED <<queue, backlog>> /\ enqueued' \subseteq enqueued
    BY <1>17 DEF GraceExpires
  <2>2. CASE worker \in ServedPcs
    BY <1>11, <1>17, <2>1, <2>2 DEF GraceExpires, ServedPcs
  <2>3. CASE worker \notin ServedPcs
    <3>1. UNCHANGED enqueued /\ worker' = "done"
      BY <1>17, <2>3 DEF GraceExpires, ServedPcs
    <3>2. PlacesInv'
      BY <1>1, <2>1, <3>1 DEF PlacesInv, Separate, Distinct, ServedPcs
    <3>3. QED
      BY <1>6, <2>1, <3>2
  <2>4. QED
    BY <2>2, <2>3
<1>18. QED
  BY <1>9, <1>10, <1>12, <1>13, <1>14, <1>15, <1>16, <1>17
     DEF WorkerStep, StartWorker, ServeQueue, Serve, Offloaded, ShutDown, Expire

LEMMA OwnerStay ==
    ASSUME OwnerInv, UNCHANGED vars
    PROVE  OwnerInv'
  BY DEF OwnerInv, PlacesInv, ClaimsInv, Separate, Distinct, Holds, Submitting, Resuming,
         vars, queueVars, taskVars, clientVars

OwnedInv == BasicInv /\ OwnerInv

LEMMA InitOwned ==
    ASSUME Init
    PROVE  OwnedInv
<1>1. BasicInv
  BY InitBasic
<1>2. Len(queue) = 0 /\ Len(backlog) = 0
  BY DEF Init, WorkerInit
<1>3. PlacesInv
  BY <1>2 DEF Init, WorkerInit, PlacesInv, Separate, Distinct, ServedPcs
<1>4. ClaimsInv
  BY DEF Init, WorkerInit, ClaimsInv, Submitting, Resuming, SubmitPcs, ResumePcs
<1>5. QED
  BY <1>1, <1>3, <1>4 DEF OwnedInv, OwnerInv

LEMMA OwnedStep ==
    ASSUME OwnedInv, [Next]_vars
    PROVE  OwnedInv'
<1>1. BasicInv'
  BY BasicStep DEF OwnedInv
<1>2. OwnerInv'
  BY NextSplits, OwnerAnswer, OwnerWorker, OwnerStay DEF OwnedInv
<1>3. QED
  BY <1>1, <1>2 DEF OwnedInv

LEMMA AtMostOne ==
    ASSUME NEW S, \A x, y \in S : x = y
    PROVE  /\ IsFiniteSet(S)
           /\ Cardinality(S) = IF S = {} THEN 0 ELSE 1
<1>1. CASE S = {}
  BY <1>1, FS_EmptySet
<1>2. CASE S # {}
  <2>1. PICK x : x \in S
    BY <1>2
  <2>2. S = {x}
    BY <2>1
  <2>3. QED
    BY <1>2, <2>2, FS_Singleton
<1>3. QED
  BY <1>1, <1>2

(* Who owns a run, term by term of Owners. *)
LEMMA OwnersCounted ==
    ASSUME OwnedInv, NEW r \in Runs
    PROVE  /\ Owners(r) \in {0, 1}
           /\ Owners(r) = 1 <=> \/ Preparing(r) # {}
                                \/ Holds(queue, r) \/ Holds(backlog, r)
                                \/ worker \in ServedPcs /\ RunOf(active) = r
<1>1. TypedInv /\ PlacesInv /\ ClaimsInv /\ ReservedInv
  BY DEF OwnedInv, BasicInv, OwnerInv, CapacityInv
<1>2. /\ DOMAIN queue = 1..Len(queue) /\ DOMAIN backlog = 1..Len(backlog)
      /\ NoRun \notin Runs
  BY <1>1, SequenceFacts, RunsAssumption
<1>3. /\ Places(r, queue) = {} <=> ~Holds(queue, r)
      /\ Places(r, backlog) = {} <=> ~Holds(backlog, r)
  BY <1>2 DEF Places, Holds
<1>4. /\ \A i, j \in Places(r, queue) : i = j
      /\ \A i, j \in Places(r, backlog) : i = j
  BY <1>1, <1>2 DEF Places, PlacesInv, Separate, Distinct
<1>5. Preparing(r) = {c \in Submitting \cup Resuming : target[c] = r}
  BY DEF Preparing, Submitting, Resuming
<1>6. \A c, d \in Preparing(r) : c = d
  BY <1>1, <1>5 DEF ClaimsInv, ReservedInv, Submitting, Resuming
<1>7. /\ Cardinality(Preparing(r)) = IF Preparing(r) = {} THEN 0 ELSE 1
      /\ Cardinality(Places(r, queue)) = IF Holds(queue, r) THEN 1 ELSE 0
      /\ Cardinality(Places(r, backlog)) = IF Holds(backlog, r) THEN 1 ELSE 0
  BY <1>3, <1>4, <1>6, AtMostOne
<1>8. Serving(r) = IF worker \in ServedPcs /\ RunOf(active) = r THEN 1 ELSE 0
  BY DEF Serving, ServedPcs
<1>9. /\ Preparing(r) # {} => r \notin enqueued
      /\ Holds(queue, r) => r \in enqueued /\ ~Holds(backlog, r)
      /\ Holds(backlog, r) => r \in enqueued
      /\ worker \in ServedPcs /\ RunOf(active) = r =>
             r \in enqueued /\ ~Holds(queue, r) /\ ~Holds(backlog, r)
  BY <1>1, <1>2, <1>5 DEF PlacesInv, Separate, Holds, ClaimsInv
<1>10. QED
  BY <1>7, <1>8, <1>9 DEF Owners

(* A run is in the hands of one owner at most: a submission, a resume, the *)
(* queue or the worker.  RunLifecycle takes this as given.                 *)
THEOREM SingleOwnerHolds == Spec => []SingleOwner
<1>1. OwnedInv => SingleOwner
  BY OwnersCounted DEF SingleOwner
<1>2. QED
  BY <1>1, InitOwned, OwnedStep, PTL DEF Spec

-----------------------------------------------------------------------------
(* The status of a run against its owner, while the service runs.  A run   *)
(* is running only under the activation of the worker, and is not_started  *)
(* before its submission has ended or while it is queued; one that an      *)
(* abandoned cleanup has still to fail is known to no client.  Hence a     *)
(* reservation by name is never one of a run somebody else drives.         *)

Owned(r) ==
    \/ Preparing(r) # {}
    \/ Holds(queue, r) \/ Holds(backlog, r)
    \/ worker \in ServedPcs /\ RunOf(active) = r

RunFacts(r) ==
    /\ status[r] \in Live => Owned(r) \/ <<"fail", r>> \in offloads \/ r \in givenUp
    /\ status[r] = "running" => worker = "process" /\ RunOf(active) = r
    /\ worker = "release" /\ RunOf(active) = r => status[r] \in Terminal
    /\ status[r] = "not_started" => \/ \E c \in Submitting : target[c] = r
                                    \/ r \in enqueued
                                    \/ \A c \in Clients : target[c] # r
    /\ \A c \in Resuming : target[c] = r => status[r] \in Terminal \cup {"resuming"}

LiveInv == ~Stopping /\ ~Unserved => \A r \in Runs : RunFacts(r)

LEMMA PreparingClients ==
    ASSUME NEW r
    PROVE  Preparing(r) = {c \in Submitting \cup Resuming : target[c] = r}
  BY DEF Preparing, Submitting, Resuming

LEMMA TerminalFacts ==
    ASSUME NEW r, status'[r] \in Terminal
    PROVE  RunFacts(r)'
  BY DEF RunFacts, Terminal, Live

(* The row of the run is as before, and the run has lost no owner. *)
LEMMA FactsKept ==
    ASSUME NEW r, RunFacts(r), status'[r] = status[r],
           UNCHANGED <<worker, active, backlog>>,
           r \in enqueued => r \in enqueued',
           status[r] \in Live =>
               /\ Preparing(r) # {} => Preparing(r)' # {}
               /\ Holds(queue, r) => Holds(queue', r)
               /\ <<"fail", r>> \in offloads =>
                      <<"fail", r>> \in offloads' \/ r \in givenUp'
               /\ r \in givenUp => r \in givenUp'
               /\ \A c \in Submitting : target[c] = r => \E d \in Submitting' : target'[d] = r
           ,
           \A c \in Resuming' : target'[c] = r => c \in Resuming /\ target[c] = r,
           \A c \in Clients : target'[c] = r => target[c] = r
    PROVE  RunFacts(r)'
<1>1. status[r] \in Live => Owned(r)' \/ <<"fail", r>> \in offloads' \/ r \in givenUp'
  BY DEF RunFacts, Owned, Holds
<1>2. status'[r] = "not_started" => \/ \E c \in Submitting' : target'[c] = r
                                    \/ r \in enqueued'
                                    \/ \A c \in Clients : target'[c] # r
  BY DEF RunFacts, Live
<1>3. \A c \in Resuming' : target'[c] = r => status'[r] \in Terminal \cup {"resuming"}
  BY DEF RunFacts
<1>4. QED
  BY <1>1, <1>2, <1>3 DEF RunFacts

LEMMA AppendHolds ==
    ASSUME TypedInv, NEW q \in Runs, NEW g \in Nat, queue' = Append(queue, <<q, g>>)
    PROVE  /\ Holds(queue', q)
           /\ \A r : Holds(queue, r) => Holds(queue', r)
<1>1. <<q, g>> \in Items \cup {NoItem} /\ RunOf(<<q, g>>) = q
  BY DEF Items, RunOf
<1>2. queue \in Seq(Items \cup {NoItem}) /\ Len(queue) \in Nat
  BY SequenceFacts
<1>3. /\ Len(queue') = Len(queue) + 1
      /\ \A i \in 1..Len(queue) + 1 :
             queue'[i] = IF i = Len(queue) + 1 THEN <<q, g>> ELSE queue[i]
  BY <1>1, <1>2, AppendEffect
<1>4. Len(queue) + 1 \in 1..Len(queue') /\ queue'[Len(queue) + 1] = <<q, g>>
  BY <1>2, <1>3
<1>5. \A i \in 1..Len(queue) : i \in 1..Len(queue') /\ queue'[i] = queue[i]
  BY <1>2, <1>3
<1>6. QED
  BY <1>1, <1>4, <1>5 DEF Holds

(* A client's step leaves every run alone but the one its call is about.   *)
LEMMA OtherRunsKept ==
    ASSUME TypedInv, NEW c \in Clients, Ask(c) \/ Answer(c) \/ Quit(c), NEW r \in Runs,
           r # target[c], r # target'[c], RunFacts(r)
    PROVE  RunFacts(r)'
<1>1. ClientTypes /\ WorkerTypeOK
  BY TypedParts
<1>2. UNCHANGED <<worker, active, backlog>>
  BY DEF Ask, Answer, Quit, Submit, Resume, Cancel, Wait, Register, EnqueueSubmitted,
         DropSubmission, Admit, RefuseResume, Prepare, FinishPrepare, EnqueueResumed,
         RollBack, FailClaim, CancelCall, CancelSignals, Read, Capture, Reread, Listen,
         Wake,
         RefuseUpload, LeaveSubmission, LeaveResume, LeaveCleanup, GiveUp, GiveBack,
         LeaveCancel, Leave,
         ReserveAnonymous, EnqueueAnonymous, EnqueueReserved, Reserve, ReleaseAnonymous,
         ReleaseReservation, OnlyQueue, OnlyWait, OnlyClient, OnlyStatus, UnchangedService,
         taskVars, queueVars
<1>3. \A d \in Clients \ {c} : pc'[d] = pc[d] /\ target'[d] = target[d]
  <2>1. \E next : Goto(c, next) \/ \E q : Call(c, next, q)
    <3>1. CASE Ask(c)
      BY <3>1 DEF Ask, Submit, Resume, Cancel, Wait
    <3>2. CASE Answer(c)
      BY <3>2
         DEF Answer, Register, EnqueueSubmitted, DropSubmission, Admit, RefuseResume,
             Prepare, FinishPrepare, EnqueueResumed, RollBack, FailClaim, CancelCall,
             CancelSignals,
             Read, Capture, Reread, Listen, Wake, Return
    <3>3. CASE Quit(c)
      BY <3>3
         DEF Quit, RefuseUpload, LeaveSubmission, LeaveResume, LeaveCleanup, GiveUp,
             GiveBack, LeaveCancel,
             Leave, Return
    <3>4. QED
      BY <3>1, <3>2, <3>3
  <2>2. QED
    BY <1>1, <2>1, MovedCalls
<1>4. status'[r] = status[r]
  <2>1. /\ \A s : SetStatus(target[c], s) => status'[r] = status[r]
        /\ \A set : FailIf(target[c], set) => status'[r] = status[r]
        /\ RequestCancel(target[c]) => status'[r] = status[r]
    BY <1>1 DEF SetStatus, FailIf, RequestCancel, WorkerTypeOK
  <2>2. QED
    BY <2>1
       DEF Ask, Answer, Quit, Submit, Resume, Cancel, Wait, Register, EnqueueSubmitted,
           DropSubmission, Admit, RefuseResume, Prepare, FinishPrepare, EnqueueResumed,
           RollBack, FailClaim, CancelCall, CancelSignals, Read, Capture, Reread, Listen,
           Wake,
           RefuseUpload, LeaveSubmission, LeaveResume, LeaveCleanup, GiveUp, GiveBack,
           LeaveCancel, Leave,
           OnlyQueue, OnlyWait, OnlyClient
<1>5. offloads \subseteq offloads'
  BY DEF Ask, Answer, Quit, Submit, Resume, Cancel, Wait, Register, EnqueueSubmitted,
         DropSubmission, Admit, RefuseResume, Prepare, FinishPrepare, EnqueueResumed,
         RollBack, FailClaim, CancelCall, CancelSignals, Read, Capture, Reread, Listen,
         Wake,
         RefuseUpload, LeaveSubmission, LeaveResume, LeaveCleanup, GiveUp, GiveBack,
         LeaveCancel, Leave,
         OnlyQueue, OnlyWait, OnlyClient, OnlyStatus, UnchangedService
<1>6. (Holds(queue, r) => Holds(queue', r)) /\ (r \in enqueued => r \in enqueued')
  <2>1. CASE EnqueueSubmitted(c) \/ EnqueueResumed(c)
    <3>1. target[c] \in Runs /\ generation[target[c]] \in Nat
      BY <1>1, <2>1 DEF EnqueueSubmitted, EnqueueResumed, ClientTypes, Calling, WorkerTypeOK
    <3>2. /\ \E g \in Nat : queue' = Append(queue, <<target[c], g>>)
          /\ enqueued \subseteq enqueued'
      BY <2>1, <3>1
         DEF EnqueueSubmitted, EnqueueResumed, EnqueueAnonymous, EnqueueReserved
    <3>3. QED
      BY <3>1, <3>2, AppendHolds
  <2>2. CASE ~(EnqueueSubmitted(c) \/ EnqueueResumed(c))
    <3>1. UNCHANGED <<queue, enqueued>>
      BY <2>2
         DEF Ask, Answer, Quit, Submit, Resume, Cancel, Wait, Register, DropSubmission,
             Admit, RefuseResume, Prepare, FinishPrepare, RollBack, FailClaim, CancelCall,
             CancelSignals, Read, Capture, Reread, Listen, Wake, RefuseUpload,
             LeaveSubmission, LeaveResume, LeaveCleanup, GiveUp, GiveBack, LeaveCancel,
             Leave,
             ReserveAnonymous, Reserve, ReleaseAnonymous, ReleaseReservation, OnlyWait,
             OnlyClient, OnlyStatus, UnchangedService, queueVars
    <3>2. QED
      BY <3>1 DEF Holds
  <2>3. QED
    BY <2>1, <2>2
<1>7. /\ \A d \in Submitting : target[d] = r => d \in Submitting' /\ target'[d] = r
      /\ \A d \in Resuming : target[d] = r => d \in Resuming' /\ target'[d] = r
      /\ \A d \in Resuming' : target'[d] = r => d \in Resuming /\ target[d] = r
      /\ \A d \in Clients : target'[d] = r => target[d] = r
  BY <1>3 DEF Submitting, Resuming
<1>8. Preparing(r) # {} => Preparing(r)' # {}
  BY <1>7, PreparingClients DEF Preparing, Submitting, Resuming
<1>9. r \in givenUp => r \in givenUp'
  BY <1>4 DEF Ask, Answer, Quit, GiveUp, Claims
<1>10. QED
  BY <1>2, <1>4, <1>5, <1>6, <1>7, <1>8, <1>9, FactsKept

LEMMA LiveAnswer ==
    ASSUME OwnedInv, LiveInv, NEW c \in Clients, Ask(c) \/ Answer(c) \/ Quit(c)
    PROVE  LiveInv'
<1>1. /\ TypedInv /\ ClientTypes /\ WorkerTypeOK /\ ReservedInv /\ PlacesInv /\ ClaimsInv
      /\ NoRun \notin Runs
      /\ \A d \in Clients : IF pc[d] = "idle" THEN target[d] = NoRun ELSE target[d] \in Runs
  BY TypedParts, RunsAssumption
     DEF OwnedInv, BasicInv, CapacityInv, OwnerInv, ClientTypes, Calling
<1>2. UNCHANGED <<worker, active, backlog, shutdown>>
  BY DEF Ask, Answer, Quit, Submit, Resume, Cancel, Wait, Register, EnqueueSubmitted,
         DropSubmission, Admit, RefuseResume, Prepare, FinishPrepare, EnqueueResumed,
         RollBack, FailClaim, CancelCall, CancelSignals, Read, Capture, Reread, Listen,
         Wake,
         RefuseUpload, LeaveSubmission, LeaveResume, LeaveCleanup, GiveUp, GiveBack,
         LeaveCancel, Leave,
         ReserveAnonymous, EnqueueAnonymous, EnqueueReserved, Reserve, ReleaseAnonymous,
         ReleaseReservation, OnlyQueue, OnlyWait, OnlyClient, OnlyStatus, UnchangedService,
         taskVars, queueVars
<1>3. SUFFICES ASSUME ~Stopping, ~Unserved, NEW r \in Runs, r = target[c] \/ r = target'[c]
               PROVE  RunFacts(r)'
  BY <1>1, <1>2, OtherRunsKept DEF LiveInv, Stopping, Unserved
<1>4. \A q \in Runs : RunFacts(q)
  BY <1>3 DEF LiveInv
<1>5. /\ r \notin enqueued => ~Holds(queue, r) /\ ~Holds(backlog, r)
      /\ r \notin enqueued => ~(worker \in ServedPcs /\ RunOf(active) = r)
  BY <1>1 DEF PlacesInv, Holds
<1>6. /\ status[r] = "running" => r \in enqueued
      /\ status'[r] = status[r] /\ r \in givenUp => r \in givenUp'
  <2>1. status[r] = "running" => r \in enqueued
    BY <1>4, <1>5 DEF RunFacts, ServedPcs
  <2>2. status'[r] = status[r] /\ r \in givenUp => r \in givenUp'
    BY DEF Ask, Answer, Quit, GiveUp, Claims
  <2>3. QED
    BY <2>1, <2>2
<1>7. CASE Submit(c)
  <2>1. PICK q \in Fresh : Call(c, "register", q)
    BY <1>7 DEF Submit
  <2>2. /\ Submitting' = Submitting \cup {c} /\ Resuming' = Resuming \ {c}
        /\ \A d \in Clients \ {c} : pc'[d] = pc[d] /\ target'[d] = target[d]
        /\ target'[c] = q
    BY <1>1, <2>1, MovedCalls DEF SubmitPcs, ResumePcs
  <2>3. pc[c] = "idle" /\ UNCHANGED <<status, enqueued>>
    BY <1>7 DEF Submit, ReserveAnonymous, OnlyQueue
  <2>4. r = q /\ status[r] = "absent"
    BY <1>1, <1>3, <2>1, <2>2, <2>3 DEF Fresh
  <2>5. \A d \in Resuming' : target'[d] # r
    BY <1>4, <2>2, <2>4 DEF RunFacts, Terminal, Resuming
  <2>6. QED
    BY <1>2, <1>4, <2>3, <2>4, <2>5 DEF RunFacts, Live, Terminal
<1>8. CASE Resume(c) \/ Cancel(c) \/ Wait(c)
  <2>1. PICK q \in Known, next \in {"admit", "cancel", "read"} : Call(c, next, q)
    BY <1>8 DEF Resume, Cancel, Wait
  <2>2. /\ Submitting' = Submitting \ {c} /\ Resuming' = Resuming \ {c}
        /\ \A d \in Clients \ {c} : pc'[d] = pc[d] /\ target'[d] = target[d]
        /\ target'[c] = q
    BY <1>1, <2>1, MovedCalls DEF SubmitPcs, ResumePcs
  <2>3. pc[c] = "idle" /\ UNCHANGED <<status, queue, enqueued, offloads>>
    BY <1>8
       DEF Resume, Cancel, Wait, OnlyClient, OnlyWait, UnchangedService, queueVars
  <2>4. /\ r = q /\ \A d \in Submitting : target[d] # r
        /\ status[r] = "not_started" => <<"fail", r>> \notin offloads /\ r \notin givenUp
    BY <1>1, <1>3, <2>1, <2>2, <2>3 DEF Known, InSubmission, Submitting
  <2>5. /\ \A d \in Resuming : d \in Resuming' /\ target'[d] = target[d]
        /\ \A d \in Resuming' : d \in Resuming /\ target'[d] = target[d]
    BY <2>2, <2>3 DEF Resuming, ResumePcs
  <2>6. status[r] = "not_started" => r \in enqueued
    <3>1. status[r] = "not_started" => Owned(r) /\ \A d \in Resuming : target[d] # r
      BY <1>4, <2>4 DEF RunFacts, Live, Terminal
    <3>2. QED
      BY <1>5, <2>4, <3>1, PreparingClients DEF Owned
  <2>7. Preparing(r) # {} => Preparing(r)' # {}
    BY <2>4, <2>5 DEF Preparing, Submitting, Resuming
  <2>8. Owned(r) => Owned(r)'
    BY <1>2, <2>3, <2>7 DEF Owned, Holds
  <2>9. QED
    BY <1>2, <1>4, <1>6, <2>3, <2>5, <2>6, <2>8 DEF RunFacts
<1>9. CASE Register(c)
  <2>1. /\ Submitting' = Submitting \cup {c} /\ Resuming' = Resuming \ {c}
        /\ target' = target /\ UNCHANGED <<queue, enqueued>>
    BY <1>1, <1>9, MovedCalls DEF Register, SubmitPcs, ResumePcs, OnlyStatus, queueVars
  <2>2. r = target[c] /\ c \in Submitting /\ c \notin Resuming
    BY <1>3, <1>9, <2>1 DEF Register, Submitting, Resuming, SubmitPcs, ResumePcs
  <2>3. status'[r] = "not_started"
    BY <1>1, <1>9, <2>2 DEF Register, SetStatus, WorkerTypeOK
  <2>4. r \notin enqueued /\ \A d \in Resuming : target[d] # r
    BY <1>1, <2>2 DEF ClaimsInv, Resuming
  <2>5. ~(worker = "release" /\ RunOf(active) = r)
    BY <1>5, <2>4 DEF ServedPcs
  <2>6. c \in Preparing(r)'
    BY <1>9, <2>1, <2>2 DEF Preparing, Submitting
  <2>7. QED
    BY <1>2, <2>1, <2>2, <2>3, <2>4, <2>5, <2>6 DEF RunFacts, Owned
<1>10. CASE EnqueueSubmitted(c) \/ EnqueueResumed(c)
  <2>1. Call(c, "idle", NoRun) /\ UNCHANGED <<status, offloads>>
    BY <1>10 DEF EnqueueSubmitted, EnqueueResumed, Return, OnlyQueue, UnchangedService
  <2>2. /\ Resuming' = Resuming \ {c}
        /\ \A d \in Clients \ {c} : target'[d] = target[d]
        /\ target'[c] = NoRun
    BY <1>1, <2>1, MovedCalls DEF ResumePcs
  <2>3. r = target[c] /\ generation[r] \in Nat
    BY <1>1, <1>3, <2>2 DEF WorkerTypeOK
  <2>4. r \in enqueued' /\ \E g \in Nat : queue' = Append(queue, <<r, g>>)
    BY <1>10, <2>3 DEF EnqueueSubmitted, EnqueueResumed, EnqueueAnonymous, EnqueueReserved
  <2>5. Holds(queue', r)
    BY <1>1, <2>4, AppendHolds
  <2>6. Owned(r)'
    BY <2>5 DEF Owned, Holds
  <2>7. QED
    BY <1>2, <1>4, <2>1, <2>2, <2>4, <2>6 DEF RunFacts, Resuming
<1>11. CASE Admit(c)
  <2>1. /\ Submitting' = Submitting \ {c} /\ Resuming' = Resuming \cup {c}
        /\ target' = target /\ UNCHANGED <<status, queue, enqueued>>
    BY <1>1, <1>11, MovedCalls DEF Admit, SubmitPcs, ResumePcs, Reserve, OnlyQueue
  <2>2. r = target[c] /\ pc[c] = "admit" /\ r \notin enqueued
    BY <1>3, <1>11, <2>1 DEF Admit, Reserve, Reservable
  <2>3. c \notin Submitting /\ status[r] # "absent" /\ status[r] # "running"
    BY <1>1, <1>6, <2>2 DEF ClaimsInv, Submitting, SubmitPcs
  <2>4. \A d \in Submitting : target[d] # r
    BY <1>1, <2>2, <2>3 DEF ClaimsInv
  <2>5. status[r] # "not_started"
    BY <1>4, <2>2, <2>4 DEF RunFacts
  <2>6. status[r] \in Terminal \cup {"resuming"}
    BY <1>1, <2>3, <2>5 DEF WorkerTypeOK, RunStatuses, Terminal
  <2>7. c \in Preparing(r)'
    BY <2>1, <2>2 DEF Preparing, Resuming
  <2>8. QED
    BY <1>2, <1>4, <2>1, <2>3, <2>5, <2>6, <2>7 DEF RunFacts, Owned
<1>12. CASE Prepare(c) /\ ~UNCHANGED status
  <2>1. /\ Submitting' = Submitting \ {c} /\ Resuming' = Resuming \cup {c}
        /\ target' = target /\ SetStatus(target[c], "resuming")
    BY <1>1, <1>12, MovedCalls DEF Prepare, SubmitPcs, ResumePcs
  <2>2. r = target[c] /\ c \in Resuming
    BY <1>3, <1>12, <2>1 DEF Prepare, Resuming, ResumePcs
  <2>3. status'[r] = "resuming" /\ r \notin enqueued
    BY <1>1, <2>1, <2>2 DEF SetStatus, WorkerTypeOK, ClaimsInv
  <2>4. c \in Preparing(r)'
    BY <2>1, <2>2 DEF Preparing, Resuming
  <2>5. ~(worker = "release" /\ RunOf(active) = r)
    BY <1>5, <2>3 DEF ServedPcs
  <2>6. QED
    BY <1>2, <2>3, <2>4, <2>5 DEF RunFacts, Owned
<1>13. ASSUME UNCHANGED <<status, queue, enqueued>>, offloads \subseteq offloads',
              \/ Return(c) /\ pc[c] \notin SubmitPcs \cup ResumePcs
              \/ \E next : /\ Goto(c, next)
                           /\ pc[c] \in SubmitPcs <=> next \in SubmitPcs
                           /\ pc[c] \in ResumePcs <=> next \in ResumePcs
       PROVE  RunFacts(r)'
  <2>1. PICK next : /\ Goto(c, next) \/ (Call(c, next, NoRun) /\ next = "idle")
                    /\ pc[c] \in SubmitPcs <=> next \in SubmitPcs
                    /\ pc[c] \in ResumePcs <=> next \in ResumePcs
    BY <1>13 DEF Return, SubmitPcs, ResumePcs
  <2>2. /\ Submitting' = Submitting /\ Resuming' = Resuming
        /\ \A d \in Clients \ {c} : target'[d] = target[d]
        /\ target' = target \/ (target'[c] = NoRun /\ next = "idle")
    BY <1>1, <2>1, MovedCalls DEF Submitting, Resuming
  <2>3. c \in Submitting \cup Resuming => target' = target
    BY <2>1, <2>2 DEF Submitting, Resuming, SubmitPcs, ResumePcs
  <2>4. /\ \A d \in Submitting \cup Resuming : target'[d] = target[d]
        /\ \A d \in Clients : target'[d] = r => target[d] = r
    BY <1>1, <2>2, <2>3 DEF Submitting, Resuming
  <2>5. Preparing(r) # {} => Preparing(r)' # {}
    BY <2>2, <2>4, PreparingClients DEF Preparing, Submitting, Resuming
  <2>6. QED
    BY <1>2, <1>4, <1>6, <1>13, <2>2, <2>4, <2>5, FactsKept
<1>14. CASE RefuseUpload(c) \/ LeaveSubmission(c) \/ LeaveResume(c)
            \/ ((Prepare(c) \/ FinishPrepare(c)) /\ UNCHANGED status)
            \/ (RollBack(c) /\ status[target[c]] = "resuming")
  <2>1. UNCHANGED <<status, queue, enqueued, offloads>>
    BY <1>14
       DEF RefuseUpload, LeaveSubmission, LeaveResume, Prepare, FinishPrepare, RollBack,
           OnlyStatus, OnlyClient, OnlyWait, UnchangedService, queueVars
  <2>2. QED
    BY <1>13, <1>14, <2>1
       DEF RefuseUpload, LeaveSubmission, LeaveResume, Prepare, FinishPrepare, RollBack,
           SubmitPcs, ResumePcs
<1>15. CASE RefuseResume(c) \/ CancelSignals(c) \/ LeaveCancel(c) \/ Read(c) \/ Capture(c)
            \/ Reread(c) \/ Listen(c) \/ Wake(c) \/ Leave(c)
            \/ (CancelCall(c) /\ UNCHANGED status)
  <2>1. UNCHANGED <<status, queue, enqueued>> /\ offloads \subseteq offloads'
    BY <1>15
       DEF RefuseResume, CancelSignals, LeaveCancel, Read, Capture, Reread, Listen, Wake,
           Leave, CancelCall, OnlyStatus, OnlyClient, OnlyWait, UnchangedService, queueVars
  <2>2. /\ pc[c] \notin SubmitPcs \cup ResumePcs
        /\ Return(c) \/ \E next \in CancelPcs \cup WaitPcs : Goto(c, next)
    BY <1>15
       DEF RefuseResume, CancelSignals, LeaveCancel, Read, Capture, Reread, Listen, Wake,
           Leave, CancelCall, CancelPcs, WaitPcs, SubmitPcs, ResumePcs
  <2>3. QED
    BY <1>13, <2>1, <2>2 DEF CancelPcs, WaitPcs, SubmitPcs, ResumePcs
<1>16. CASE (CancelCall(c) \/ FinishPrepare(c)) /\ ~UNCHANGED status
  <2>1. r = target[c]
    BY <1>1, <1>3, <1>16 DEF CancelCall, FinishPrepare, Goto, Return, Call, ClientTypes
  <2>2. status'[r] = "failed"
    BY <1>1, <1>16, <2>1
       DEF CancelCall, FinishPrepare, RequestCancel, FailIf, SetStatus, WorkerTypeOK
  <2>3. QED
    BY <2>2, TerminalFacts DEF Terminal
<1>17. CASE FailClaim(c) \/ (RollBack(c) /\ status[target[c]] # "resuming")
  <2>1. r = target[c] /\ c \in Resuming
    BY <1>1, <1>3, <1>17
       DEF RollBack, FailClaim, Return, Call, ClientTypes, Resuming, ResumePcs
  <2>2. status[r] \in Terminal \cup {"resuming"}
    BY <1>4, <2>1 DEF RunFacts
  <2>3. status'[r] \in Terminal
    BY <1>1, <1>17, <2>1, <2>2
       DEF RollBack, FailClaim, FailIf, SetStatus, WorkerTypeOK, Terminal, Live
  <2>4. QED
    BY <2>3, TerminalFacts
<1>18. CASE DropSubmission(c)
  <2>1. Call(c, "idle", NoRun) /\ UNCHANGED <<queue, enqueued>>
    BY <1>18 DEF DropSubmission, Return, ReleaseAnonymous
  <2>2. /\ Resuming' = Resuming \ {c} /\ target'[c] = NoRun
        /\ \A d \in Clients \ {c} : target'[d] = target[d]
    BY <1>1, <2>1, MovedCalls DEF ResumePcs
  <2>3. r = target[c]
    BY <1>1, <1>3, <2>2
  <2>4. \/ status'[r] \in Terminal
        \/ status'[r] = status[r] /\ status[r] \notin Live
    BY <1>1, <1>18, <2>3 DEF DropSubmission, FailIf, SetStatus, WorkerTypeOK, Terminal
  <2>5. CASE status'[r] = status[r] /\ status[r] \notin Live
    <3>1. /\ \A d \in Clients : target'[d] = r => target[d] = r
          /\ \A d \in Resuming' : d \in Resuming /\ (target'[d] = r => target[d] = r)
      BY <1>1, <2>2 DEF Resuming
    <3>2. QED
      BY <1>2, <1>4, <2>1, <2>5, <3>1, FactsKept
  <2>6. QED
    BY <2>4, <2>5, TerminalFacts
<1>19. CASE LeaveCleanup(c) \/ GiveUp(c)
  <2>1. /\ Call(c, "idle", NoRun) /\ UNCHANGED <<status, queue, enqueued>>
        /\ offloads \subseteq offloads'
        /\ \/ <<"fail", target[c]>> \in offloads'
           \/ status[target[c]] \in Live => target[c] \in givenUp'
    BY <1>19 DEF LeaveCleanup, GiveUp, GiveBack, Return, ReleaseAnonymous,
                 ReleaseReservation, UnchangedService
  <2>2. c \in Submitting \/ c \in Resuming
    BY <1>19 DEF LeaveCleanup, GiveUp, Submitting, SubmitPcs, Resuming, ResumePcs
  <2>3. /\ Resuming' = Resuming \ {c} /\ target'[c] = NoRun
        /\ \A d \in Clients \ {c} : target'[d] = target[d]
    BY <1>1, <2>1, MovedCalls DEF ResumePcs
  <2>4. r = target[c]
    BY <1>1, <1>3, <2>3
  <2>5. status'[r] = "not_started" => \A d \in Clients : target'[d] # r
    <3>1. status[r] = "not_started" => c \in Submitting
      BY <1>4, <2>2, <2>4 DEF RunFacts, Terminal
    <3>2. QED
      BY <1>1, <2>1, <2>3, <2>4, <3>1 DEF ClaimsInv
  <2>6. QED
    BY <1>2, <1>4, <2>1, <2>3, <2>4, <2>5 DEF RunFacts, Resuming
<1>20. CASE Ask(c)
  BY <1>7, <1>8, <1>20 DEF Ask
<1>21. CASE RollBack(c)
  BY <1>14, <1>17, <1>21
<1>22. CASE Answer(c)
  BY <1>9, <1>10, <1>11, <1>12, <1>14, <1>15, <1>16, <1>17, <1>18, <1>21, <1>22 DEF Answer
<1>23. CASE Quit(c)
  BY <1>14, <1>15, <1>19, <1>23 DEF Quit
<1>24. QED
  BY <1>20, <1>22, <1>23

LEMMA LiveWorker ==
    ASSUME OwnedInv, LiveInv, WorkerStep
    PROVE  LiveInv'
<1>1. /\ TypedInv /\ WorkerTypeOK /\ AdmissionInv /\ PlacesInv /\ ClaimsInv
      /\ Len(queue) <= Capacity /\ NoRun \notin Runs
      /\ worker \in HoldingPcs => active \in Items
  BY TypedParts, QueueWithinCapacity, RunsAssumption
     DEF OwnedInv, BasicInv, CapacityInv, OwnerInv
<1>2. /\ UNCHANGED <<Submitting, Resuming, target>>
      /\ \A r : Preparing(r)' = Preparing(r)
      /\ givenUp \subseteq givenUp'
  BY WorkerKeepsClients DEF clientVars, Submitting, Resuming, Preparing, Offloaded
<1>3. SUFFICES ASSUME ~Stopping', ~Unserved', NEW r \in Runs
               PROVE  RunFacts(r)'
  BY DEF LiveInv
<1>4. ~Stopping /\ (~Unserved \/ Start)
  <2>1. CASE StartWorker
    BY <1>3, <2>1 DEF StartWorker, Start, Stopping
  <2>2. CASE ServeQueue
    BY <1>3, <2>2
       DEF ServeQueue, Serve, Take, Load, Process, Release, ReadBack, Signal, Stopping,
           Unserved
  <2>3. CASE Offloaded \/ Close
    BY <1>3, <2>3 DEF Offloaded, OffloadEnds, Close, Stopping, Unserved, taskVars
  <2>4. CASE ShutDown \/ Expire
    BY <1>3, <2>4
       DEF ShutDown, Quiesce, Stop, Joined, AbandonPending, FinishShutdown, Expire,
           GraceExpires, Stopping
  <2>5. QED
    BY <2>1, <2>2, <2>3, <2>4 DEF WorkerStep
<1>5. ~Unserved => \A q \in Runs : RunFacts(q)
  BY <1>4 DEF LiveInv
<1>6. /\ r \notin enqueued => ~Holds(queue, r) /\ ~Holds(backlog, r)
      /\ r \in enqueued => \A c \in Resuming : target[c] # r
      /\ worker \in ServedPcs => RunOf(active) \in enqueued /\ RunOf(active) \in Runs
  <2>1. enqueued \subseteq Runs
    BY <1>1 DEF WorkerTypeOK
  <2>2. r \notin enqueued => ~Holds(queue, r) /\ ~Holds(backlog, r)
    BY <1>1 DEF PlacesInv, Holds
  <2>3. QED
    BY <1>1, <2>1, <2>2 DEF PlacesInv, ClaimsInv
<1>7. /\ queue \in Seq(Items \cup {NoItem}) /\ backlog \in Seq(Items)
      /\ Len(queue) \in Nat /\ Len(backlog) \in Nat
  BY <1>1, SequenceFacts
<1>8. CASE Start
  <2>1. /\ Len(queue) = 0 /\ queue = <<>>
        /\ \A c \in Clients : pc[c] = "idle"
        /\ status[r] \in {"absent", "resuming", "failed"}
    BY <1>1, <1>8 DEF Start, AdmissionInv, Unstarted
  <2>2. Submitting = {} /\ Resuming = {}
    BY <2>1 DEF Submitting, Resuming, SubmitPcs, ResumePcs
  <2>3. UNCHANGED status /\ worker' = "get" /\ generation' \in [Runs -> Nat]
    BY <1>1, <1>8 DEF Start, WorkerTypeOK, Recoverable
  <2>4. PICK order \in Orders(Recoverable) :
            FillFrom([i \in DOMAIN order |-> <<order[i], generation'[order[i]]>>])
    BY <1>8 DEF Start
  <2> DEFINE items == [i \in DOMAIN order |-> <<order[i], generation'[order[i]]>>]
  <2>5. /\ items \in Seq(Items)
        /\ \A i \in 1..Len(items) : items[i] = <<order[i], generation'[order[i]]>>
        /\ \A i, j \in 1..Len(items) : order[i] = order[j] => i = j
        /\ \A q \in Recoverable : \E i \in 1..Len(items) : order[i] = q
    <3>1. /\ items \in Seq(Items)
          /\ \A i \in 1..Len(items) : items[i] = <<order[i], generation'[order[i]]>>
      BY <1>1, <2>3, RecoveredItems
    <3>2. \A i, j \in 1..Len(items) : order[i] = order[j] => i = j
      BY <1>1, <2>3, RecoveredItems
    <3>3. \A q \in Recoverable : \E i \in 1..Len(items) : order[i] = q
      BY <1>1, <2>3, RecoveredItems
    <3>4. QED
      BY <3>1, <3>2, <3>3
  <2>6. FillFrom(items)
    BY <2>4
  <2> HIDE DEF items
  <2>7. Separate(queue, items) /\ \A q \in Recoverable : Holds(items, q)
    BY <2>1, <2>5 DEF Separate, Distinct, Holds, RunOf
  <2>8. r \in Recoverable => Holds(queue', r) \/ Holds(backlog', r)
    BY <1>1, <2>5, <2>6, <2>7, FilledPlaces
  <2>9. status[r] \in Live => Owned(r)'
    BY <2>1, <2>8 DEF Recoverable, Live, Owned, Holds
  <2>10. QED
    BY <1>2, <2>1, <2>2, <2>3, <2>9 DEF RunFacts
<1>9. ASSUME ~Unserved, UNCHANGED <<status, enqueued, offloads>>, worker # "process",
             worker' = "release" => status[RunOf(active')] \in Terminal,
             Owned(r) => Owned(r)'
      PROVE  RunFacts(r)'
  BY <1>2, <1>5, <1>9 DEF RunFacts
<1>10. CASE Take
  <2>1. /\ queue # <<>> /\ queue' = Tail(queue) /\ UNCHANGED <<status, backlog, offloads>>
        /\ worker = "get" /\ worker' = "load" /\ active' = Head(queue) /\ UNCHANGED enqueued
    BY <1>3, <1>10 DEF Take, Unserved
  <2>2. /\ Len(queue') = Len(queue) - 1 /\ Head(queue) = queue[1]
        /\ \A i \in 1..Len(queue') : queue'[i] = queue[i + 1]
    BY <1>7, <2>1, HeadTailProperties
  <2>3. Holds(queue, r) => Holds(queue', r) \/ RunOf(active') = r
    <3>1. ASSUME NEW i \in 1..Len(queue), RunOf(queue[i]) = r, i # 1
          PROVE  Holds(queue', r)
      <4>1. i - 1 \in 1..Len(queue') /\ (i - 1) + 1 = i
        BY <1>7, <2>2, <3>1
      <4>2. queue'[i - 1] = queue[(i - 1) + 1]
        BY <2>2, <4>1
      <4>3. QED
        BY <3>1, <4>1, <4>2 DEF Holds
    <3>2. QED
      BY <2>1, <2>2, <3>1 DEF Holds
  <2>4. Owned(r) => Owned(r)'
    BY <1>2, <2>1, <2>3 DEF Owned, ServedPcs, Holds
  <2>5. QED
    BY <1>9, <2>1, <2>4 DEF Unserved
<1>11. CASE Load
  <2>1. /\ UNCHANGED <<status, queue, backlog, active, enqueued, offloads>>
        /\ worker = "load" /\ worker' \in {"process", "release"}
        /\ worker' = "release" => status[RunOf(active)] \in Terminal
    BY <1>11 DEF Load, queueVars
  <2>2. Owned(r) => Owned(r)'
    BY <1>2, <2>1 DEF Owned, ServedPcs, Holds
  <2>3. QED
    BY <1>9, <2>1, <2>2 DEF Unserved
<1>12. CASE Process
  <2>1. /\ worker = "process" /\ UNCHANGED <<queue, backlog, active, enqueued, offloads>>
        /\ worker' \in {"process", "release"}
        /\ worker' = "release" => UNCHANGED status /\ status[RunOf(active)] \in Terminal
        /\ \/ UNCHANGED status
           \/ SetStatus(RunOf(active), "running")
           \/ \E s \in Terminal : SetStatus(RunOf(active), s)
    BY <1>12 DEF Process, ProcessorCall, queueVars, Terminal
  <2>2. RunOf(active) \in enqueued /\ RunOf(active) \in Runs /\ ~Unserved
    BY <1>6, <2>1 DEF ServedPcs, Unserved
  <2>3. Owned(r) => Owned(r)'
    BY <1>2, <2>1 DEF Owned, ServedPcs, Holds
  <2>4. CASE status'[r] = status[r] /\ worker' = "process"
    BY <1>2, <1>5, <2>1, <2>2, <2>3, <2>4 DEF RunFacts
  <2>5. CASE status'[r] \in Terminal
    BY <2>5, TerminalFacts
  <2>6. CASE status'[r] = "running" /\ r = RunOf(active) /\ worker' = "process"
    <3>1. Owned(r)'
      BY <2>1, <2>6 DEF Owned, ServedPcs
    <3>2. QED
      BY <1>2, <1>6, <2>1, <2>2, <2>6, <3>1 DEF RunFacts
  <2>7. CASE worker' = "release" /\ r # RunOf(active)
    BY <1>2, <1>5, <2>1, <2>2, <2>3, <2>7 DEF RunFacts
  <2>8. QED
    BY <1>1, <2>1, <2>4, <2>5, <2>6, <2>7 DEF SetStatus, WorkerTypeOK
<1>13. CASE Release
  <2>1. /\ worker = "release" /\ worker' = "read" /\ enqueued' = enqueued \ {RunOf(active)}
        /\ UNCHANGED <<status, queue, backlog, active, offloads>>
    BY <1>13 DEF Release
  <2>2. CASE r = RunOf(active)
    <3>1. status'[r] \in Terminal
      BY <1>5, <2>1, <2>2 DEF RunFacts, Unserved
    <3>2. QED
      BY <3>1, TerminalFacts
  <2>3. CASE r # RunOf(active)
    <3>1. Owned(r) => Owned(r)'
      BY <1>2, <2>1, <2>3 DEF Owned, Holds
    <3>2. QED
      BY <1>2, <1>5, <2>1, <2>3, <3>1 DEF RunFacts, Unserved
  <2>4. QED
    BY <2>2, <2>3
<1>14. CASE ReadBack
  <2>1. /\ UNCHANGED <<status, queue, backlog, active, enqueued, offloads>>
        /\ worker = "read" /\ worker' = "signal"
    BY <1>14 DEF ReadBack, queueVars
  <2>2. Owned(r) => Owned(r)'
    BY <1>2, <2>1 DEF Owned, ServedPcs, Holds
  <2>3. QED
    BY <1>9, <2>1, <2>2 DEF Unserved
<1>15. CASE Signal
  <2>1. /\ UNCHANGED <<status, enqueued, offloads>> /\ worker = "signal" /\ worker' = "get"
        /\ FillFrom(backlog)
    BY <1>4, <1>15 DEF Signal
  <2>2. Holds(queue, r) \/ Holds(backlog, r) => Holds(queue', r) \/ Holds(backlog', r)
    BY <1>1, <1>7, <2>1, FilledPlaces DEF PlacesInv
  <2>3. Owned(r) => Owned(r)'
    BY <1>2, <2>1, <2>2 DEF Owned, ServedPcs, Holds
  <2>4. QED
    BY <1>9, <2>1, <2>3 DEF Unserved
<1>16. CASE Offloaded
  <2>1. UNCHANGED <<queue, backlog, enqueued, worker, active>>
    BY <1>16 DEF Offloaded, OffloadEnds, queueVars, taskVars
  <2>2. PICK call \in offloads :
            /\ offloads' = offloads \ {call}
            /\ \/ call[1] = "cancel" /\ RequestCancel(call[2])
               \/ call[1] = "fail" /\ (FailIf(call[2], Live) \/ UNCHANGED status)
    BY <1>1, <1>4, <1>16 DEF Offloaded, OffloadEnds, AdmissionInv
  <2>3. ~Unserved
    BY <1>3, <2>1 DEF Unserved
  <2>4. status'[r] = "failed" \/ status'[r] = status[r]
    BY <1>1, <2>2 DEF RequestCancel, FailIf, SetStatus, WorkerTypeOK
  <2>5. CASE status'[r] = status[r]
    <3>1. status[r] \in Live /\ <<"fail", r>> \in offloads =>
              <<"fail", r>> \in offloads' \/ r \in givenUp'
      BY <1>16, <2>5 DEF Offloaded, FailureLost
    <3>2. QED
      BY <1>2, <1>5, <2>1, <2>2, <2>3, <2>5, <3>1, FactsKept
  <2>6. QED
    BY <2>4, <2>5, TerminalFacts DEF Terminal
<1>17. CASE Close
  <2>1. /\ UNCHANGED <<status, queue, backlog, enqueued, worker, active, offloads>>
        /\ ~Unserved
    BY <1>3, <1>17 DEF Close, queueVars, taskVars, Unserved
  <2>2. QED
    BY <1>2, <1>5, <2>1, FactsKept
<1>18. QED
  BY <1>3, <1>8, <1>10, <1>11, <1>12, <1>13, <1>14, <1>15, <1>16, <1>17
     DEF WorkerStep, StartWorker, ServeQueue, Serve, ShutDown, Quiesce, Stop, Joined,
         AbandonPending, FinishShutdown, Expire, GraceExpires, Stopping

(* A run that is not terminal has an owner while the service runs, or is   *)
(* about to be failed by an abandoned cleanup, whichever client leaves and *)
(* at whichever await.  A run is lost until the next restart only when it  *)
(* never ran and its cleanup was itself interrupted or raised.             *)
THEOREM LiveRunsOwnedHolds == Spec => []LiveRunsOwned
<1>1. OwnedInv /\ LiveInv => LiveRunsOwned
  <2>1. SUFFICES ASSUME OwnedInv, LiveInv, ~Unserved, ~Stopping,
                        NEW r \in Runs, status[r] \in Live
                 PROVE  \/ Owners(r) = 1
                        \/ <<"fail", r>> \in offloads
                        \/ r \in givenUp /\ status[r] # "running"
    BY DEF LiveRunsOwned
  <2>2. RunFacts(r)
    BY <2>1 DEF LiveInv
  <2>3. Owned(r) => Owners(r) = 1
    BY <2>1, OwnersCounted DEF Owned
  <2>4. status[r] = "running" => Owned(r)
    BY <2>2 DEF RunFacts, Owned, ServedPcs
  <2>5. QED
    BY <2>1, <2>2, <2>3, <2>4 DEF RunFacts
<1>2. Init => LiveInv
  BY DEF Init, WorkerInit, LiveInv, Unserved
<1>3. OwnedInv /\ LiveInv /\ [Next]_vars => LiveInv'
  <2>1. ASSUME LiveInv, UNCHANGED vars PROVE LiveInv'
    BY <2>1
       DEF LiveInv, RunFacts, Owned, Holds, Preparing, Submitting, Resuming, Stopping,
           Unserved, vars, queueVars, taskVars, clientVars
  <2>2. QED
    BY <2>1, NextSplits, LiveAnswer, LiveWorker
<1>4. QED
  BY <1>1, <1>2, <1>3, InitOwned, OwnedStep, PTL DEF Spec

===============================================================================
