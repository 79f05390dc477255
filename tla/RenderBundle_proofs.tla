------------------------- MODULE RenderBundle_proofs -------------------------
(***************************************************************************)
(* RenderBundle for every number of pages and renders and every set of     *)
(* faults: types, RenderUnblocked, and that it implements RenderContract.  *)
(*                                                                         *)
(* The inductive invariant says, for each step of the program, how much of *)
(* the bundle is there: nothing from the start of a render until its       *)
(* images are placed and after a recovery's last step, no manifest once a  *)
(* recovery withdrew it, everything synchronized when the bundle is bound; *)
(* and a bound bundle is the one on disk, with nothing left unsynchronized.*)
(***************************************************************************)
EXTENDS RenderBundle, TLAPS

USE RenderAssumption, EntryAssumption DEF RenderAssumption, EntryAssumption

Clean == images \in {Missing, Empty} /\ manifest = None

Synced == imagesMay = {images} /\ manifestMay = {manifest}

BoundWhole ==
    bound # None =>
        /\ bound = manifest /\ images = manifest /\ manifest.pages = NumPages
        /\ Synced
        /\ pc \in {"pages", "verify", "fail", "idle", "down", "recover", "refused"}

(* What is on disk at the steps that rely on it. *)
Staged ==
    /\ pc \in {"check", "stage", "place"} => Clean
    /\ pc \in {"syncManifest", "moveImages", "syncImages", "makeImages", "syncMade"} =>
         manifest = None
    /\ pc \in {"syncImages", "makeImages"} => images \in {Missing, Empty}
    /\ pc = "syncMade" => images = Empty
    /\ pc = "bind" => Synced

(* A render that publishes has all its pages. *)
Rendering ==
    /\ pc \in {"stage", "place", "syncPlace", "link", "syncLink"} => render # 0
    /\ pc \in {"place", "syncPlace", "link", "syncLink"} => staged = NumPages

IInv == TypeOK /\ BoundWhole /\ Staged /\ Rendering

(* The initial state has an empty bundle. *)
LEMMA InitIInv == Init => IInv
  BY DEF Init, IInv, TypeOK, BoundWhole, Staged, Rendering, Clean, Synced, Entries,
         Running, RecoverPcs, RenderPcs, HandlerPcs, Renders

(* The manifest of a complete render describes that render. *)
LEMMA WholeRender ==
  ASSUME TypeOK, Rendering, pc \in {"place", "syncPlace", "link", "syncLink"}
  PROVE  [render |-> render, pages |-> staged] \in Renders
  BY DEF TypeOK, Rendering, Renders

(* Every step keeps the types. *)
LEMMA TypeStep == IInv /\ [Next]_vars => TypeOK'
<1> SUFFICES ASSUME IInv, [Next]_vars PROVE TypeOK'
  OBVIOUS
<1>0. TypeOK /\ Rendering
  BY DEF IInv
<1> USE <1>0 DEF TypeOK, vars, runVars, mayVars, diskVars, Running, RecoverPcs, RenderPcs,
        HandlerPcs, Entries, Step, Goto, SetImages, SetManifest, Sync
<1>1. CASE RefuseRender \/ StartRender \/ RenderPage \/ RenderFails \/ StageManifest
  BY <1>1 DEF RefuseRender, StartRender, RenderPage, RenderFails, StageManifest
<1>2. CASE PlaceImages \/ LinkManifest
  BY <1>2, WholeRender DEF PlaceImages, LinkManifest
<1>3. CASE SyncPlace \/ SyncLink \/ PublishFails
  BY <1>3 DEF SyncPlace, SyncLink, PublishFails
<1>4. CASE SetAside \/ SyncAside \/ MakeAgain \/ SyncAgain \/ HandlerFails
  BY <1>4 DEF SetAside, SyncAside, MakeAgain, SyncAgain, HandlerFails
<1>5. CASE Bind \/ BindFails \/ Verify \/ PagesFail \/ Fail
  BY <1>5 DEF Bind, BindFails, Verify, PagesFail, Fail
<1>6. CASE RefuseRecovery \/ RecoverNothing \/ RecoverLoose
  <2>1. CASE RefuseRecovery
    BY <2>1 DEF RefuseRecovery, RecoveryRaises
  <2>2. CASE RecoverNothing
    BY <2>2 DEF RecoverNothing, Recovered
  <2>3. CASE RecoverLoose
    BY <2>3 DEF RecoverLoose
  <2> QED
    BY <1>6, <2>1, <2>2, <2>3
<1>7. CASE MoveManifest \/ SyncManifest \/ MoveImages \/ SyncImages \/ MakeImages \/ SyncMade
  BY <1>7 DEF MoveManifest, SyncManifest, MoveImages, SyncImages, MakeImages, SyncMade, Recovered
<1>8. CASE RecoveryFails \/ Resume \/ Kill \/ PowerLoss \/ Restart
  BY <1>8 DEF RecoveryFails, RecoveryRaises, Resume, Kill, PowerLoss, Restart
<1>9. CASE UNCHANGED vars
  BY <1>9
<1> QED
  BY <1>1, <1>2, <1>3, <1>4, <1>5, <1>6, <1>7, <1>8, <1>9 DEF Next

(* Every step keeps what is known of the disk and of the staging. *)
LEMMA StagedStep == IInv /\ [Next]_vars => (Staged /\ Rendering)'
<1> SUFFICES ASSUME IInv, [Next]_vars PROVE (Staged /\ Rendering)'
  OBVIOUS
<1> USE DEF IInv, TypeOK, BoundWhole, Staged, Rendering, Clean, Synced,
        vars, runVars, mayVars, diskVars, Running, RecoverPcs, RenderPcs,
        HandlerPcs, Step, Goto, SetImages, SetManifest, Sync
<1>1. CASE RefuseRender \/ StartRender \/ RenderPage \/ RenderFails \/ StageManifest
  BY <1>1 DEF RefuseRender, StartRender, RenderPage, RenderFails, StageManifest, Conflict, Populated
<1>2. CASE PlaceImages \/ SyncPlace \/ LinkManifest \/ SyncLink \/ PublishFails
  BY <1>2 DEF PlaceImages, SyncPlace, LinkManifest, SyncLink, PublishFails
<1>3. CASE SetAside \/ SyncAside \/ MakeAgain \/ SyncAgain \/ HandlerFails
  BY <1>3 DEF SetAside, SyncAside, MakeAgain, SyncAgain, HandlerFails
<1>4. CASE Bind \/ BindFails \/ Verify \/ PagesFail \/ Fail
  BY <1>4 DEF Bind, BindFails, Verify, PagesFail, Fail
<1>5. CASE RefuseRecovery \/ RecoverNothing \/ RecoverLoose
  BY <1>5 DEF RefuseRecovery, RecoverNothing, RecoverLoose, RecoveryRaises, Recovered,
              NothingLoose, Populated
<1>6. CASE MoveManifest \/ SyncManifest \/ MoveImages \/ SyncImages \/ MakeImages \/ SyncMade
  <2>1. CASE MoveManifest \/ MoveImages \/ SyncImages \/ MakeImages
    BY <1>6, <2>1 DEF MoveManifest, MoveImages, SyncImages, MakeImages
  <2>2. CASE SyncManifest
    BY <2>2 DEF SyncManifest, Populated
  <2>3. CASE SyncMade
    BY <2>3 DEF SyncMade, Recovered
  <2> QED
    BY <1>6, <2>1, <2>2, <2>3
<1>7. CASE RecoveryFails \/ Resume \/ Kill \/ PowerLoss \/ Restart
  BY <1>7 DEF RecoveryFails, RecoveryRaises, Resume, Kill, PowerLoss, Restart
<1>8. CASE UNCHANGED vars
  BY <1>8
<1> QED
  BY <1>1, <1>2, <1>3, <1>4, <1>5, <1>6, <1>7, <1>8 DEF Next

(* The journal names a bundle only when Bind does, and forgets none. *)
LEMMA BoundOnlyByBind == [Next]_vars => bound' = bound \/ Bind
  BY DEF Next, vars, RefuseRender, StartRender, RenderPage, RenderFails, StageManifest,
         PlaceImages, SyncPlace, LinkManifest, SyncLink, PublishFails, SetAside, SyncAside,
         MakeAgain, SyncAgain, HandlerFails, BindFails, Verify, PagesFail, Fail,
         RefuseRecovery, RecoverNothing, RecoverLoose, MoveManifest, SyncManifest,
         MoveImages, SyncImages, MakeImages, SyncMade, RecoveryFails, Resume, Kill,
         PowerLoss, Restart

(* Every step keeps a bound bundle whole and synchronized. *)
LEMMA BoundStep == IInv /\ [Next]_vars => BoundWhole'
<1> SUFFICES ASSUME IInv, [Next]_vars PROVE BoundWhole'
  OBVIOUS
<1> USE DEF IInv, TypeOK, BoundWhole, Staged, Synced, vars, runVars, mayVars, diskVars,
        Running, RecoverPcs, RenderPcs, HandlerPcs, Step, Goto
<1>1. CASE Bind
  BY <1>1 DEF Bind, BundleValid
<1>2. CASE bound = None /\ ~Bind
  BY <1>2, BoundOnlyByBind
<1>3. CASE bound # None /\ ~Bind
  <2> USE <1>3
  <2>1. CASE RefuseRender \/ StartRender \/ RenderPage \/ RenderFails \/ StageManifest
    BY <2>1 DEF RefuseRender, StartRender, RenderPage, RenderFails, StageManifest
  <2>2. CASE PlaceImages \/ SyncPlace \/ LinkManifest \/ SyncLink \/ PublishFails
    BY <2>2 DEF PlaceImages, SyncPlace, LinkManifest, SyncLink, PublishFails
  <2>3. CASE SetAside \/ SyncAside \/ MakeAgain \/ SyncAgain \/ HandlerFails
    BY <2>3 DEF SetAside, SyncAside, MakeAgain, SyncAgain, HandlerFails
  <2>4. CASE BindFails \/ Verify \/ PagesFail \/ Fail
    BY <2>4 DEF BindFails, Verify, PagesFail, Fail
  <2>5. CASE RefuseRecovery \/ RecoverNothing \/ RecoverLoose
    BY <2>5 DEF RefuseRecovery, RecoverNothing, RecoverLoose, RecoveryRaises, Recovered,
                NothingLoose
  <2>6. CASE MoveManifest \/ SyncManifest \/ MoveImages \/ SyncImages \/ MakeImages \/ SyncMade
    BY <2>6 DEF MoveManifest, SyncManifest, MoveImages, SyncImages, MakeImages, SyncMade
  <2>7. CASE RecoveryFails \/ Resume \/ Kill \/ PowerLoss \/ Restart
    BY <2>7 DEF RecoveryFails, RecoveryRaises, Resume, Kill, PowerLoss, Restart
  <2>8. CASE UNCHANGED vars
    BY <2>8
  <2> QED
    BY <2>1, <2>2, <2>3, <2>4, <2>5, <2>6, <2>7, <2>8 DEF Next
<1> QED
  BY <1>1, <1>2, <1>3

(* The inductive invariant holds in every reachable state. *)
LEMMA InvariantHolds == Spec => []IInv
<1>1. IInv /\ [Next]_vars => IInv'
  BY TypeStep, StagedStep, BoundStep DEF IInv
<1> QED
  BY <1>1, InitIInv, PTL DEF Spec

(* Types, for every number of pages and renders and every set of faults. *)
THEOREM TypeCorrect == Spec => []TypeOK
<1>1. IInv => TypeOK
  BY DEF IInv
<1> QED
  BY <1>1, InvariantHolds, PTL

(* No render ever finds the artifacts of an earlier one in its way. *)
THEOREM RenderNeverBlocked == Spec => []RenderUnblocked
<1>1. IInv => RenderUnblocked
  BY DEF IInv, Staged, Clean, RenderUnblocked, Conflict, Populated
<1> QED
  BY <1>1, InvariantHolds, PTL

(* A bound bundle is abstractly Bound. *)
LEMMA BoundIsBound == IInv /\ bound # None => AbstractBundle = Contract!Bound
  BY DEF IInv, TypeOK, BoundWhole, AbstractBundle, BundleValid, Contract!Bound

(* A bundle the journal does not name is abstractly Loose or Absent. *)
LEMMA UnboundIsLoose ==
  bound = None => AbstractBundle = IF Populated \/ manifest # None
                                   THEN Contract!Loose ELSE Contract!Absent
  BY DEF AbstractBundle, Contract!Loose, Contract!Absent

(* Once the journal names a bundle it stays whole; until then it comes and *)
(* goes: every step is a step of the contract or leaves the bundle alone.  *)
THEOREM BundleImplementsContract == Spec => ImplementsContract
<1>b. (IInv /\ bound # None => AbstractBundle = Contract!Bound)'
  BY BoundIsBound, PTL
<1>u. (bound = None => AbstractBundle = IF Populated \/ manifest # None
                                        THEN Contract!Loose ELSE Contract!Absent)'
  BY UnboundIsLoose, PTL
<1>1. Init => Contract!Init
  BY DEF Init, Contract!Init, Contract!Absent, AbstractBundle, Populated
<1>2. IInv /\ IInv' /\ [Next]_vars => [Contract!Next]_AbstractBundle
  <2> SUFFICES ASSUME IInv, IInv', [Next]_vars
               PROVE  Contract!Next \/ AbstractBundle' = AbstractBundle
    OBVIOUS
  <2>1. CASE Bind
    <3>1. bound = None /\ AbstractBundle = Contract!Loose
      BY <2>1, UnboundIsLoose DEF IInv, BoundWhole, Bind, Step, BundleValid
    <3>2. AbstractBundle' = Contract!Bound
      BY <2>1, <1>b DEF Bind, BundleValid, Contract!Bound
    <3> QED
      BY <3>1, <3>2 DEF Contract!Next, Contract!Bind
  <2>2. CASE bound # None /\ bound' = bound
    <3>1. AbstractBundle = Contract!Bound
      BY <2>2, BoundIsBound
    <3>2. AbstractBundle' = Contract!Bound
      BY <2>2, <1>b DEF Contract!Bound
    <3> QED
      BY <3>1, <3>2
  <2>3. CASE bound = None /\ bound' = bound
    <3>1. AbstractBundle \in {Contract!Loose, Contract!Absent}
      BY <2>3, UnboundIsLoose
    <3>2. AbstractBundle' \in {Contract!Loose, Contract!Absent}
      BY <2>3, <1>u DEF Contract!Loose, Contract!Absent
    <3> QED
      BY <3>1, <3>2 DEF Contract!Next, Contract!Produce, Contract!Discard
  <2> QED
    BY <2>1, <2>2, <2>3, BoundOnlyByBind
<1> QED
  BY <1>1, <1>2, InvariantHolds, PTL DEF Spec, ImplementsContract, Contract!Spec
=============================================================================
