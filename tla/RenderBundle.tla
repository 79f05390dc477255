---------------------------- MODULE RenderBundle ----------------------------
(***************************************************************************)
(* The page images and the render manifest of one registered run:          *)
(* PypdfiumRenderer.render_preserved stages and publishes them,            *)
(* set_render_manifest binds them to the journal, verify_prepared checks   *)
(* them on resume, and whatever is not bound is moved to quarantine by     *)
(* _quarantine_unreferenced_render_bundle (recovery) or by                 *)
(* quarantine_unreferenced_render (an OSError of the renderer).            *)
(* RunLifecycle takes each of these as one step; here are the file-system  *)
(* operations they are made of, in order.                                  *)
(*                                                                         *)
(* Disk.  images is the entry page_images of the run directory: missing,   *)
(* an empty directory, or the pages of one render; manifest the entry      *)
(* render_manifest.json.  Contents are synchronized before their entry is  *)
(* published; an entry itself is durable once its directory is, so after a *)
(* power loss it may have any value it had since the last fsync of the run *)
(* directory (imagesMay, manifestMay).  The journal is SQLite with         *)
(* synchronous=FULL: what it commits is durable.  Names in staging and     *)
(* quarantine are random and never collide.                                *)
(*                                                                         *)
(* Faults: "kill", the process ends; "power", the machine does; "io", a    *)
(* file-system call raises OSError; "render", a page cannot be rendered.   *)
(***************************************************************************)
EXTENDS Naturals, FiniteSets

CONSTANTS NumPages, MaxRenders, Faults, Missing, Empty, None

ASSUME RenderAssumption ==
    /\ NumPages \in Nat \ {0}
    /\ MaxRenders \in Nat \ {0}
    /\ Faults \subseteq {"kill", "power", "io", "render"}

Renders == [render : 1..MaxRenders, pages : 1..NumPages]

ASSUME EntryAssumption ==
    /\ Missing \notin Renders \cup {Empty}
    /\ {Empty, None} \cap Renders = {}

VARIABLES
    pc,           \* the step of the run's owner
    status,       \* "live" (not terminal) or "failed"
    resumable,    \* the failure is not an integrity failure
    caller,       \* who called recover_run
    render,       \* the renders started so far: the number of the last one
    staged,       \* PNG files in its staging directory
    images,       \* the entry page_images
    manifest,     \* the entry render_manifest.json
    imagesMay,    \* what a power loss may leave of it
    manifestMay,  \* likewise
    bound         \* runs.render_manifest_sha256: what the journal names

runVars == <<status, resumable, caller>>
mayVars == <<imagesMay, manifestMay>>
diskVars == <<images, manifest, mayVars>>
vars == <<pc, runVars, render, staged, diskVars, bound>>

RecoverPcs == {"recover", "moveManifest", "syncManifest", "moveImages", "syncImages",
               "makeImages", "syncMade"}
RenderPcs == {"check", "stage", "place", "syncPlace", "link", "syncLink", "bind"}
HandlerPcs == {"setAside", "syncAside", "makeAgain", "syncAgain"}
Running == RecoverPcs \cup RenderPcs \cup HandlerPcs \cup {"verify", "pages", "fail"}

Entries == Renders \cup {Missing, Empty}
Populated == images \notin {Missing, Empty}

Init ==
    /\ pc = "check"
    /\ status = "live"
    /\ resumable = TRUE
    /\ caller = "startup"
    /\ render = 0
    /\ staged = 0
    /\ images = Empty
    /\ manifest = None
    /\ imagesMay = {Empty}
    /\ manifestMay = {None}
    /\ bound = None

-----------------------------------------------------------------------------
(* File-system operations. *)

SetImages(v) ==
    /\ images' = v
    /\ imagesMay' = imagesMay \cup {v}
    /\ UNCHANGED <<manifest, manifestMay>>

SetManifest(v) ==
    /\ manifest' = v
    /\ manifestMay' = manifestMay \cup {v}
    /\ UNCHANGED <<images, imagesMay>>

(* fsync_directory of the run directory. *)
Sync ==
    /\ imagesMay' = {images}
    /\ manifestMay' = {manifest}
    /\ UNCHANGED <<images, manifest>>

Goto(next) == pc' = next

Step(from, to) == pc = from /\ Goto(to)

-----------------------------------------------------------------------------
(* render_preserved *)

Conflict == Populated \/ manifest # None

(* PdfArtifactConflictError, or a source that fails its checksum. *)
RefuseRender ==
    /\ Step("check", "fail")
    /\ Conflict \/ "render" \in Faults
    /\ UNCHANGED <<runVars, render, staged, diskVars, bound>>

StartRender ==
    /\ Step("check", "stage")
    /\ ~Conflict
    /\ render < MaxRenders
    /\ render' = render + 1
    /\ staged' = 0
    /\ UNCHANGED <<runVars, diskVars, bound>>

(* _render_all: one durable PNG per page; any failure discards the staging. *)
RenderPageMutant ==
    /\ pc = "stage"
    /\ staged <= NumPages
    /\ staged' = staged + 1
    /\ UNCHANGED <<pc, runVars, render, diskVars, bound>>
RenderPage ==
    /\ pc = "stage"
    /\ staged < NumPages
    /\ staged' = staged + 1
    /\ UNCHANGED <<pc, runVars, render, diskVars, bound>>

RenderFails ==
    /\ Step("stage", "fail")
    /\ "render" \in Faults
    /\ staged' = 0
    /\ UNCHANGED <<runVars, render, diskVars, bound>>

(* The manifest is built, written and synchronized beside the images. *)
StageManifest ==
    /\ Step("stage", "place")
    /\ staged = NumPages
    /\ UNCHANGED <<runVars, render, staged, diskVars, bound>>

PlaceImages ==
    /\ Step("place", "syncPlace")
    /\ SetImages([render |-> render, pages |-> staged])
    /\ UNCHANGED <<runVars, render, staged, bound>>

SyncPlace ==
    /\ Step("syncPlace", "link")
    /\ Sync
    /\ UNCHANGED <<runVars, render, staged, bound>>

LinkManifest ==
    /\ Step("link", "syncLink")
    /\ SetManifest([render |-> render, pages |-> staged])
    /\ UNCHANGED <<runVars, render, staged, bound>>

(* The last fsync; the staging directory is removed. *)
SyncLinkMutant ==
    /\ Step("syncLink", "bind")
    /\ staged' = 0
    /\ UNCHANGED <<runVars, render, diskVars, bound>>
SyncLink ==
    /\ Step("syncLink", "bind")
    /\ Sync
    /\ staged' = 0
    /\ UNCHANGED <<runVars, render, bound>>

(* An OSError while publishing: the images are set aside unless a manifest *)
(* is there; the staging directory is removed in any case.                 *)
PublishFails ==
    /\ "io" \in Faults
    /\ pc \in {"place", "syncPlace", "link", "syncLink"}
    /\ Goto(IF manifest = None /\ Populated THEN "setAside" ELSE "fail")
    /\ staged' = 0
    /\ UNCHANGED <<runVars, render, diskVars, bound>>

-----------------------------------------------------------------------------
(* quarantine_unreferenced_render: its own errors are suppressed. *)

SetAside ==
    /\ Step("setAside", "syncAside")
    /\ SetImages(Missing)
    /\ UNCHANGED <<runVars, render, staged, bound>>

(* Synchronizes the quarantine directory only. *)
SyncAside ==
    /\ Step("syncAside", "makeAgain")
    /\ UNCHANGED <<runVars, render, staged, diskVars, bound>>

MakeAgain ==
    /\ Step("makeAgain", "syncAgain")
    /\ SetImages(Empty)
    /\ UNCHANGED <<runVars, render, staged, bound>>

SyncAgain ==
    /\ Step("syncAgain", "fail")
    /\ Sync
    /\ UNCHANGED <<runVars, render, staged, bound>>

HandlerFails ==
    /\ "io" \in Faults
    /\ pc \in HandlerPcs
    /\ Goto("fail")
    /\ UNCHANGED <<runVars, render, staged, diskVars, bound>>

-----------------------------------------------------------------------------
(* Binding and verification. *)

(* validate_render_manifest, verify_prepared: the manifest's pages are the *)
(* source's and exactly the images on disk.                                *)
BundleValid == manifest # None /\ manifest.pages = NumPages /\ images = manifest

Bind ==
    /\ Step("bind", "pages")
    /\ BundleValid
    /\ bound' = manifest
    /\ UNCHANGED <<runVars, render, staged, diskVars>>

BindFails ==
    /\ Step("bind", "fail")
    /\ ~BundleValid \/ "io" \in Faults
    /\ UNCHANGED <<runVars, render, staged, diskVars, bound>>

Verify ==
    /\ pc = "verify"
    /\ Goto(IF BundleValid /\ manifest = bound THEN "pages" ELSE "fail")
    /\ UNCHANGED <<runVars, render, staged, diskVars, bound>>

(* The run fails for any reason while its pages are processed. *)
PagesFail ==
    /\ Step("pages", "fail")
    /\ UNCHANGED <<runVars, render, staged, diskVars, bound>>

Fail ==
    /\ Step("fail", "idle")
    /\ status' = "failed"
    /\ UNCHANGED <<resumable, caller, render, staged, diskVars, bound>>

-----------------------------------------------------------------------------
(* recover_run, called by startup for every unfinished or failed run and   *)
(* by the preparation of a resume.                                         *)

(* A live run goes on once it is recovered. *)
Recovered ==
    IF status = "failed" THEN "idle" ELSE IF bound # None THEN "verify" ELSE "check"

(* A failing recovery makes startup fail, and a resume an integrity        *)
(* failure (_prepare_resume).                                              *)
RecoveryRaises ==
    IF caller = "startup"
    THEN Goto("refused") /\ UNCHANGED runVars
    ELSE /\ Goto("idle")
         /\ status' = "failed" /\ resumable' = FALSE
         /\ UNCHANGED caller

(* paths_for requires every directory of the run to be there. *)
RefuseRecovery ==
    /\ pc = "recover"
    /\ images = Missing
    /\ RecoveryRaises
    /\ UNCHANGED <<render, staged, diskVars, bound>>

NothingLooseMutant == bound # None \/ manifest = None
NothingLoose == bound # None \/ (manifest = None /\ ~Populated)

(* What a killed render left in staging is quarantined with the orphans.   *)
RecoverNothing ==
    /\ Step("recover", Recovered)
    /\ images # Missing
    /\ NothingLoose
    /\ staged' = 0
    /\ UNCHANGED <<runVars, render, diskVars, bound>>

RecoverLoose ==
    /\ Step("recover", IF manifest # None THEN "moveManifest" ELSE "moveImages")
    /\ images # Missing
    /\ ~NothingLoose
    /\ UNCHANGED <<runVars, render, staged, diskVars, bound>>

MoveManifest ==
    /\ Step("moveManifest", "syncManifest")
    /\ SetManifest(None)
    /\ UNCHANGED <<runVars, render, staged, bound>>

SyncManifest ==
    /\ Step("syncManifest", IF Populated THEN "moveImages" ELSE "makeImages")
    /\ Sync
    /\ UNCHANGED <<runVars, render, staged, bound>>

MoveImages ==
    /\ Step("moveImages", "syncImages")
    /\ SetImages(Missing)
    /\ UNCHANGED <<runVars, render, staged, bound>>

SyncImages ==
    /\ Step("syncImages", "makeImages")
    /\ Sync
    /\ UNCHANGED <<runVars, render, staged, bound>>

(* mkdir(exist_ok=True) *)
MakeImages ==
    /\ Step("makeImages", "syncMade")
    /\ SetImages(Empty)
    /\ UNCHANGED <<runVars, render, staged, bound>>

SyncMade ==
    /\ Step("syncMade", Recovered)
    /\ Sync
    /\ staged' = 0
    /\ UNCHANGED <<runVars, render, bound>>

RecoveryFails ==
    /\ "io" \in Faults
    /\ pc \in RecoverPcs
    /\ RecoveryRaises
    /\ UNCHANGED <<render, staged, diskVars, bound>>

-----------------------------------------------------------------------------
(* The run's surroundings. *)

Resume ==
    /\ Step("idle", "recover")
    /\ status = "failed" /\ resumable
    /\ status' = "live"
    /\ caller' = "resume"
    /\ UNCHANGED <<resumable, render, staged, diskVars, bound>>

Kill ==
    /\ "kill" \in Faults
    /\ pc \in Running \cup {"idle", "refused"}
    /\ Goto("down")
    /\ UNCHANGED <<runVars, render, staged, diskVars, bound>>

PowerLoss ==
    /\ "power" \in Faults
    /\ pc # "down"
    /\ Goto("down")
    /\ images' \in imagesMay
    /\ manifest' \in manifestMay
    /\ imagesMay' = {images'}
    /\ manifestMay' = {manifest'}
    /\ UNCHANGED <<runVars, render, staged, bound>>

Restart ==
    /\ Step("down", "recover")
    /\ caller' = "startup"
    /\ UNCHANGED <<status, resumable, render, staged, diskVars, bound>>

Next ==
    \/ RefuseRender \/ StartRender \/ RenderPage \/ RenderFails \/ StageManifest
    \/ PlaceImages \/ SyncPlace \/ LinkManifest \/ SyncLink \/ PublishFails
    \/ SetAside \/ SyncAside \/ MakeAgain \/ SyncAgain \/ HandlerFails
    \/ Bind \/ BindFails \/ Verify \/ PagesFail \/ Fail
    \/ RefuseRecovery \/ RecoverNothing \/ RecoverLoose
    \/ MoveManifest \/ SyncManifest \/ MoveImages \/ SyncImages \/ MakeImages \/ SyncMade
    \/ RecoveryFails
    \/ Resume \/ Kill \/ PowerLoss \/ Restart

Spec == Init /\ [][Next]_vars

-----------------------------------------------------------------------------
(* Properties. *)

TypeOK ==
    /\ pc \in Running \cup {"idle", "down", "refused"}
    /\ status \in {"live", "failed"}
    /\ resumable \in BOOLEAN
    /\ caller \in {"startup", "resume"}
    /\ render \in 0..MaxRenders
    /\ staged \in 0..NumPages
    /\ images \in Entries /\ imagesMay \subseteq Entries
    /\ manifest \in Renders \cup {None} /\ manifestMay \subseteq Renders \cup {None}
    /\ images \in imagesMay /\ manifest \in manifestMay
    /\ bound \in Renders \cup {None}

(* A render never meets the artifacts of an earlier one: a run is rendered *)
(* again only after a recovery that left nothing (no                       *)
(* PdfArtifactConflictError, whatever failed before).                      *)
RenderUnblocked == pc = "check" => ~Conflict

(* The bundle the journal names is complete, survives a power loss and     *)
(* passes verify_prepared for ever; until it is named it can be discarded. *)
AbstractBundle ==
    IF bound # None
    THEN [place |-> IF BundleValid /\ manifest = bound THEN "bound" ELSE "broken",
          pages |-> bound.pages]
    ELSE [place |-> IF Populated \/ manifest # None THEN "loose" ELSE "absent", pages |-> 0]

Contract == INSTANCE RenderContract WITH bundle <- AbstractBundle

ImplementsContract == Contract!Spec

(* recover_durable_runs: "Audit every run and return interrupted           *)
(* current-config work in FIFO order": a stop of the process or of the     *)
(* machine never leaves a run that makes startup fail.                     *)
StartupAuditsEveryRun == pc # "refused"
=============================================================================
