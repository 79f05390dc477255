---------------------------- MODULE PageContracts ----------------------------
(***************************************************************************)
(* The contracts a page's model response, memory, structure and artifact   *)
(* obey, and the pure reducers that derive a page's outputs from its       *)
(* response and the state before it (package contracts, with               *)
(* processing/state.py).                                                   *)
(*                                                                         *)
(* A reading position is a member of Positions, a heading a member of      *)
(* Headings, a summary is blank or not, a list of topic or asset drafts    *)
(* only has a length.  A topic or asset identifier, formatted              *)
(* pNNNN-tNNN, is the pair of its page and ordinal; an image path,         *)
(* page_images/page-NNNN.png, is its page number.  The reducers raise on   *)
(* what they refuse: each comes with the condition under which it returns. *)
(***************************************************************************)
EXTENDS Integers, Sequences, Functions

CONSTANTS Headings, Positions, EmptyMemory, NoContent

ASSUME MemoryAssumption == EmptyMemory \notin Positions

EditTypes == {"no_change", "append_new_section", "append_to_section", "replace_section"}
Decisions == {"non_index_worthy", "index_worthy", "mixed"}
Memories == Positions \cup {EmptyMemory}

TopicLists == {s \in Seq(Headings) : IsInjective(s)}

StructurePages == [number : Nat \ {0}, topics : TopicLists]

(* DocumentStructure: its pages are 1, 2, ... in order. *)
StructureValid(structure) ==
    /\ structure \in Seq(StructurePages)
    /\ \A i \in DOMAIN structure : structure[i].number = i

OutputValid(r) ==
    \/ /\ r.decision = "non_index_worthy"
       /\ ~r.summary
       /\ r.topics = 0 /\ r.assets = 0
    \/ r.decision # "non_index_worthy" /\ r.summary

(* ModelResponse: one memory edit, the page's headings, the page output.   *)
Responses ==
    {r \in [edit : EditTypes, content : Positions \cup {NoContent}, headings : TopicLists,
            decision : Decisions, summary : BOOLEAN, topics : Nat, assets : Nat] :
        /\ (r.edit = "no_change") <=> (r.content = NoContent)
        /\ OutputValid(r)}

-----------------------------------------------------------------------------

(* apply_short_term_memory_edit *)
EditApplies(memory, r, n) ==
    IF n = 1
    THEN memory = EmptyMemory /\ r.edit = "append_new_section"
    ELSE memory # EmptyMemory /\ r.edit = "replace_section"

NextMemory(r) == r.content

(* append_document_structure_page *)
PageAppends(structure, n) == n = Len(structure) + 1

NextStructureMutant(structure, r, n) ==
    Append(structure, [number |-> Len(structure), topics |-> r.headings])
NextStructure(structure, r, n) ==
    Append(structure, [number |-> n, topics |-> r.headings])

Identifiers(n, count) == [ordinal \in 1..count |-> <<n, ordinal>>]

(* build_page_artifact *)
PageArtifact(r, n, image) ==
    [number |-> n, image |-> image, decision |-> r.decision, summary |-> r.summary,
     topics |-> Identifiers(n, r.topics), assets |-> Identifiers(n, r.assets)]

ArtifactValid(a) ==
    /\ a.image = a.number
    /\ OutputValid([a EXCEPT !.topics = Len(a.topics), !.assets = Len(a.assets)])
    /\ a.topics = Identifiers(a.number, Len(a.topics))
    /\ a.assets = Identifiers(a.number, Len(a.assets))

(* materialize_page: any refusal is a PageContractError. *)
Materializes(r, n, memory, structure) ==
    /\ EditApplies(memory, r, n)
    /\ PageAppends(structure, n)
    /\ ArtifactValid(PageArtifact(r, n, n))

-----------------------------------------------------------------------------
(* storage/contract_validation.py: a snapshot and the one before it.       *)

InitialValid(memory, structure) == memory = EmptyMemory /\ structure = <<>>

(* validate_prior_state_json, _require_prior_prefix *)
PriorValid(n, memory, structure) ==
    /\ (n = 1) <=> (memory = EmptyMemory)
    /\ StructureValid(structure)
    /\ Len(structure) = n - 1

(* _validate_derivation: the files of page n are what its response and the *)
(* snapshot before it determine.                                           *)
Derived(n, files, memory, structure) ==
    /\ EditApplies(memory, files.response, n)
    /\ PageAppends(structure, n)
    /\ files.page = PageArtifact(files.response, n, n)
    /\ files.memory = NextMemory(files.response)
    /\ files.structure = NextStructure(structure, files.response, n)

(* validate_page_json, validate_page_commit *)
PageValid(n, files, memory, structure) ==
    /\ files.response \in Responses
    /\ PriorValid(n, memory, structure)
    /\ Derived(n, files, memory, structure)
    /\ files.usage[1] = n

(* validate_checkpoint *)
CheckpointValid(completed, total, memory, structure, attempt) ==
    /\ completed \in 0..total
    /\ attempt >= 1
    /\ completed = total => attempt = 1
    /\ Len(structure) = completed
    /\ (completed = 0) <=> (memory = EmptyMemory)

(* ProcessingManifest.validate_run_state of a completed run: every page is *)
(* there, in order, completed, and the head is the last one.               *)
ManifestValid(manifest) ==
    /\ manifest.head = manifest.pageCount
    /\ Len(manifest.pages) = manifest.pageCount
    /\ \A i \in DOMAIN manifest.pages : manifest.pages[i].number = i
=============================================================================
