--------------------------- MODULE PageChain_proofs ---------------------------
(***************************************************************************)
(* PageChain for every number of pages, attempts and alterations, every    *)
(* set of answers and every set of faults.                                 *)
(*                                                                         *)
(* Neither property about what the runner carries or what is published is  *)
(* inductive: what a checkpoint or a final directory is read from are      *)
(* files that may have changed.  The inductive invariant adds the record   *)
(* that cannot: a ledger row holds what its answers determine, except that *)
(* a runner started from an altered snapshot writes a structure that does  *)
(* not replay.  An audit replays the ledger and compares the files with    *)
(* it, so what is read after an audit, with no alteration in between, is   *)
(* what the answers determine.                                             *)
(***************************************************************************)
EXTENDS PageChain, SequenceTheorems, TLAPS

USE MemoryAssumption, ChainAssumption DEF ChainAssumption, MemoryAssumption

Position ==
    /\ pc = "new" <=> head = -1
    /\ pc \in Looping => page = head + 1 /\ page \in Pages
    /\ pc \in {"reconcile", "compare"} => page \in Pages /\ page \in {head, head + 1}
    /\ pc \in {"prepare", "copy", "finalize", "match", "done"} => head = NumPages
    /\ pc \in {"model", "materialize", "commit", "derive"} => attempts[page] \in 1..MaxAttempts
    /\ published => pc = "done"
    /\ exposed # {} => alterations # 0

(* The ledger row of a commit holds its answer and its reading position. *)
LedgerFollows ==
    /\ DOMAIN ledger = 0..NumPages
    /\ \A n \in 0..NumPages : n <= head =>
         /\ ledger[n].id = CommitId(n)
         /\ ledger[n].files["memory"] = MemoryAfter(n)
         /\ n # 0 => ledger[n].files["response"] = accepted[n].response

(* The structure in it is the one the answers determine, or does not       *)
(* replay from row to row.                                                 *)
Replays ==
    \A n \in 1..NumPages : n <= head =>
        ledger[n].files["structure"] =
            NextStructure(ledger[n - 1].files["structure"], accepted[n].response, n)

StructuresFollow ==
    \A n \in 0..NumPages : n <= head => ledger[n].files["structure"] = StructureAfter(n)

LedgerDerived == Replays => StructuresFollow

(* The runner's variables are as many pages as were committed, and, when   *)
(* its checkpoint was read as it was audited, those of the last commit.    *)
RunnerShape ==
    pc \in Looping =>
        /\ head = 0 <=> memory = EmptyMemory
        /\ structure \in Seq(StructurePages)
        /\ Len(structure) = head

RunnerFollows ==
    pc \in Looping /\ "load" \notin exposed =>
        /\ memory = MemoryAfter(head)
        /\ structure = StructureAfter(head)

CandidateTyped == DOMAIN candidate = FileNames

(* The page in hand is derived from its answer and the runner's variables, *)
(* and a durable one is the head's.                                        *)
CandidateFollows ==
    /\ pc \in {"materialize", "commit", "derive"} =>
         /\ candidate["response"] \in Answers
         /\ candidate["usage"] = <<page, attempts[page]>>
    /\ pc \in {"commit", "derive"} =>
         /\ candidate["memory"] = NextMemory(candidate["response"])
         /\ candidate["structure"] = NextStructure(structure, candidate["response"], page)
    /\ pc \in {"commit", "derive", "reconcile", "compare"} =>
         /\ candidate["memory"] \in Positions
         /\ candidate["structure"] \in Seq(StructurePages)
         /\ Len(candidate["structure"]) = page
    /\ pc \in {"reconcile", "compare"} /\ head = page =>
         /\ candidate["memory"] = MemoryAfter(head)
         /\ "load" \notin exposed => candidate["structure"] = StructureAfter(head)

(* An answer that gave no reading position is refused, never committed. *)
AnswersPlaced ==
    \A i \in 1..NumPages : i <= head => accepted[i].response.content \in Positions

(* What an audit found still holds when no file was altered since. *)
AuditStands ==
    /\ pc = "read" /\ "load" \notin exposed => AuditOk
    /\ pc = "match" /\ "final" \notin exposed => AuditOk

IInv ==
    /\ TypeOK /\ Position /\ LedgerFollows /\ LedgerDerived
    /\ RunnerShape /\ RunnerFollows /\ CandidateTyped /\ CandidateFollows /\ AnswersPlaced
    /\ AuditStands /\ PublishedFollowsAnswers

(* A run that is registered but not initialized satisfies the invariant. *)
LEMMA InitIInv == Init => IInv
<1> SUFFICES ASSUME Init PROVE IInv
  OBVIOUS
<1> USE DEF Init
<1>1. TypeOK
  <2>1. accepted \in Seq([response : Answers, attempt : 1..MaxAttempts]) /\ Len(accepted) = 0
    BY EmptySeq
  <2> QED
    BY <2>1 DEF TypeOK, Memories, Pages, Active
<1>2. Position
  BY DEF Position, Looping
<1>3. LedgerFollows /\ LedgerDerived
  BY DEF LedgerFollows, LedgerDerived, StructuresFollow
<1> QED
  BY <1>1, <1>2, <1>3
     DEF IInv, RunnerShape, RunnerFollows, CandidateTyped, CandidateFollows, AnswersPlaced,
         AuditStands, PublishedFollowsAnswers, Looping, NoFiles

(* What a runner reads in an answer. *)
LEMMA AnswerTyped ==
  ASSUME NEW r \in Answers
  PROVE  /\ r.headings \in TopicLists
         /\ r.edit \in EditTypes
         /\ r.content \in Positions \cup {NoContent}
         /\ r.edit # "no_change" => r.content # NoContent
  BY DEF Responses

(* An answer's headings are distinct, so every prefix is a structure. *)
LEMMA StructureTyped ==
  ASSUME TypeOK, NEW n \in 0..NumPages, n <= head
  PROVE  StructureAfter(n) \in Seq(StructurePages) /\ Len(StructureAfter(n)) = n
<1>1. \A i \in 1..n : accepted[i] \in [response : Answers, attempt : 1..MaxAttempts]
  <2>1. accepted \in Seq([response : Answers, attempt : 1..MaxAttempts]) /\ Len(accepted) = head
    BY DEF TypeOK
  <2>2. \A i \in 1..n : i \in 1..Len(accepted)
    BY <2>1 DEF TypeOK
  <2> QED
    BY <2>1, <2>2, ElementOfSeq
<1>2. \A i \in 1..n : accepted[i].response.headings \in TopicLists
  <2> TAKE i \in 1..n
  <2>1. accepted[i].response \in Answers
    BY <1>1
  <2> QED
    BY <2>1, AnswerTyped
<1>3. \A i \in 1..n : [number |-> i, topics |-> accepted[i].response.headings] \in StructurePages
  BY <1>2 DEF StructurePages
<1>4. StructureAfter(n) \in [1..n -> StructurePages]
  BY <1>3 DEF StructureAfter
<1> QED
  BY <1>4, SeqDef

(* What the answers determine depends on nothing but them. *)
LEMMA SameAnswers ==
  ASSUME accepted' = accepted, NEW n
  PROVE  /\ MemoryAfter(n)' = MemoryAfter(n)
         /\ StructureAfter(n)' = StructureAfter(n)
         /\ CommitId(n)' = CommitId(n)
  BY DEF MemoryAfter, StructureAfter, CommitId

-----------------------------------------------------------------------------
(* A commit adds one answer and what it determines. *)

LEMMA CommitAdds ==
  ASSUME IInv, pc = "derive", CommitCandidate
  PROVE  /\ head' = page /\ page = head + 1 /\ page \in Pages /\ head \in 0..NumPages
         /\ accepted' \in Seq([response : Answers, attempt : 1..MaxAttempts])
         /\ Len(accepted') = page
         /\ accepted'[page] = [response |-> candidate["response"], attempt |-> attempts[page]]
         /\ \A i \in 1..head : accepted'[i] = accepted[i]
<1>1. page = head + 1 /\ page \in Pages /\ head # -1
  BY DEF IInv, Position, Looping
<1>2. head \in 0..NumPages /\ Len(accepted) = head
  BY <1>1 DEF IInv, TypeOK, Pages
<1>3. accepted \in Seq([response : Answers, attempt : 1..MaxAttempts])
  BY DEF IInv, TypeOK
<1>4. candidate["usage"][2] = attempts[page] /\ candidate["response"] \in Answers
  BY DEF IInv, CandidateFollows
<1>5. attempts[page] \in 1..MaxAttempts
  BY DEF IInv, Position
<1>6. [response |-> candidate["response"], attempt |-> attempts[page]]
        \in [response : Answers, attempt : 1..MaxAttempts]
  BY <1>4, <1>5
<1>7. /\ head' = page
      /\ accepted' = Append(accepted, [response |-> candidate["response"],
                                       attempt |-> attempts[page]])
  BY <1>4 DEF CommitCandidate
<1> QED
  BY <1>1, <1>2, <1>3, <1>6, <1>7, AppendProperties

(* The pages before the new one keep what their answers determine. *)
LEMMA CommitKeeps ==
  ASSUME IInv, pc = "derive", CommitCandidate, NEW n \in 0..NumPages, n <= head
  PROVE  /\ MemoryAfter(n)' = MemoryAfter(n)
         /\ StructureAfter(n)' = StructureAfter(n)
         /\ CommitId(n)' = CommitId(n)
<1>1. head \in 0..NumPages /\ \A i \in 1..head : accepted'[i] = accepted[i]
  BY CommitAdds
<1>2. \A i \in 1..n : accepted'[i] = accepted[i]
  BY <1>1
<1> QED
  BY <1>2 DEF MemoryAfter, StructureAfter, CommitId

(* The structure of n pages is that of the n - 1 before, and one more. *)
LEMMA StructureGrows ==
  ASSUME TypeOK, NEW n \in 1..NumPages, n <= head
  PROVE  StructureAfter(n) = NextStructure(StructureAfter(n - 1), accepted[n].response, n)
<1> DEFINE s == StructureAfter(n - 1)
           t == StructureAfter(n)
           e == [number |-> n, topics |-> accepted[n].response.headings]
<1>1. /\ s \in Seq(StructurePages) /\ Len(s) = n - 1
      /\ t \in Seq(StructurePages) /\ Len(t) = n
  <2> DEFINE m == n - 1
  <2>1. m \in 0..NumPages /\ m <= head /\ n \in 0..NumPages
    BY DEF TypeOK
  <2> HIDE DEF m
  <2>2. StructureAfter(m) \in Seq(StructurePages) /\ Len(StructureAfter(m)) = m
    BY <2>1, StructureTyped
  <2>3. StructureAfter(n) \in Seq(StructurePages) /\ Len(StructureAfter(n)) = n
    BY <2>1, StructureTyped
  <2> QED
    BY <2>2, <2>3 DEF m
<1>2. t[n] = e
  BY DEF StructureAfter
<1>3. \A i \in 1..(n - 1) : t[i] = s[i]
  BY DEF StructureAfter
<1>4. e \in StructurePages
  <2>1. n \in 1..Len(t)
    BY <1>1
  <2> QED
    BY <1>1, <1>2, <2>1, ElementOfSeq
<1> HIDE DEF s, t, e
<1>5. /\ Append(s, e) \in Seq(StructurePages) /\ Len(Append(s, e)) = n
      /\ \A i \in 1..(n - 1) : Append(s, e)[i] = s[i]
      /\ Append(s, e)[n] = e
  BY <1>1, <1>4, AppendProperties
<1>6. \A i \in 1..n : t[i] = Append(s, e)[i]
  BY <1>2, <1>3, <1>5
<1>7. t = Append(s, e)
  BY <1>1, <1>5, <1>6, SeqEqual
<1> QED
  BY <1>7 DEF NextStructure, s, t, e

(* What the new answer determines, and what is committed with it. *)
LEMMA CommitFollows ==
  ASSUME IInv, pc = "derive", CommitCandidate, NEW n, n = page
  PROVE  /\ MemoryAfter(n)' = candidate["memory"]
         /\ StructureAfter(n)' = NextStructure(StructureAfter(head), candidate["response"], n)
         /\ CommitId(n)' = candidate["usage"]
<1> DEFINE r == candidate["response"]
           e == [number |-> n, topics |-> r.headings]
           s == StructureAfter(head)
           t == [i \in 1..n |-> [number |-> i, topics |-> accepted'[i].response.headings]]
<1>1. /\ n = head + 1 /\ n \in Pages /\ n # 0 /\ head \in 0..NumPages
      /\ accepted'[n].response = r /\ accepted'[n].attempt = attempts[n]
      /\ \A i \in 1..head : accepted'[i] = accepted[i]
  BY CommitAdds DEF Pages
<1>2. r \in Answers /\ candidate["memory"] = r.content /\ candidate["usage"] = <<n, attempts[n]>>
  BY DEF IInv, CandidateFollows, NextMemory
<1>4. s \in Seq(StructurePages) /\ Len(s) = head
  BY <1>1, StructureTyped DEF IInv
<1>5. e \in StructurePages
  BY <1>1, <1>2, AnswerTyped DEF StructurePages, Pages
<1>6. /\ Append(s, e) \in Seq(StructurePages)
      /\ Len(Append(s, e)) = n
      /\ \A i \in 1..head : Append(s, e)[i] = s[i]
      /\ Append(s, e)[n] = e
  BY <1>1, <1>4, <1>5, AppendProperties
<1>7. \A i \in 1..n : t[i] = Append(s, e)[i]
  <2> TAKE i \in 1..n
  <2>1. CASE i = n
    BY <2>1, <1>1, <1>6
  <2>2. CASE i # n
    <3>1. i \in 1..head
      BY <2>2, <1>1
    <3>2. s[i] = [number |-> i, topics |-> accepted[i].response.headings]
      BY <3>1 DEF StructureAfter
    <3> QED
      BY <3>1, <3>2, <1>1, <1>6
  <2> QED
    BY <2>1, <2>2
<1>8. t \in Seq(StructurePages) /\ Len(t) = n
  <2>1. \A i \in 1..n : Append(s, e)[i] \in StructurePages
    BY <1>6, ElementOfSeq
  <2>2. t \in [1..n -> StructurePages]
    BY <1>7, <2>1
  <2> QED
    BY <2>2, <1>1, SeqDef DEF Pages
<1>9. t = Append(s, e)
  <2> HIDE DEF s, e, t
  <2> QED
    BY <1>6, <1>7, <1>8, SeqEqual
<1>10. StructureAfter(n)' = NextStructure(s, r, n)
  BY <1>9 DEF StructureAfter, NextStructure
<1> QED
  BY <1>1, <1>2, <1>10 DEF MemoryAfter, CommitId

(* Every other step leaves the commits alone. *)
LEMMA OnlyCommits ==
  ASSUME [Next]_vars
  PROVE  \/ UNCHANGED <<head, ledger, accepted>>
         \/ Initialize
         \/ pc = "derive" /\ CommitCandidate
  BY DEF Next, vars, runnerVars, chainVars, Load, Read, ReadRefused, Begin, Exhausted, Answer,
         NoAnswer, Materialize, ContractError, VerifyPrior, Commit, CommitRaises, Reconcile,
         Reconciled, NotReconciled, AuditCompletion, PrepareFinal, CopyFinal, AuditFinal,
         Finalize, Resume, Crash, Alter

(* A commit's row holds the files in hand, and no other row changes. *)
LEMMA CommitRow ==
  ASSUME IInv, pc = "derive", CommitCandidate
  PROVE  /\ DOMAIN ledger' = 0..NumPages
         /\ \A n \in 0..NumPages : n # page => ledger'[n] = ledger[n]
         /\ ledger'[page].id = candidate["usage"]
         /\ ledger'[page].files = candidate
<1>1. page \in 0..NumPages
  BY CommitAdds DEF Pages
<1> QED
  BY <1>1 DEF CommitCandidate, IInv, LedgerFollows

LEMMA LedgerStep == IInv /\ [Next]_vars => (LedgerFollows /\ AnswersPlaced)'
<1> SUFFICES ASSUME IInv, [Next]_vars PROVE (LedgerFollows /\ AnswersPlaced)'
  OBVIOUS
<1>1. CASE UNCHANGED <<head, ledger, accepted>>
  BY <1>1, SameAnswers DEF IInv, LedgerFollows, AnswersPlaced
<1>2. CASE Initialize
  BY <1>2 DEF IInv, LedgerFollows, AnswersPlaced, Initialize, MemoryAfter, StructureAfter,
              CommitId, ManifestOf, FilesOf, NoFiles, FileNames
<1>3. CASE pc = "derive" /\ CommitCandidate
  <2> USE <1>3
  <2>1. /\ head' = page /\ page = head + 1 /\ page \in Pages /\ head \in 0..NumPages
        /\ accepted'[page].response = candidate["response"]
        /\ \A i \in 1..head : accepted'[i] = accepted[i]
    BY CommitAdds
  <2>2. /\ DOMAIN ledger' = 0..NumPages
        /\ \A n \in 0..NumPages : n # page => ledger'[n] = ledger[n]
        /\ ledger'[page].id = candidate["usage"]
        /\ ledger'[page].files = candidate
    BY CommitRow
  <2>3. LedgerFollows'
    <3> SUFFICES ASSUME NEW n \in 0..NumPages, n <= head'
                 PROVE  /\ ledger'[n].id = CommitId(n)'
                        /\ ledger'[n].files["memory"] = MemoryAfter(n)'
                        /\ n # 0 => ledger'[n].files["response"] = accepted'[n].response
      BY <2>2 DEF LedgerFollows
    <3>1. CASE n = page
      BY <3>1, <2>1, <2>2, CommitFollows
    <3>2. CASE n # page
      <4>1. n <= head
        BY <3>2, <2>1 DEF Pages
      <4> QED
        BY <4>1, <3>2, <2>1, <2>2, CommitKeeps DEF IInv, LedgerFollows
    <3> QED
      BY <3>1, <3>2
  <2>4. AnswersPlaced'
    <3> SUFFICES ASSUME NEW i \in 1..NumPages, i <= head'
                 PROVE  accepted'[i].response.content \in Positions
      BY DEF AnswersPlaced
    <3>1. CASE i = page
      BY <3>1, <2>1 DEF IInv, CandidateFollows, NextMemory
    <3>2. CASE i # page
      BY <3>2, <2>1 DEF IInv, AnswersPlaced, Pages
    <3> QED
      BY <3>1, <3>2
  <2> QED
    BY <2>3, <2>4
<1> QED
  BY <1>1, <1>2, <1>3, OnlyCommits

(* A row whose structure does not replay is never overwritten; a new row   *)
(* replays from the one before it only if it holds what the answers        *)
(* determine.                                                              *)
LEMMA DerivedStep == IInv /\ [Next]_vars => LedgerDerived'
<1> SUFFICES ASSUME IInv, [Next]_vars, Replays' PROVE StructuresFollow'
  BY DEF LedgerDerived
<1>1. CASE UNCHANGED <<head, ledger, accepted>>
  BY <1>1, SameAnswers DEF IInv, LedgerDerived, Replays, StructuresFollow
<1>2. CASE Initialize
  <2>1. ledger'[0].files["structure"] = <<>> /\ head' = 0
    BY <1>2 DEF IInv, LedgerFollows, Initialize, ManifestOf, FilesOf, NoFiles, FileNames
  <2> QED
    BY <2>1 DEF StructuresFollow, StructureAfter
<1>3. CASE pc = "derive" /\ CommitCandidate
  <2>1. /\ head' = page /\ page = head + 1 /\ page \in Pages /\ head \in 0..NumPages
        /\ accepted'[page].response = candidate["response"]
        /\ \A i \in 1..head : accepted'[i] = accepted[i]
        /\ \A n \in 0..NumPages : n # page => ledger'[n] = ledger[n]
        /\ page # 0 /\ page - 1 = head /\ head # page
    <3>1. /\ head' = page /\ page = head + 1 /\ page \in Pages /\ head \in 0..NumPages
          /\ accepted'[page] = [response |-> candidate["response"], attempt |-> attempts[page]]
          /\ \A i \in 1..head : accepted'[i] = accepted[i]
      BY <1>3, CommitAdds
    <3>2. \A n \in 0..NumPages : n # page => ledger'[n] = ledger[n]
      BY <1>3, CommitRow
    <3>3. page # 0 /\ page - 1 = head /\ head # page
      BY <3>1 DEF Pages
    <3> QED
      BY <3>1, <3>2, <3>3
  <2>2. Replays
    <3> SUFFICES ASSUME NEW n \in 1..NumPages, n <= head
                 PROVE  ledger[n].files["structure"] =
                          NextStructure(ledger[n - 1].files["structure"], accepted[n].response, n)
      BY DEF Replays
    <3>1. /\ n <= head' /\ n # page /\ n - 1 # page /\ n \in 0..NumPages /\ n - 1 \in 0..NumPages
          /\ n \in 1..head
      BY <2>1 DEF Pages
    <3>2. ledger'[n].files["structure"] =
            NextStructure(ledger'[n - 1].files["structure"], accepted'[n].response, n)
      BY <3>1 DEF Replays
    <3> QED
      BY <2>1, <3>1, <3>2
  <2>3. StructuresFollow
    BY <2>2 DEF IInv, LedgerDerived
  <2> SUFFICES ASSUME NEW n \in 0..NumPages, n <= head'
               PROVE  ledger'[n].files["structure"] = StructureAfter(n)'
    BY DEF StructuresFollow
  <2>4. CASE n = page
    <3>1. n \in 1..NumPages
      BY <2>1, <2>4 DEF Pages
    <3>2. ledger'[n].files["structure"] =
            NextStructure(ledger'[head].files["structure"], accepted'[n].response, n)
      BY <2>1, <2>4, <3>1 DEF Replays
    <3>3. ledger'[head] = ledger[head] /\ ledger[head].files["structure"] = StructureAfter(head)
      BY <2>1, <2>3 DEF StructuresFollow
    <3>4. StructureAfter(n)' = NextStructure(StructureAfter(head), candidate["response"], n)
      BY <1>3, <2>4, CommitFollows
    <3> QED
      BY <2>1, <2>4, <3>2, <3>3, <3>4
  <2>5. CASE n # page
    <3>1. n <= head
      BY <2>5, <2>1 DEF Pages
    <3> QED
      BY <1>3, <2>1, <2>3, <2>5, <3>1, CommitKeeps DEF StructuresFollow
  <2> QED
    BY <2>4, <2>5
<1> QED
  BY <1>1, <1>2, <1>3, OnlyCommits

-----------------------------------------------------------------------------
(* An audited ledger replays, and the files of an audited run are those of *)
(* the ledger.                                                             *)
LEMMA AuditedReplays ==
  ASSUME IInv, AuditOk
  PROVE  StructuresFollow
<1>1. Replays
  <2> SUFFICES ASSUME NEW n \in 1..NumPages, n <= head
               PROVE  ledger[n].files["structure"] =
                        NextStructure(ledger[n - 1].files["structure"], accepted[n].response, n)
    BY DEF Replays
  <2>1. n \in 0..head /\ n - 1 \in 0..head /\ n # 0 /\ n \in 0..NumPages
    BY DEF IInv, TypeOK
  <2>2. CommitIntact(n) /\ CommitIntact(n - 1) /\ ReplayValid(n)
    BY <2>1 DEF AuditOk
  <2>3. store[n].files = ledger[n].files /\ store[n - 1].files = ledger[n - 1].files
    BY <2>2 DEF CommitIntact
  <2>4. store[n].files["structure"] =
          NextStructure(store[n - 1].files["structure"], store[n].files["response"], n)
    BY <2>1, <2>2 DEF ReplayValid, PageValid, Derived
  <2>5. ledger[n].files["response"] = accepted[n].response
    BY <2>1 DEF IInv, LedgerFollows
  <2> QED
    BY <2>3, <2>4, <2>5
<1> QED
  BY <1>1 DEF IInv, LedgerDerived

LEMMA AuditedReads ==
  ASSUME IInv, AuditOk, NEW n \in 0..NumPages, n <= head
  PROVE  /\ store[n].files["memory"] = MemoryAfter(n)
         /\ store[n].files["structure"] = StructureAfter(n)
<1>1. CommitIntact(n)
  BY DEF AuditOk, IInv, TypeOK
<1>2. ledger[n].files["structure"] = StructureAfter(n)
  BY AuditedReplays DEF StructuresFollow
<1> QED
  BY <1>1, <1>2 DEF CommitIntact, IInv, LedgerFollows

(* A snapshot holds a reading position or the empty memory. *)
LEMMA MemoryTyped ==
  ASSUME IInv, NEW n \in 0..NumPages, n <= head
  PROVE  MemoryAfter(n) \in Memories /\ (n = 0 <=> MemoryAfter(n) = EmptyMemory)
  BY DEF IInv, AnswersPlaced, MemoryAfter, Memories

(* What a step without a commit and without an alteration leaves alone. *)
LEMMA SameAudit ==
  ASSUME UNCHANGED <<head, store, ledger>>
  PROVE  AuditOk' = AuditOk
<1>1. \A n : CommitIntact(n)' = CommitIntact(n)
  BY DEF CommitIntact
<1>2. \A n : ReplayValid(n)' = ReplayValid(n)
  BY DEF ReplayValid
<1> QED
  BY <1>1, <1>2 DEF AuditOk

-----------------------------------------------------------------------------
(* Every step keeps the types. *)
LEMMA TypeStep == IInv /\ [Next]_vars => TypeOK'
<1> SUFFICES ASSUME IInv, [Next]_vars PROVE TypeOK'
  OBVIOUS
<1>0. TypeOK /\ Position
  BY DEF IInv
<1> USE <1>0 DEF outsideVars
<1>1. CASE UNCHANGED vars
  BY <1>1 DEF vars, runnerVars, chainVars, TypeOK, Active
<1>2. CASE Initialize
  BY <1>2 DEF Initialize, runnerVars, TypeOK, Active, Position
<1>3. CASE Read
  <2>1. head \in 0..NumPages
    BY <1>3 DEF Read, Position, TypeOK
  <2>2. memory' \in Memories
    BY <1>3, <2>1 DEF Read, CheckpointAccepted, SnapshotReads
  <2>3. page' \in 1..(NumPages + 1) /\ pc' \in Active
    BY <1>3, <2>1 DEF Read, Active, Looping, After
  <2>4. UNCHANGED <<head, attempts, accepted, published, alterations, exposed>>
    BY <1>3 DEF Read, chainVars
  <2> QED
    BY <2>2, <2>3, <2>4 DEF TypeOK
<1>4. CASE ReadRefused \/ Exhausted \/ ContractError \/ NotReconciled \/ NoAnswer
  <2>1. (UNCHANGED memory /\ UNCHANGED page) \/ Forget
    BY <1>4 DEF ReadRefused, Exhausted, ContractError, NotReconciled, NoAnswer, Fail, runnerVars
  <2>2. memory' \in Memories /\ page' \in 1..(NumPages + 1)
    BY <2>1, ChainAssumption DEF Forget, TypeOK, Memories
  <2>3. /\ UNCHANGED <<head, attempts, accepted, published, alterations, exposed>>
        /\ pc' \in {"failed", "page"}
    BY <1>4 DEF ReadRefused, Exhausted, ContractError, NotReconciled, NoAnswer, Fail, chainVars
  <2> QED
    BY <2>2, <2>3 DEF TypeOK, Active, Looping
<1>5. CASE Begin
  <2>1. attempts' \in [Pages -> 0..MaxAttempts]
    BY <1>5 DEF Begin, TypeOK, Position, Looping, Pages
  <2> QED
    BY <1>5, <2>1 DEF Begin, runnerVars, TypeOK, Active, Looping
<1>6. CASE Answer \/ Materialize \/ VerifyPrior \/ Reconcile
  BY <1>6 DEF Answer, Materialize, VerifyPrior, Reconcile, runnerVars, chainVars, TypeOK,
              Active, Looping
<1>7. CASE Commit \/ CommitRaises
  <2>1. CASE CommitCandidate /\ pc = "derive"
    <3>1. /\ page \in Pages /\ head' \in 0..NumPages
          /\ accepted' \in Seq([response : Answers, attempt : 1..MaxAttempts])
          /\ Len(accepted') = head'
      BY <2>1, CommitAdds DEF Pages
    <3>2. memory' \in Memories /\ page' \in 1..(NumPages + 1)
      <4>1. CASE Commit
        BY <4>1, <2>1, <3>1 DEF Commit, Advance, IInv, CandidateFollows, Memories, Pages
      <4>2. CASE CommitRaises
        BY <4>2 DEF CommitRaises, runnerVars, TypeOK
      <4> QED
        BY <1>7, <4>1, <4>2
    <3>3. pc' \in Active /\ UNCHANGED <<attempts, published, alterations, exposed>>
      BY <1>7, <2>1 DEF Commit, CommitRaises, CommitCandidate, Advance, After, Active, Looping
    <3> QED
      BY <3>1, <3>2, <3>3 DEF TypeOK
  <2>2. CASE CommitRaises /\ UNCHANGED chainVars
    BY <2>2 DEF CommitRaises, runnerVars, chainVars, TypeOK, Active
  <2> QED
    BY <1>7, <2>1, <2>2 DEF Commit, CommitRaises
<1>8. CASE Reconciled
  <2>1. page \in Pages /\ candidate["memory"] \in Positions
    BY <1>8 DEF Reconciled, Position, IInv, CandidateFollows
  <2>2. memory' \in Memories /\ page' \in 1..(NumPages + 1)
    BY <1>8, <2>1 DEF Reconciled, Advance, Pages, Memories
  <2> QED
    BY <1>8, <2>2 DEF Reconciled, Advance, After, chainVars, TypeOK, Active, Looping
<1>9. CASE Load \/ AuditCompletion \/ PrepareFinal \/ CopyFinal \/ AuditFinal \/ Finalize
           \/ Resume
  <2>1. UNCHANGED <<memory, page>> \/ Forget
    BY <1>9 DEF Load, AuditCompletion, PrepareFinal, CopyFinal, AuditFinal, Finalize, Resume,
                Fail, runnerVars
  <2>2. memory' \in Memories /\ page' \in 1..(NumPages + 1)
    BY <2>1, ChainAssumption DEF Forget, TypeOK, Memories
  <2> QED
    BY <1>9, <2>2 DEF Load, AuditCompletion, PrepareFinal, CopyFinal, AuditFinal, Finalize,
                      Resume, Fail, chainVars, TypeOK, Active
<1>10. CASE Crash
  BY <1>10 DEF Crash, Forget, chainVars, TypeOK, Active, Memories
<1>11. CASE Alter
  BY <1>11 DEF Alter, Window, runnerVars, TypeOK, Active
<1> QED
  BY <1>1, <1>2, <1>3, <1>4, <1>5, <1>6, <1>7, <1>8, <1>9, <1>10, <1>11 DEF Next

(* Every step keeps the place of the runner in the chain. *)
LEMMA PositionStep == IInv /\ [Next]_vars => Position'
<1> SUFFICES ASSUME IInv, [Next]_vars PROVE Position'
  OBVIOUS
<1>0. TypeOK /\ Position
  BY DEF IInv
<1> USE <1>0 DEF Position, Looping, outsideVars
<1>1. CASE UNCHANGED vars
  BY <1>1 DEF vars, runnerVars, chainVars
<1>2. CASE Initialize
  BY <1>2 DEF Initialize, runnerVars
<1>3. CASE Read
  BY <1>3 DEF Read, After, Pages, TypeOK, chainVars
<1>4. CASE ReadRefused \/ Exhausted \/ ContractError \/ NotReconciled \/ NoAnswer
  BY <1>4 DEF ReadRefused, Exhausted, ContractError, NotReconciled, NoAnswer, Fail, Forget,
              runnerVars, chainVars
<1>5. CASE Begin
  BY <1>5 DEF Begin, runnerVars, TypeOK, Pages
<1>6. CASE Answer \/ Materialize \/ VerifyPrior \/ Reconcile
  BY <1>6 DEF Answer, Materialize, VerifyPrior, Reconcile, runnerVars, chainVars
<1>7. CASE Commit \/ CommitRaises
  <2>1. CASE CommitCandidate /\ pc = "derive"
    <3>1. page \in Pages /\ head' = page
      BY <2>1, CommitAdds
    <3>2. CASE Commit
      BY <3>1, <3>2 DEF Commit, Advance, After, Pages
    <3>3. CASE CommitRaises
      BY <3>1, <3>3 DEF CommitRaises, runnerVars, Pages
    <3> QED
      BY <1>7, <3>2, <3>3
  <2>2. CASE CommitRaises /\ UNCHANGED chainVars
    BY <2>2 DEF CommitRaises, runnerVars, chainVars
  <2> QED
    BY <1>7, <2>1, <2>2 DEF Commit, CommitRaises
<1>8. CASE Reconciled
  BY <1>8 DEF Reconciled, Advance, After, Pages, chainVars
<1>9. CASE Load \/ AuditCompletion \/ PrepareFinal \/ CopyFinal \/ AuditFinal \/ Finalize
           \/ Resume \/ Crash
  BY <1>9 DEF Load, AuditCompletion, PrepareFinal, CopyFinal, AuditFinal, Finalize, Resume,
              Crash, Fail, Forget, Active, runnerVars, chainVars
<1>10. CASE Alter
  BY <1>10 DEF Alter, runnerVars, TypeOK
<1> QED
  BY <1>1, <1>2, <1>3, <1>4, <1>5, <1>6, <1>7, <1>8, <1>9, <1>10 DEF Next

(* A commit leaves as many pages as it counts. *)
LEMMA RunnerShapeStep == IInv /\ [Next]_vars => RunnerShape'
<1> SUFFICES ASSUME IInv, [Next]_vars, pc' \in Looping
             PROVE  /\ head' = 0 <=> memory' = EmptyMemory
                    /\ structure' \in Seq(StructurePages)
                    /\ Len(structure') = head'
  BY DEF RunnerShape
<1>0. TypeOK /\ Position /\ RunnerShape /\ CandidateFollows
  BY DEF IInv
<1>1. CASE Read
  BY <1>0, <1>1 DEF Read, CheckpointAccepted, SnapshotReads, CheckpointValid, StructureValid,
                    chainVars
<1>2. CASE Reconciled
  BY <1>0, <1>2 DEF Reconciled, Advance, CandidateFollows, Position, Pages, chainVars
<1>3. CASE Commit
  <2>1. pc = "derive" /\ CommitCandidate /\ memory' = candidate["memory"]
        /\ structure' = candidate["structure"]
    BY <1>3 DEF Commit, Advance
  <2>2. head' = page /\ page \in Pages
    BY <2>1, CommitAdds
  <2> QED
    BY <1>0, <2>1, <2>2 DEF CandidateFollows, Pages
<1>4. CASE pc \in Looping /\ UNCHANGED <<memory, structure, head>>
  BY <1>0, <1>4 DEF RunnerShape
<1> QED
  <2>1. \/ Read \/ Reconciled \/ Commit
        \/ pc \in Looping /\ UNCHANGED <<memory, structure, head>>
    BY DEF Next, vars, runnerVars, chainVars, Looping, Initialize, Load, ReadRefused, Begin,
           Exhausted, Answer, NoAnswer, Materialize, ContractError, VerifyPrior, CommitRaises,
           Reconcile, NotReconciled, AuditCompletion, PrepareFinal, CopyFinal, AuditFinal,
           Finalize, Resume, Crash, Alter, Fail, Forget
  <2> QED
    BY <2>1, <1>1, <1>2, <1>3, <1>4

(* Every step keeps the runner on what was committed: the three that set   *)
(* its variables take them from an audited file or from a committed page.  *)
LEMMA RunnerStep == IInv /\ [Next]_vars => RunnerFollows'
<1> SUFFICES ASSUME IInv, [Next]_vars, pc' \in Looping, "load" \notin exposed'
             PROVE  memory' = MemoryAfter(head)' /\ structure' = StructureAfter(head)'
  BY DEF RunnerFollows
<1>0. TypeOK /\ Position /\ RunnerFollows /\ CandidateFollows
  BY DEF IInv
<1>1. CASE Read
  <2>1. head \in 0..NumPages /\ head' = head /\ accepted' = accepted /\ AuditOk
    BY <1>0, <1>1 DEF Read, Position, TypeOK, chainVars, outsideVars, IInv, AuditStands
  <2>2. memory' = MemoryAfter(head) /\ structure' = StructureAfter(head)
    BY <1>1, <2>1, AuditedReads DEF Read
  <2> QED
    BY <2>1, <2>2 DEF MemoryAfter, StructureAfter
<1>2. CASE Reconciled
  BY <1>0, <1>2 DEF Reconciled, Advance, CandidateFollows, chainVars, outsideVars, MemoryAfter,
                    StructureAfter
<1>3. CASE Commit
  <2>1. /\ pc = "derive" /\ CommitCandidate /\ memory' = candidate["memory"]
        /\ structure' = candidate["structure"] /\ exposed' = exposed
    BY <1>3 DEF Commit, Advance, outsideVars
  <2>2. PICK n : n = page
    OBVIOUS
  <2>3. candidate["structure"] = NextStructure(StructureAfter(head), candidate["response"], n)
    BY <1>0, <2>1, <2>2 DEF CandidateFollows, RunnerFollows, Looping
  <2>4. MemoryAfter(n)' = memory' /\ StructureAfter(n)' = structure'
    BY <2>1, <2>2, <2>3, CommitFollows
  <2>5. head' = n
    BY <2>1, <2>2, CommitAdds
  <2> QED
    BY <2>4, <2>5 DEF MemoryAfter, StructureAfter
<1>4. CASE pc \in Looping /\ UNCHANGED <<memory, structure, head, accepted, exposed>>
  BY <1>0, <1>4 DEF RunnerFollows, MemoryAfter, StructureAfter
<1> QED
  <2>1. \/ Read \/ Reconciled \/ Commit
        \/ pc \in Looping /\ UNCHANGED <<memory, structure, head, accepted, exposed>>
    BY DEF Next, vars, runnerVars, chainVars, outsideVars, Looping, Initialize, Load,
           ReadRefused, Begin, Exhausted, Answer, NoAnswer, Materialize, ContractError,
           VerifyPrior, CommitRaises, Reconcile, NotReconciled, AuditCompletion, PrepareFinal,
           CopyFinal, AuditFinal, Finalize, Resume, Crash, Alter, Window, Fail, Forget
  <2> QED
    BY <2>1, <1>1, <1>2, <1>3, <1>4

(* The page in hand is derived when it is materialized, and only then; it  *)
(* is the head's when its transaction ran and commit_page raised.          *)
LEMMA CandidateStep == IInv /\ [Next]_vars => CandidateFollows'
<1> SUFFICES ASSUME IInv, [Next]_vars PROVE CandidateFollows'
  OBVIOUS
<1>0. TypeOK /\ Position /\ CandidateFollows
  BY DEF IInv
<1> DEFINE Holding == {"materialize", "commit", "derive", "reconcile", "compare"}
<1>1. CASE pc' \notin Holding
  BY <1>1 DEF CandidateFollows
<1>2. CASE Answer
  BY <1>2 DEF Answer, CandidateFollows, NoFiles, FileNames, chainVars
<1>3. CASE Materialize
  <2> DEFINE r == candidate["response"]
             e == [number |-> page, topics |-> r.headings]
  <2>1. r \in Answers /\ EditApplies(memory, r, page) /\ page = head + 1 /\ page \in Pages
    BY <1>0, <1>3 DEF Materialize, Materializes, CandidateFollows, Position, Looping
  <2>2. r.content \in Positions
    BY <2>1, AnswerTyped DEF EditApplies
  <2>3. DOMAIN candidate = FileNames
    BY DEF IInv, CandidateTyped
  <2>4. structure \in Seq(StructurePages) /\ Len(structure) = head /\ e \in StructurePages
    BY <1>3, <2>1, AnswerTyped DEF Materialize, IInv, RunnerShape, Looping, StructurePages, Pages
  <2>5. Append(structure, e) \in Seq(StructurePages) /\ Len(Append(structure, e)) = page
    BY <2>1, <2>4, AppendProperties
  <2>6. /\ candidate'["response"] = r /\ candidate'["usage"] = candidate["usage"]
        /\ candidate'["memory"] = r.content /\ candidate'["structure"] = Append(structure, e)
        /\ pc' = "commit" /\ UNCHANGED <<page, structure, attempts>>
    BY <1>3, <2>3 DEF Materialize, FileNames, NextMemory, NextStructure, chainVars
  <2>7. candidate["usage"] = <<page, attempts[page]>>
    BY <1>0, <1>3 DEF Materialize, CandidateFollows
  <2> QED
    BY <2>1, <2>2, <2>5, <2>6, <2>7 DEF CandidateFollows, NextMemory, NextStructure
<1>4. CASE CommitRaises
  <2>1. /\ pc \in {"commit", "derive"} /\ pc' = "reconcile"
        /\ UNCHANGED <<candidate, page, exposed>>
    BY <1>4 DEF CommitRaises, runnerVars, outsideVars
  <2>2. CASE pc = "derive" /\ CommitCandidate
    <3>1. PICK n : n = page
      OBVIOUS
    <3>2. /\ MemoryAfter(n)' = candidate["memory"] /\ head' = n
          /\ StructureAfter(n)' = NextStructure(StructureAfter(head), candidate["response"], n)
      BY <2>2, <3>1, CommitFollows, CommitAdds
    <3>3. "load" \notin exposed => candidate["structure"] = StructureAfter(n)'
      BY <2>2, <3>1, <3>2 DEF IInv, RunnerFollows, Looping, CandidateFollows
    <3> QED
      BY <1>0, <2>1, <3>1, <3>2, <3>3 DEF CandidateFollows, MemoryAfter, StructureAfter
  <2>3. CASE UNCHANGED chainVars
    <3>1. head' # page'
      BY <1>0, <2>1, <2>3 DEF Position, Looping, Pages, chainVars
    <3> QED
      BY <1>0, <2>1, <3>1 DEF CandidateFollows
  <2> QED
    BY <1>4, <2>2, <2>3 DEF CommitRaises
<1>5. CASE VerifyPrior \/ Reconcile
  BY <1>0, <1>5 DEF VerifyPrior, Reconcile, CandidateFollows, runnerVars, chainVars, outsideVars,
                    MemoryAfter, StructureAfter
<1>6. CASE pc' = pc /\ UNCHANGED <<candidate, structure, page, attempts, head, accepted, exposed>>
  BY <1>0, <1>6 DEF CandidateFollows, MemoryAfter, StructureAfter
<1> QED
  <2>1. \/ pc' \notin Holding \/ Answer \/ Materialize \/ CommitRaises \/ VerifyPrior \/ Reconcile
        \/ pc' = pc /\ UNCHANGED <<candidate, structure, page, attempts, head, accepted, exposed>>
    <3>1. CASE Alter
      BY <3>1 DEF Alter, Window, runnerVars
    <3> QED
      BY <3>1 DEF Next, vars, runnerVars, chainVars, outsideVars, Initialize, Load, Read, After,
           ReadRefused, Begin, Exhausted, NoAnswer, ContractError, Commit, Advance, Reconciled,
           NotReconciled, AuditCompletion, PrepareFinal, CopyFinal, AuditFinal, Finalize,
           Resume, Crash, Fail, Forget
  <2> QED
    BY <2>1, <1>1, <1>2, <1>3, <1>4, <1>5, <1>6

LEMMA CandidateTypeStep == IInv /\ [Next]_vars => CandidateTyped'
  BY DEF IInv, CandidateTyped, NoFiles, Next, vars, runnerVars, chainVars, Initialize, Load,
         Read, ReadRefused, Begin, Exhausted, Answer, NoAnswer, Materialize, ContractError,
         VerifyPrior, Commit, CommitRaises, Advance, Reconcile, Reconciled, NotReconciled,
         AuditCompletion, PrepareFinal, CopyFinal, AuditFinal, Finalize, Resume, Crash, Alter,
         Fail, Forget

(* An audit that passed still would, unless a file was altered since. *)
LEMMA AuditStep == IInv /\ [Next]_vars => AuditStands'
<1> SUFFICES ASSUME IInv, [Next]_vars,
                    \/ (pc' = "read" /\ "load" \notin exposed')
                    \/ (pc' = "match" /\ "final" \notin exposed')
             PROVE  AuditOk'
  BY DEF AuditStands
<1>1. CASE (Load \/ AuditFinal) /\ AuditOk
  BY <1>1, SameAudit DEF Load, AuditFinal, chainVars
<1>2. CASE UNCHANGED vars
  BY <1>2, SameAudit DEF vars, chainVars, outsideVars, IInv, AuditStands
<1> QED
  <2>1. ((Load \/ AuditFinal) /\ AuditOk) \/ UNCHANGED vars
    <3>1. CASE Alter
      BY <3>1 DEF Alter, Window
    <3> QED
      BY <3>1 DEF Next, Initialize, Load, Read, After, ReadRefused, Begin, Exhausted, Answer,
           NoAnswer, Materialize, ContractError, VerifyPrior, Commit, CommitRaises, Advance,
           Reconcile, Reconciled, NotReconciled, AuditCompletion, PrepareFinal, CopyFinal,
           AuditFinal, Finalize, Resume, Crash, Fail
  <2> QED
    BY <2>1, <1>1, <1>2

(* A publication repeats an audited head, and nothing follows it. *)
LEMMA PublishedStep == IInv /\ [Next]_vars => PublishedFollowsAnswers'
<1> SUFFICES ASSUME IInv, [Next]_vars PROVE PublishedFollowsAnswers'
  OBVIOUS
<1>0. TypeOK /\ Position
  BY DEF IInv
<1>1. CASE Finalize /\ FinalOutputValid
  <2>1. head = NumPages /\ pc = "match"
    BY <1>0, <1>1 DEF Finalize, Position
  <2>2. ASSUME "final" \notin exposed
        PROVE  final.memory = MemoryAfter(NumPages) /\ final.structure = StructureAfter(NumPages)
    BY <1>1, <2>1, <2>2, AuditedReads DEF FinalOutputValid, IInv, AuditStands
  <2>3. \A n \in Pages : ledger[n].id = <<n, accepted[n].attempt>>
    <3> TAKE n \in Pages
    <3>1. n \in 0..NumPages /\ n <= head /\ n # 0
      BY <2>1 DEF Pages
    <3> QED
      BY <3>1 DEF IInv, LedgerFollows, CommitId
  <2>4. final.usage = [n \in Pages |-> <<n, accepted[n].attempt>>]
    BY <1>1, <2>1, <2>3 DEF FinalOutputValid, UsageRecords, Pages
  <2>5. UNCHANGED <<head, accepted, final, exposed>>
    BY <1>1 DEF Finalize, chainVars, outsideVars
  <2> QED
    BY <2>1, <2>2, <2>4, <2>5 DEF PublishedFollowsAnswers, MemoryAfter, StructureAfter
<1>2. CASE published' = published /\ UNCHANGED <<head, accepted, final, exposed>>
  BY <1>2 DEF IInv, PublishedFollowsAnswers, MemoryAfter, StructureAfter
<1>3. CASE pc # "done" /\ published' = published
  BY <1>0, <1>3 DEF Position, PublishedFollowsAnswers
<1> QED
  <2>1. \/ Finalize /\ FinalOutputValid
        \/ published' = published /\ UNCHANGED <<head, accepted, final, exposed>>
        \/ pc # "done" /\ published' = published
    <3>1. CASE Alter
      BY <3>1 DEF Alter, Window
    <3> QED
      BY <3>1 DEF Active, Looping, Next, vars, runnerVars, chainVars, outsideVars, Initialize,
           Load, Read, ReadRefused, Begin, Exhausted, Answer, NoAnswer, Materialize,
           ContractError, VerifyPrior, Commit, CommitRaises, Advance, Reconcile, Reconciled,
           NotReconciled, AuditCompletion, PrepareFinal, CopyFinal, AuditFinal, Finalize,
           Resume, Crash, Fail, Forget
  <2> QED
    BY <2>1, <1>1, <1>2, <1>3

-----------------------------------------------------------------------------
LEMMA InvariantHolds == Spec => []IInv
<1>1. IInv /\ [Next]_vars => IInv'
  BY TypeStep, PositionStep, LedgerStep, DerivedStep, RunnerShapeStep, RunnerStep,
     CandidateTypeStep, CandidateStep, AuditStep, PublishedStep DEF IInv
<1> QED
  BY <1>1, InitIInv, PTL DEF Spec

(* Types, for every instance. *)
THEOREM TypeCorrect == Spec => []TypeOK
<1>1. IInv => TypeOK
  BY DEF IInv
<1> QED
  BY <1>1, InvariantHolds, PTL

(* Memory and structure reach a page as the committed answers determine    *)
(* them, over reconciled commits, crashes, resumes and files altered at    *)
(* any moment but one: between the audit of the checkpoint the runner      *)
(* started from and the reading of it.  For every number of pages, of      *)
(* alterations, and every set of answers.                                  *)
THEOREM RunnerCarriesAnswers == Spec => []RunnerFollowsAnswers
<1>1. IInv => RunnerFollowsAnswers
  BY DEF IInv, RunnerFollowsAnswers, RunnerFollows, Position
<1> QED
  BY <1>1, InvariantHolds, PTL

(* What is published is what the committed answers determine, though files *)
(* were altered and put back at any moment but one: between the last audit *)
(* and the comparison of the final directory with the head's files.        *)
THEOREM PublicationFollowsAnswers == Spec => []PublishedFollowsAnswers
<1>1. IInv => PublishedFollowsAnswers
  BY DEF IInv
<1> QED
  BY <1>1, InvariantHolds, PTL

-----------------------------------------------------------------------------
(* The whole chain.  That an audit is exact needs more than the snapshots: *)
(* the ledger row of a commit is its manifest, every other file included,  *)
(* and the answers it was derived from replay.  A second inductive         *)
(* invariant says so, given the first.                                     *)

RowOf(n, s) ==
    [id |-> CommitId(n), previous |-> IF n = 0 THEN NoFile ELSE CommitId(n - 1),
     files |-> [FilesOf(n) EXCEPT !["structure"] = s]]

LedgerWhole ==
    \A n \in 0..NumPages : n <= head => ledger[n] = RowOf(n, ledger[n].files["structure"])

AnswersApply ==
    \A n \in 1..NumPages :
        n <= head => EditApplies(MemoryAfter(n - 1), accepted[n].response, n)

(* The page in hand is whole, and follows from what the runner carries. *)
CandidateWhole ==
    /\ candidate = [f \in FileNames |-> candidate[f]]
    /\ pc \in {"commit", "derive"} =>
         /\ candidate["page"] = PageArtifact(candidate["response"], page, page)
         /\ EditApplies(memory, candidate["response"], page)

StoreGenuine ==
    /\ DOMAIN store = 0..NumPages
    /\ \A n \in 0..NumPages :
         store[n] = [manifest |-> store[n].manifest, files |-> store[n].files]
    /\ alterations = 0 => Unaltered

FinalFollows ==
    pc \in {"finalize", "match"} =>
        /\ final.manifest = CompletionManifest
        /\ final.usage = UsageRecords
        /\ alterations = 0 =>
             final.memory = MemoryAfter(head) /\ final.structure = StructureAfter(head)

ChainInv == LedgerWhole /\ AnswersApply /\ CandidateWhole /\ StoreGenuine /\ FinalFollows

(* With the structure its answers determine, a row is the manifest they    *)
(* determine.                                                              *)
LEMMA RowGenuine ==
  ASSUME NEW n \in 0..NumPages
  PROVE  /\ RowOf(n, StructureAfter(n)) = ManifestOf(n)
         /\ (RowOf(n, StructureAfter(n)) = ManifestOf(n))'
<1>1. FilesOf(n) = [FilesOf(n) EXCEPT !["structure"] = FilesOf(n)["structure"]]
  BY DEF FilesOf, NoFiles, FileNames
<1>2. FilesOf(n)["structure"] = StructureAfter(n)
  BY DEF FilesOf, StructureAfter, NoFiles, FileNames
<1>3. (FilesOf(n) = [FilesOf(n) EXCEPT !["structure"] = FilesOf(n)["structure"]])'
  BY DEF FilesOf, NoFiles, FileNames
<1>4. (FilesOf(n)["structure"] = StructureAfter(n))'
  BY DEF FilesOf, StructureAfter, NoFiles, FileNames
<1> QED
  BY <1>1, <1>2, <1>3, <1>4 DEF RowOf, ManifestOf

LEMMA SameChain ==
  ASSUME accepted' = accepted, NEW n
  PROVE  /\ FilesOf(n)' = FilesOf(n) /\ CommitId(n)' = CommitId(n)
         /\ CommitId(n - 1)' = CommitId(n - 1)
         /\ ManifestOf(n)' = ManifestOf(n) /\ Genuine(n)' = Genuine(n)
<1>1. /\ MemoryAfter(n)' = MemoryAfter(n) /\ StructureAfter(n)' = StructureAfter(n)
      /\ CommitId(n)' = CommitId(n) /\ CommitId(n - 1)' = CommitId(n - 1)
  BY SameAnswers
<1>2. FilesOf(n)' = FilesOf(n)
  BY <1>1 DEF FilesOf
<1> QED
  BY <1>1, <1>2 DEF ManifestOf, Genuine

LEMMA CommitKeepsChain ==
  ASSUME IInv, pc = "derive", CommitCandidate, NEW n \in 0..NumPages, n <= head
  PROVE  /\ FilesOf(n)' = FilesOf(n) /\ CommitId(n)' = CommitId(n)
         /\ n # 0 => CommitId(n - 1)' = CommitId(n - 1)
         /\ ManifestOf(n)' = ManifestOf(n) /\ Genuine(n)' = Genuine(n)
<1>1. /\ MemoryAfter(n)' = MemoryAfter(n) /\ StructureAfter(n)' = StructureAfter(n)
      /\ CommitId(n)' = CommitId(n)
  BY CommitKeeps
<1>2. n # 0 => CommitId(n - 1)' = CommitId(n - 1)
  <2> SUFFICES ASSUME n # 0
               PROVE  CommitId(n - 1)' = CommitId(n - 1)
    OBVIOUS
  <2>1. n - 1 \in 0..NumPages /\ n - 1 <= head
    BY DEF IInv, TypeOK
  <2> DEFINE m == n - 1
  <2>2. m \in 0..NumPages /\ m <= head
    BY <2>1
  <2> HIDE DEF m
  <2>3. CommitId(m)' = CommitId(m)
    BY <2>2, CommitKeeps
  <2> QED
    BY <2>3 DEF m
<1>3. n # 0 => accepted'[n] = accepted[n]
  BY CommitAdds
<1>4. FilesOf(n)' = FilesOf(n)
  BY <1>1, <1>3 DEF FilesOf
<1> QED
  BY <1>1, <1>2, <1>4 DEF ManifestOf, Genuine

(* What is committed is what its answer determines, to the last file but   *)
(* the structure, and that too when the runner carries what it should.     *)
LEMMA CommitFollowsChain ==
  ASSUME IInv, ChainInv, pc = "derive", CommitCandidate, NEW n, n = page
  PROVE  /\ (ledger[n] = RowOf(n, ledger[n].files["structure"]))'
         /\ "load" \notin exposed => ledger'[n] = ManifestOf(n)' /\ candidate = FilesOf(n)'
<1>1. /\ n = head + 1 /\ n \in Pages /\ n # 0 /\ head \in 0..NumPages /\ n \in 0..NumPages
      /\ accepted'[n] = [response |-> candidate["response"], attempt |-> attempts[n]]
  BY CommitAdds DEF Pages
<1>2. /\ MemoryAfter(n)' = candidate["memory"]
      /\ StructureAfter(n)' = NextStructure(StructureAfter(head), candidate["response"], n)
      /\ CommitId(n)' = candidate["usage"]
  BY CommitFollows
<1>3. candidate["page"] = PageArtifact(candidate["response"], n, n)
  BY DEF ChainInv, CandidateWhole
<1>4. candidate["usage"] = <<n, attempts[n]>>
  BY DEF IInv, CandidateFollows
<1>5. candidate = [memory |-> candidate["memory"], structure |-> candidate["structure"],
                   page |-> candidate["page"], response |-> candidate["response"],
                   usage |-> candidate["usage"]]
  BY DEF ChainInv, CandidateWhole, FileNames
<1>6. candidate = [FilesOf(n)' EXCEPT !["structure"] = candidate["structure"]]
  BY <1>1, <1>2, <1>3, <1>4, <1>5 DEF FilesOf
<1>7. CommitId(n - 1)' = ledger[head].id
  <2>1. n - 1 = head
    BY <1>1
  <2>2. CommitId(head) = ledger[head].id
    BY <1>1 DEF IInv, LedgerFollows
  <2> DEFINE m == n - 1
  <2>3. m = head
    BY <2>1
  <2> HIDE DEF m
  <2>4. CommitId(m)' = CommitId(m)
    BY <1>1, <2>3, CommitKeeps
  <2> QED
    BY <2>2, <2>3, <2>4 DEF m
<1>8. ledger'[n] = [id |-> CommitId(n)', previous |-> CommitId(n - 1)', files |-> candidate]
  BY <1>1, <1>2, <1>7 DEF CommitCandidate, IInv, LedgerFollows
<1>9. (ledger[n] = RowOf(n, ledger[n].files["structure"]))'
  BY <1>1, <1>6, <1>8 DEF RowOf
<1>10. ASSUME "load" \notin exposed
       PROVE  ledger'[n] = ManifestOf(n)' /\ candidate = FilesOf(n)'
  <2>1. candidate["structure"] = StructureAfter(n)'
    BY <1>2, <1>10 DEF IInv, CandidateFollows, RunnerFollows, Looping
  <2>2. (RowOf(n, StructureAfter(n)) = ManifestOf(n))'
    BY <1>1, RowGenuine
  <2>3. ledger'[n].files["structure"] = candidate["structure"]
    BY <1>8
  <2>4. ledger'[n] = ManifestOf(n)'
    BY <1>9, <2>1, <2>2, <2>3 DEF RowOf
  <2> QED
    BY <1>8, <2>4 DEF ManifestOf
<1> QED
  BY <1>9, <1>10

(* The snapshot before a page is one that page may follow. *)
LEMMA SnapshotValid ==
  ASSUME IInv, NEW n \in 0..NumPages, n <= head
  PROVE  PriorValid(n + 1, MemoryAfter(n), StructureAfter(n))
<1>1. StructureAfter(n) \in Seq(StructurePages) /\ Len(StructureAfter(n)) = n
  BY StructureTyped DEF IInv
<1>2. \A i \in 1..n : StructureAfter(n)[i].number = i
  BY DEF StructureAfter
<1>3. DOMAIN StructureAfter(n) = 1..n
  BY DEF StructureAfter
<1>4. StructureValid(StructureAfter(n))
  BY <1>1, <1>2, <1>3 DEF StructureValid
<1>5. n = 0 <=> MemoryAfter(n) = EmptyMemory
  BY DEF MemoryAfter, IInv, AnswersPlaced
<1> QED
  BY <1>1, <1>4, <1>5 DEF PriorValid

(* What the program wrote replays. *)
LEMMA GenuineReplays ==
  ASSUME IInv, ChainInv, Unaltered, NEW n \in 0..NumPages, n <= head
  PROVE  CommitIntact(n) /\ ReplayValid(n)
<1>1. head \in 0..NumPages /\ n \in 0..head
  BY DEF IInv, TypeOK
<1>2. store[n] = Genuine(n) /\ ledger[n] = ManifestOf(n)
  BY <1>1 DEF Unaltered
<1>3. CommitIntact(n)
  BY <1>2 DEF CommitIntact, Genuine, ManifestOf
<1>4. CASE n = 0
  <2>1. store[0] = Genuine(0)
    BY <1>2, <1>4
  <2>2. FilesOf(0) = [NoFiles EXCEPT !["memory"] = EmptyMemory, !["structure"] = <<>>]
    BY DEF FilesOf
  <2>3. FilesOf(0)["memory"] = EmptyMemory /\ FilesOf(0)["structure"] = <<>>
    BY <2>2 DEF NoFiles, FileNames
  <2>4. store[0].files = FilesOf(0)
    BY <2>1 DEF Genuine
  <2> QED
    BY <1>3, <1>4, <2>3, <2>4 DEF ReplayValid, InitialValid, NoFiles, FileNames
<1>5. CASE n # 0
  <2> DEFINE m == n - 1
             r == accepted[n].response
             files == FilesOf(n)
  <2>1. n \in 1..NumPages /\ m \in 0..NumPages /\ m \in 0..head /\ m <= head /\ n = m + 1
    BY <1>1, <1>5
  <2>2. store[m].files["memory"] = MemoryAfter(m)
        /\ store[m].files["structure"] = StructureAfter(m)
        /\ ledger[m].id = CommitId(m)
    <3>1. store[m] = Genuine(m) /\ ledger[m].id = CommitId(m)
      BY <2>1 DEF Unaltered, IInv, LedgerFollows
    <3> QED
      BY <3>1 DEF Genuine, FilesOf, MemoryAfter, StructureAfter, NoFiles, FileNames
  <2>3. /\ files.response = r /\ files.memory = r.content
        /\ files.structure = StructureAfter(n) /\ files.page = PageArtifact(r, n, n)
        /\ files.usage = CommitId(n) /\ CommitId(n)[1] = n
    BY <2>1 DEF FilesOf, MemoryAfter, CommitId
  <2>4. store[n].files = files /\ ledger[n].id = CommitId(n)
        /\ store[n].manifest.previous = CommitId(m)
    BY <1>2, <1>5 DEF Genuine, ManifestOf
  <2>5. r \in Responses
    <3>1. accepted \in Seq([response : Answers, attempt : 1..MaxAttempts])
          /\ n \in 1..Len(accepted)
      BY <1>1, <2>1 DEF IInv, TypeOK
    <3>2. accepted[n] \in [response : Answers, attempt : 1..MaxAttempts]
      BY <3>1, ElementOfSeq
    <3> QED
      BY <3>2
  <2>6. PriorValid(n, MemoryAfter(m), StructureAfter(m))
    BY <2>1, SnapshotValid
  <2>7. EditApplies(MemoryAfter(m), r, n)
    BY <2>1 DEF ChainInv, AnswersApply
  <2>8. files.structure = NextStructure(StructureAfter(m), r, n)
    BY <2>1, <2>3, StructureGrows DEF IInv
  <2>9. PageAppends(StructureAfter(m), n)
    BY <2>1, <2>6 DEF PageAppends, PriorValid
  <2> HIDE DEF files, r, m
  <2>10. PageValid(n, files, MemoryAfter(m), StructureAfter(m))
    BY <2>3, <2>5, <2>6, <2>7, <2>8, <2>9 DEF PageValid, Derived, NextMemory
  <2> QED
    BY <1>3, <1>5, <2>2, <2>3, <2>4, <2>10 DEF ReplayValid, m
<1> QED
  BY <1>4, <1>5

(* No other files are accepted: the ledger names every one. *)
LEMMA AuditIsExact == IInv /\ ChainInv => AuditExact
<1> SUFFICES ASSUME IInv, ChainInv, head >= 0
             PROVE  AuditOk <=> Unaltered
  BY DEF AuditExact
<1>1. head \in 0..NumPages
  BY DEF IInv, TypeOK
<1>2. ASSUME Unaltered
      PROVE  AuditOk
  BY <1>1, <1>2, GenuineReplays DEF AuditOk
<1>3. ASSUME AuditOk
      PROVE  Unaltered
  <2> SUFFICES ASSUME NEW n \in 0..head
               PROVE  store[n] = Genuine(n) /\ ledger[n] = ManifestOf(n)
    BY DEF Unaltered
  <2>1. n \in 0..NumPages /\ n <= head
    BY <1>1
  <2>2. CommitIntact(n)
    BY <1>3 DEF AuditOk
  <2>3. ledger[n].files["structure"] = StructureAfter(n)
    BY <1>3, <2>1, AuditedReplays DEF StructuresFollow
  <2>4. ledger[n] = ManifestOf(n)
    BY <2>1, <2>3, RowGenuine DEF ChainInv, LedgerWhole
  <2>5. store[n] = [manifest |-> store[n].manifest, files |-> store[n].files]
    BY <2>1 DEF ChainInv, StoreGenuine
  <2> QED
    BY <2>2, <2>4, <2>5 DEF CommitIntact, Genuine, ManifestOf
<1> QED
  BY <1>2, <1>3

LEMMA InitChain == Init => ChainInv
<1> SUFFICES ASSUME Init PROVE ChainInv
  OBVIOUS
<1>1. LedgerWhole /\ AnswersApply /\ FinalFollows
  BY DEF Init, LedgerWhole, AnswersApply, FinalFollows
<1>2. CandidateWhole
  BY DEF Init, CandidateWhole, NoFiles
<1>3. StoreGenuine
  BY DEF Init, StoreGenuine, Unaltered, NoCommit
<1> QED
  BY <1>1, <1>2, <1>3 DEF ChainInv

LEMMA LedgerWholeStep == IInv /\ ChainInv /\ [Next]_vars => LedgerWhole'
<1> SUFFICES ASSUME IInv, ChainInv, [Next]_vars, NEW n \in 0..NumPages, n <= head'
             PROVE  (ledger[n] = RowOf(n, ledger[n].files["structure"]))'
  BY DEF LedgerWhole
<1>1. CASE UNCHANGED <<head, ledger, accepted>>
  <2>1. ledger[n] = RowOf(n, ledger[n].files["structure"]) /\ ledger'[n] = ledger[n]
    BY <1>1 DEF ChainInv, LedgerWhole
  <2> QED
    BY <1>1, <2>1, SameChain DEF RowOf
<1>2. CASE Initialize
  <2>1. n = 0 /\ ledger'[0] = ManifestOf(0) /\ accepted' = accepted
    BY <1>2 DEF Initialize, IInv, LedgerFollows
  <2>2. (ledger[n] = ManifestOf(n))'
    BY <2>1, SameChain
  <2>3. (FilesOf(n) = [FilesOf(n) EXCEPT !["structure"] = FilesOf(n)["structure"]])'
    BY <2>1 DEF FilesOf, NoFiles, FileNames
  <2> QED
    BY <2>2, <2>3 DEF RowOf, ManifestOf
<1>3. CASE pc = "derive" /\ CommitCandidate
  <2>1. head' = page /\ page = head + 1 /\ page \in Pages /\ head \in 0..NumPages
    BY <1>3, CommitAdds
  <2>2. CASE n = page
    BY <1>3, <2>2, CommitFollowsChain
  <2>3. CASE n # page
    <3>1. n <= head
      BY <2>1, <2>3 DEF Pages
    <3>2. ledger[n] = RowOf(n, ledger[n].files["structure"]) /\ ledger'[n] = ledger[n]
      BY <1>3, <2>3, <3>1, CommitRow DEF ChainInv, LedgerWhole
    <3> QED
      BY <1>3, <3>1, <3>2, CommitKeepsChain DEF RowOf
  <2> QED
    BY <2>2, <2>3
<1> QED
  BY <1>1, <1>2, <1>3, OnlyCommits

LEMMA AnswersApplyStep == IInv /\ ChainInv /\ [Next]_vars => AnswersApply'
<1> SUFFICES ASSUME IInv, ChainInv, [Next]_vars, NEW n \in 1..NumPages, n <= head'
             PROVE  EditApplies(MemoryAfter(n - 1)', accepted'[n].response, n)
  BY DEF AnswersApply, EditApplies
<1>1. CASE UNCHANGED <<head, ledger, accepted>>
  BY <1>1, SameAnswers DEF ChainInv, AnswersApply
<1>2. CASE Initialize
  BY <1>2 DEF Initialize
<1>3. CASE pc = "derive" /\ CommitCandidate
  <2> DEFINE m == n - 1
  <2>1. /\ head' = page /\ page = head + 1 /\ page \in Pages /\ head \in 0..NumPages
        /\ accepted'[page] = [response |-> candidate["response"], attempt |-> attempts[page]]
        /\ \A i \in 1..head : accepted'[i] = accepted[i]
    BY <1>3, CommitAdds
  <2>2. m \in 0..NumPages /\ m <= head /\ n = m + 1
    BY <2>1
  <2> HIDE DEF m
  <2>3. MemoryAfter(m)' = MemoryAfter(m)
    BY <1>3, <2>2, CommitKeeps
  <2>4. CASE n = page
    <3>1. m = head
      BY <2>1, <2>2, <2>4
    <3>2. EditApplies(memory, candidate["response"], n) /\ (head = 0 <=> memory = EmptyMemory)
      BY <1>3, <2>4 DEF IInv, RunnerShape, Looping, ChainInv, CandidateWhole
    <3>3. head = 0 <=> MemoryAfter(m) = EmptyMemory
      BY <2>1, <3>1, MemoryTyped
    <3>4. EditApplies(MemoryAfter(m), candidate["response"], n)
      BY <2>1, <2>4, <3>2, <3>3 DEF EditApplies
    <3> QED
      BY <2>1, <2>3, <2>4, <3>4 DEF m
  <2>5. CASE n # page
    <3>1. n <= head
      BY <2>1, <2>5 DEF Pages
    <3>2. EditApplies(MemoryAfter(m), accepted[n].response, n) /\ accepted'[n] = accepted[n]
      BY <2>1, <3>1 DEF m, ChainInv, AnswersApply
    <3> QED
      BY <2>3, <3>2 DEF m
  <2> QED
    BY <2>4, <2>5
<1> QED
  BY <1>1, <1>2, <1>3, OnlyCommits

LEMMA CandidateWholeStep == IInv /\ ChainInv /\ [Next]_vars => CandidateWhole'
<1> SUFFICES ASSUME IInv, ChainInv, [Next]_vars PROVE CandidateWhole'
  OBVIOUS
<1>1. candidate' = [f \in FileNames |-> candidate'[f]]
  <2>1. \/ candidate' = candidate \/ candidate' = NoFiles \/ Answer \/ Materialize
    BY DEF Next, vars, runnerVars, Initialize, Load, Read, ReadRefused, Begin, Exhausted,
           NoAnswer, ContractError, VerifyPrior, Commit, CommitRaises, Advance, Reconcile,
           Reconciled, NotReconciled, AuditCompletion, PrepareFinal, CopyFinal, AuditFinal,
           Finalize, Resume, Crash, Alter, Fail, Forget
  <2> QED
    BY <2>1 DEF ChainInv, CandidateWhole, Answer, Materialize, NoFiles
<1>2. CASE pc' \notin {"commit", "derive"}
  BY <1>1, <1>2 DEF CandidateWhole
<1>3. CASE Materialize
  <2>1. /\ pc' = "commit" /\ UNCHANGED <<memory, page>>
        /\ Materializes(candidate["response"], page, memory, structure)
        /\ candidate' = [candidate EXCEPT
              !["memory"] = NextMemory(candidate["response"]),
              !["structure"] = NextStructure(structure, candidate["response"], page),
              !["page"] = PageArtifact(candidate["response"], page, page)]
    BY <1>3 DEF Materialize
  <2>2. candidate'["response"] = candidate["response"]
        /\ candidate'["page"] = PageArtifact(candidate["response"], page, page)
    BY <2>1 DEF IInv, CandidateTyped, FileNames
  <2> QED
    BY <1>1, <2>1, <2>2 DEF CandidateWhole, Materializes
<1>4. CASE pc \in {"commit", "derive"} /\ UNCHANGED <<memory, page, candidate>>
  BY <1>1, <1>4 DEF ChainInv, CandidateWhole
<1> QED
  <2>1. \/ pc' \notin {"commit", "derive"} \/ Materialize
        \/ pc \in {"commit", "derive"} /\ UNCHANGED <<memory, page, candidate>>
    BY DEF Next, vars, runnerVars, Initialize, Load, Read, After, ReadRefused, Begin,
           Exhausted, Answer, NoAnswer, ContractError, VerifyPrior, Commit, CommitRaises,
           Advance, Reconcile, Reconciled, NotReconciled, AuditCompletion, PrepareFinal,
           CopyFinal, AuditFinal, Finalize, Resume, Crash, Alter, Fail
  <2> QED
    BY <2>1, <1>2, <1>3, <1>4

LEMMA StoreGenuineStep == IInv /\ ChainInv /\ [Next]_vars => StoreGenuine'
<1> SUFFICES ASSUME IInv, ChainInv, [Next]_vars PROVE StoreGenuine'
  OBVIOUS
<1>0. StoreGenuine
  BY DEF ChainInv
<1>1. CASE Alter
  <2>1. PICK n \in 0..head : AlterDirectory(n) \/ Restore(n) \/ \E f \in FileNames : AlterFile(n, f)
    BY <1>1 DEF Alter
  <2>2. n \in 0..NumPages
    BY <2>1 DEF IInv, TypeOK
  <2>3. \E manifest, files : store' = [store EXCEPT ![n] = [manifest |-> manifest, files |-> files]]
    <3>1. store[n] = [manifest |-> store[n].manifest, files |-> store[n].files]
      BY <1>0, <2>2 DEF StoreGenuine
    <3>2. CASE AlterDirectory(n) \/ Restore(n)
      BY <3>2 DEF AlterDirectory, Restore
    <3>3. ASSUME NEW f \in FileNames, AlterFile(n, f)
          PROVE  \E files : store' = [store EXCEPT ![n] = [manifest |-> store[n].manifest,
                                                          files |-> files]]
      <4>1. PICK v : store' = [store EXCEPT ![n].files[f] = v]
        BY <3>3 DEF AlterFile
      <4>2. PICK manifest, files : store[n] = [manifest |-> manifest, files |-> files]
        BY <3>1
      <4>3. [store[n] EXCEPT !.files = [files EXCEPT ![f] = v]]
              = [manifest |-> manifest, files |-> [files EXCEPT ![f] = v]]
        BY <4>2
      <4>4. store' = [store EXCEPT ![n] = [store[n] EXCEPT !.files = [files EXCEPT ![f] = v]]]
        BY <4>1, <4>2
      <4> QED
        BY <4>2, <4>3, <4>4
    <3> QED
      BY <2>1, <3>2, <3>3
  <2>4. alterations' # 0
    BY <1>1 DEF Alter, IInv, TypeOK
  <2> QED
    BY <1>0, <2>3, <2>4 DEF StoreGenuine
<1>2. CASE Initialize
  <2>1. /\ head' = 0 /\ accepted' = accepted /\ alterations' = alterations
        /\ store' = [store EXCEPT ![0] = Genuine(0)]
        /\ ledger' = [ledger EXCEPT ![0] = ManifestOf(0)]
    BY <1>2 DEF Initialize, outsideVars
  <2>2. Genuine(0)' = Genuine(0) /\ ManifestOf(0)' = ManifestOf(0)
    BY <2>1, SameChain
  <2>3. store'[0] = Genuine(0) /\ ledger'[0] = ManifestOf(0)
    BY <1>0, <2>1 DEF StoreGenuine, IInv, LedgerFollows
  <2>4. Unaltered'
    BY <2>1, <2>2, <2>3 DEF Unaltered
  <2> QED
    BY <1>0, <2>1, <2>4 DEF StoreGenuine, Genuine
<1>3. CASE pc = "derive" /\ CommitCandidate
  <2>1. /\ head' = page /\ page = head + 1 /\ page \in Pages /\ head \in 0..NumPages
        /\ page \in 0..NumPages
    BY <1>3, CommitAdds DEF Pages
  <2>2. /\ store' = [store EXCEPT ![page] = [manifest |-> ledger'[page], files |-> candidate]]
        /\ alterations' = alterations
    <3>1. store' = [store EXCEPT ![page] = [manifest |-> ledger'[page], files |-> candidate]]
      BY <1>3, <2>1 DEF CommitCandidate, IInv, LedgerFollows
    <3>2. alterations' = alterations
      BY <1>3, <2>1 DEF Next, vars, outsideVars, Initialize, Load, Read, ReadRefused, Begin,
           Exhausted, Answer, NoAnswer, Materialize, ContractError, VerifyPrior, Commit,
           CommitRaises, Reconcile, Reconciled, NotReconciled, AuditCompletion, PrepareFinal,
           CopyFinal, AuditFinal, Finalize, Resume, Crash, Alter
    <3> QED
      BY <3>1, <3>2
  <2>3. ASSUME alterations = 0
        PROVE  Unaltered'
    <3> SUFFICES ASSUME NEW n \in 0..page
                 PROVE  (store[n] = Genuine(n) /\ ledger[n] = ManifestOf(n))'
      BY <2>1 DEF Unaltered
    <3>1. CASE n = page
      <4>1. "load" \notin exposed
        BY <2>3 DEF IInv, Position
      <4>2. ledger'[n] = ManifestOf(n)' /\ candidate = FilesOf(n)'
        BY <1>3, <3>1, <4>1, CommitFollowsChain
      <4>3. store'[n] = [manifest |-> ledger'[n], files |-> candidate]
        BY <1>0, <2>1, <2>2, <3>1 DEF StoreGenuine
      <4> QED
        BY <4>2, <4>3 DEF Genuine
    <3>2. CASE n # page
      <4>1. n \in 0..head /\ n \in 0..NumPages /\ n <= head
        BY <2>1, <3>2 DEF Pages
      <4>2. Genuine(n)' = Genuine(n) /\ ManifestOf(n)' = ManifestOf(n)
        BY <1>3, <4>1, CommitKeepsChain
      <4>3. store'[n] = store[n] /\ ledger'[n] = ledger[n]
        BY <1>0, <1>3, <2>2, <3>2, <4>1, CommitRow DEF StoreGenuine
      <4> QED
        BY <1>0, <2>3, <4>1, <4>2, <4>3 DEF StoreGenuine, Unaltered
    <3> QED
      BY <3>1, <3>2
  <2> QED
    BY <1>0, <2>2, <2>3 DEF StoreGenuine
<1>4. CASE UNCHANGED <<head, store, ledger, accepted, alterations>>
  BY <1>0, <1>4, SameChain DEF StoreGenuine, Unaltered
<1> QED
  <2>1. \/ Alter \/ Initialize
        \/ pc = "derive" /\ CommitCandidate
        \/ UNCHANGED <<head, store, ledger, accepted, alterations>>
    BY DEF Next, vars, chainVars, outsideVars, Load, Read, ReadRefused, Begin, Exhausted,
           Answer, NoAnswer, Materialize, ContractError, VerifyPrior, Commit, CommitRaises,
           Reconcile, Reconciled, NotReconciled, AuditCompletion, PrepareFinal, CopyFinal,
           AuditFinal, Finalize, Resume, Crash
  <2> QED
    BY <2>1, <1>1, <1>2, <1>3, <1>4

LEMMA FinalFollowsStep == IInv /\ ChainInv /\ [Next]_vars => FinalFollows'
<1> SUFFICES ASSUME IInv, ChainInv, [Next]_vars, pc' \in {"finalize", "match"}
             PROVE  FinalFollows'
  BY DEF FinalFollows
<1>1. CASE CopyFinal
  <2>1. /\ UNCHANGED <<head, attempts, ledger, accepted, alterations>>
        /\ final' = [manifest |-> CompletionManifest,
                     memory |-> store[head].files["memory"],
                     structure |-> store[head].files["structure"], usage |-> UsageRecords]
    BY <1>1 DEF CopyFinal, Fail, chainVars, outsideVars
  <2>2. UNCHANGED <<CompletionManifest, UsageRecords, MemoryAfter(head), StructureAfter(head)>>
    BY <2>1 DEF CompletionManifest, UsageRecords, MemoryAfter, StructureAfter
  <2>3. ASSUME alterations = 0
        PROVE  /\ store[head].files["memory"] = MemoryAfter(head)
               /\ store[head].files["structure"] = StructureAfter(head)
    <3>1. head \in 0..NumPages /\ AuditExact
      BY <1>1, AuditIsExact DEF CopyFinal, IInv, TypeOK, Position
    <3>2. AuditOk
      BY <2>3, <3>1 DEF AuditExact, ChainInv, StoreGenuine
    <3> QED
      BY <3>1, <3>2, AuditedReads
  <2> QED
    BY <2>1, <2>2, <2>3 DEF FinalFollows
<1>2. CASE /\ pc \in {"finalize", "match"}
           /\ UNCHANGED <<head, attempts, ledger, accepted, final>>
           /\ alterations' = 0 => alterations = 0
  BY <1>2 DEF ChainInv, FinalFollows, CompletionManifest, UsageRecords, MemoryAfter,
              StructureAfter
<1> QED
  <2>1. \/ CopyFinal
        \/ /\ pc \in {"finalize", "match"}
           /\ UNCHANGED <<head, attempts, ledger, accepted, final>>
           /\ alterations' = alterations \/ Alter
    BY DEF Next, vars, chainVars, outsideVars, Initialize, Load, Read, After, ReadRefused, Begin,
           Exhausted, Answer, NoAnswer, Materialize, ContractError, VerifyPrior, Commit,
           CommitRaises, Advance, Reconcile, Reconciled, NotReconciled, AuditCompletion,
           PrepareFinal, AuditFinal, Finalize, Resume, Crash, Alter, Fail
  <2>2. Alter => alterations' # 0
    BY DEF Alter, IInv, TypeOK
  <2> QED
    BY <2>1, <2>2, <1>1, <1>2

LEMMA ChainHolds == Spec => [](IInv /\ ChainInv)
<1>1. IInv /\ ChainInv /\ [Next]_vars => ChainInv'
  BY LedgerWholeStep, AnswersApplyStep, CandidateWholeStep, StoreGenuineStep,
     FinalFollowsStep DEF ChainInv
<1> QED
  BY <1>1, InvariantHolds, InitChain, PTL DEF Spec

(* The audit of startup, of a resume and of the completion raises no alarm *)
(* over what the program wrote for its answers, and lets no changed file   *)
(* pass, nor a page derived from one, whatever was altered, lost or put    *)
(* back before it, for every number of pages.                              *)
THEOREM AuditIsExactHolds == Spec => []AuditExact
  BY ChainHolds, AuditIsExact, PTL

(* While nothing was altered storage takes what the runner hands it: a     *)
(* page that was materialized commits, a checkpoint loads, a durable       *)
(* commit is recognised, a prepared final directory is published.          *)
THEOREM NothingRefusedHolds == Spec => []NothingRefused
<1>1. IInv /\ ChainInv => NothingRefused
  <2> SUFFICES ASSUME IInv, ChainInv, alterations = 0
               PROVE  /\ pc \in {"load", "commit", "reconcile", "prepare", "finalize"} => AuditOk
                      /\ pc \in {"read", "compare"} => CheckpointAccepted
                      /\ pc = "derive" => CommitAccepted
                      /\ pc = "compare" /\ head = page => SubmittedIsStored
                      /\ pc = "match" => FinalOutputValid
    BY DEF NothingRefused
  <2>1. TypeOK /\ Position /\ Unaltered /\ exposed = {} /\ (pc # "new" => head \in 0..NumPages)
    BY DEF IInv, ChainInv, StoreGenuine, TypeOK, Position
  <2>2. ASSUME head \in 0..NumPages
        PROVE  /\ AuditOk
               /\ store[head].files["memory"] = MemoryAfter(head)
               /\ store[head].files["structure"] = StructureAfter(head)
               /\ PriorValid(head + 1, MemoryAfter(head), StructureAfter(head))
               /\ MemoryAfter(head) \in Memories
    <3>1. AuditOk
      BY <2>1, <2>2, AuditIsExact DEF AuditExact
    <3> QED
      BY <2>2, <3>1, AuditedReads, SnapshotValid, MemoryTyped
  <2>3. ASSUME head \in 0..NumPages
        PROVE  SnapshotReads(head)
    BY <2>2, <2>3 DEF SnapshotReads, PriorValid
  <2>4. ASSUME pc = "derive"
        PROVE  CommitAccepted
    <3> DEFINE r == candidate["response"]
    <3>1. page = head + 1 /\ head \in 0..NumPages
      BY <2>1, <2>4 DEF Position, Looping
    <3>2. /\ memory = MemoryAfter(head) /\ structure = StructureAfter(head)
          /\ r \in Responses /\ candidate["usage"][1] = page
          /\ candidate["memory"] = NextMemory(r)
          /\ candidate["structure"] = NextStructure(structure, r, page)
      BY <2>1, <2>4 DEF IInv, RunnerFollows, Looping, CandidateFollows
    <3>3. candidate["page"] = PageArtifact(r, page, page) /\ EditApplies(memory, r, page)
      BY <2>4 DEF ChainInv, CandidateWhole
    <3>4. PriorValid(page, memory, structure)
      BY <2>2, <3>1, <3>2
    <3>5. PageAppends(structure, page)
      BY <3>1, <3>4 DEF PageAppends, PriorValid
    <3>6. PageValid(page, candidate, memory, structure)
      BY <3>2, <3>3, <3>4, <3>5 DEF PageValid, Derived
    <3> QED
      BY <2>2, <2>3, <3>1, <3>2, <3>6 DEF CommitAccepted
  <2>5. ASSUME pc = "compare", head = page
        PROVE  SubmittedIsStored
    BY <2>1, <2>2, <2>5 DEF SubmittedIsStored, IInv, CandidateFollows
  <2>6. ASSUME pc \in {"read", "compare"}
        PROVE  CheckpointAccepted
    <3>1. head \in 0..NumPages
      BY <2>1, <2>6
    <3>2. NextAttempt >= 1 /\ (head = NumPages => NextAttempt = 1)
      BY <2>1, <3>1 DEF NextAttempt, TypeOK, Pages
    <3>3. Len(StructureAfter(head)) = head /\ (head = 0 <=> MemoryAfter(head) = EmptyMemory)
      BY <2>2, <3>1 DEF PriorValid
    <3> QED
      BY <2>2, <2>3, <3>1, <3>2, <3>3 DEF CheckpointAccepted, CheckpointValid
  <2>7. ASSUME pc = "match"
        PROVE  FinalOutputValid
    BY <2>1, <2>2, <2>7 DEF FinalOutputValid, ChainInv, FinalFollows
  <2> QED
    BY <2>1, <2>2, <2>4, <2>5, <2>6, <2>7
<1> QED
  BY <1>1, ChainHolds, PTL

===============================================================================
