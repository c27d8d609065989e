--------------------------- MODULE EvidenceCache ---------------------------
(***************************************************************************)
(* The persisted evidence artifact and its fingerprint sidecar:            *)
(* generateDataArtifacts writes the manifest snapshot, the artifact and    *)
(* the sidecar (src/build/generate-data-artifacts.ts), getEvidenceModel    *)
(* reads them back (src/build/evidence-cache.ts), while people edit the    *)
(* source and processes die.                                               *)
(*                                                                         *)
(* Every await is a step.  A tree maps each input file of a generation to  *)
(* its content; an artifact is named by the tree it was computed from, a   *)
(* fingerprint by the part of a tree it hashes.  Only the files discovered *)
(* are hashed: a tsconfig.json that link() resolves aliases with, or a     *)
(* file that a dynamicAccess citation names, is an input that is not.      *)
(* Writing truncates first, so a file under way is Unreadable, which also  *)
(* stands for absent, empty and malformed: the readers treat them alike.   *)
(***************************************************************************)
EXTENDS Sequences, SequencesExt

CONSTANTS Files,        \* the inputs of a generation
          Hashed,       \* those the fingerprint covers
          Contents,
          Generators,   \* processes that generate with `evidence`
          Readers,      \* callers of getEvidenceModel
          Unreadable

ASSUME FilesAssumption == Hashed \subseteq Files /\ Hashed # {}

Trees == [Files -> Contents]
PartialTrees == UNION {[D -> Contents] : D \in SUBSET Files}
Outputs == {"snapshot", "artifact", "sidecar"}
Nothing == [f \in {} |-> Unreadable]

ASSUME UnreadableAssumption == Unreadable \notin PartialTrees

VARIABLES workingTree,
          artifacts,   \* artifacts[o]: what an output file holds
          generation,  \* generation[g] = [at, open, got, tree, raced]
          reader,      \* reader[r] = [at, got, result, was, doubt]
          suspect      \* history: the files on disk may be of two moments

vars == <<workingTree, artifacts, generation, reader, suspect>>

Resting == [at |-> "idle", open |-> FALSE, got |-> Nothing, tree |-> Nothing, raced |-> FALSE]
NotCalled == [at |-> "idle", got |-> Nothing, result |-> Nothing,
              was |-> [f \in Files |-> {}], doubt |-> FALSE]

Init ==
  /\ workingTree \in Trees
  /\ artifacts = [o \in Outputs |-> Unreadable]
  /\ generation = [g \in Generators |-> Resting]
  /\ reader = [r \in Readers |-> NotCalled]
  /\ suspect = FALSE

WithFile(got, f) == [h \in DOMAIN got \cup {f} |-> IF h = f THEN workingTree[f] ELSE got[h]]

(***************************************************************************)
(* generateDataArtifacts                                                   *)
(***************************************************************************)

\* Mutant: the sidecar is written before the artifact it vouches for.
SidecarFirst == <<"read", "snapshot", "hash", "sidecar", "artifact">>

\* compute everything, write the snapshot and the artifact, hash the source
\* (again), write the sidecar.
Pipeline == <<"read", "snapshot", "artifact", "hash", "sidecar">>

NextStage(stage) ==
  LET i == CHOOSE j \in DOMAIN Pipeline : Pipeline[j] = stage
  IN  IF i = Len(Pipeline) THEN "idle" ELSE Pipeline[i + 1]

Begin(g) ==
  /\ generation[g].at = "idle"
  /\ generation' = [generation EXCEPT ![g] = [Resting EXCEPT !.at = "read"]]
  /\ UNCHANGED <<workingTree, artifacts, reader, suspect>>

\* The files a stage reads: all of them to compute, the discovered to hash.
Inputs(stage) == IF stage = "read" THEN Files ELSE Hashed

ReadFile(g, f) ==
  /\ generation[g].at \in {"read", "hash"}
  /\ f \in Inputs(generation[g].at) \ DOMAIN generation[g].got
  /\ generation' = [generation EXCEPT ![g].got = WithFile(@, f)]
  /\ UNCHANGED <<workingTree, artifacts, reader, suspect>>

Computed(g) ==
  /\ generation[g].at = "read" /\ DOMAIN generation[g].got = Files
  /\ generation' = [generation EXCEPT ![g].at = NextStage("read"), ![g].tree = generation[g].got, ![g].got = Nothing]
  /\ UNCHANGED <<workingTree, artifacts, reader, suspect>>

\* Mutant: the findings are looked at after the snapshot is written.
BlockedLate(g) ==
  /\ generation[g].at = "artifact" /\ ~generation[g].open
  /\ generation' = [generation EXCEPT ![g] = Resting]
  /\ UNCHANGED <<workingTree, artifacts, reader, suspect>>

\* hasBlockingErrors: DataProjectGenerationError, and nothing is written.
Blocked(g) ==
  /\ generation[g].at = "read" /\ DOMAIN generation[g].got = Files
  /\ generation' = [generation EXCEPT ![g] = Resting]
  /\ UNCHANGED <<workingTree, artifacts, reader, suspect>>

Fingerprinted(g) ==
  /\ generation[g].at = "hash" /\ DOMAIN generation[g].got = Hashed
  /\ generation' = [generation EXCEPT ![g].at = NextStage("hash")]
  /\ UNCHANGED <<workingTree, artifacts, reader, suspect>>

\* A run is disturbed by another one's opening or finishing a file.
Race(g) ==
  [h \in Generators |->
     IF h = g \/ generation[h].at = "idle" THEN generation[h] ELSE [generation[h] EXCEPT !.raced = TRUE]]

OpenFile(g) ==
  /\ generation[g].at \in Outputs /\ ~generation[g].open
  /\ artifacts' = [artifacts EXCEPT ![generation[g].at] = Unreadable]
  /\ generation' = [Race(g) EXCEPT ![g].open = TRUE]
  /\ UNCHANGED <<workingTree, reader, suspect>>

Payload(g) == IF generation[g].at = "sidecar" THEN generation[g].got ELSE generation[g].tree

StageDone(g) == IF NextStage(generation[g].at) = "idle" THEN Resting
               ELSE [generation[g] EXCEPT !.at = NextStage(@), !.open = FALSE]

CloseFile(g) ==
  /\ generation[g].open
  /\ artifacts' = [artifacts EXCEPT ![generation[g].at] = Payload(g)]
  /\ generation' = [Race(g) EXCEPT ![g] = StageDone(g)]
  /\ suspect' = IF NextStage(generation[g].at) = "idle" THEN generation[g].raced ELSE suspect
  /\ UNCHANGED <<workingTree, reader>>

WroteSomething(g) == generation[g].open \/ generation[g].at \in {"artifact", "hash", "sidecar"}

\* The process dies, or a write or mkdir fails: what was written stays.
Interrupt(g) ==
  /\ generation[g].at # "idle"
  /\ suspect' = (suspect \/ WroteSomething(g))
  /\ generation' = [generation EXCEPT ![g] = Resting]
  /\ UNCHANGED <<workingTree, artifacts, reader>>

(***************************************************************************)
(* The user                                                                *)
(***************************************************************************)

\* An edit, a checkout or a revert of one file.
EditInput(f, c) ==
  /\ c # workingTree[f]
  /\ workingTree' = [workingTree EXCEPT ![f] = c]
  /\ generation' = [g \in Generators |->
        [generation[g] EXCEPT
           !.raced = @ \/ /\ f \in Hashed
                          /\ generation[g].at # "idle"
                          /\ generation[g].at = "read" => f \in DOMAIN generation[g].got]]
  /\ reader' = [r \in Readers |->
                  IF reader[r].at = "idle" THEN reader[r]
                  ELSE [reader[r] EXCEPT !.was[f] = @ \cup {c}]]
  /\ UNCHANGED <<artifacts, suspect>>

(***************************************************************************)
(* getEvidenceModel                                                        *)
(***************************************************************************)
Call(r) ==
  /\ reader[r].at = "idle"
  /\ reader' = [reader EXCEPT ![r] = [NotCalled EXCEPT !.at = "hash",
                                                       !.was = [f \in Files |-> {workingTree[f]}]]]
  /\ UNCHANGED <<workingTree, artifacts, generation, suspect>>

Covered(stage) == IF stage = "hash" THEN Hashed ELSE Files

HashFile(r, f) ==
  /\ reader[r].at \in {"hash", "recompute"}
  /\ f \in Covered(reader[r].at) \ DOMAIN reader[r].got
  /\ reader' = [reader EXCEPT ![r].got = WithFile(@, f)]
  /\ UNCHANGED <<workingTree, artifacts, generation, suspect>>

Miss(r) == [reader EXCEPT ![r].at = "recompute", ![r].got = Nothing]

\* Mutant: a sidecar that exists is trusted.
TrustSidecar(r) ==
  /\ reader[r].at = "hash" /\ DOMAIN reader[r].got = Hashed
  /\ reader' = IF artifacts["sidecar"] # Unreadable THEN [reader EXCEPT ![r].at = "artifact"]
               ELSE Miss(r)
  /\ UNCHANGED <<workingTree, artifacts, generation, suspect>>

CompareSidecar(r) ==
  /\ reader[r].at = "hash" /\ DOMAIN reader[r].got = Hashed
  /\ reader' = IF artifacts["sidecar"] = reader[r].got THEN [reader EXCEPT ![r].at = "artifact"]
               ELSE Miss(r)
  /\ UNCHANGED <<workingTree, artifacts, generation, suspect>>

\* An undisturbed pair is on disk, or a run that is not disturbed writes one.
Doubtful == suspect \/ \E g \in Generators : generation[g].raced

ReadArtifact(r) ==
  /\ reader[r].at = "artifact"
  /\ reader' = IF artifacts["artifact"] = Unreadable THEN Miss(r)
               ELSE [reader EXCEPT ![r].at = "done", ![r].result = artifacts["artifact"],
                                   ![r].doubt = Doubtful]
  /\ UNCHANGED <<workingTree, artifacts, generation, suspect>>

\* The recomputation reads every input and writes nothing.
Recomputed(r) ==
  /\ reader[r].at = "recompute" /\ DOMAIN reader[r].got = Files
  /\ reader' = [reader EXCEPT ![r].at = "done", ![r].result = reader[r].got]
  /\ UNCHANGED <<workingTree, artifacts, generation, suspect>>

Return(r) ==
  /\ reader[r].at = "done"
  /\ reader' = [reader EXCEPT ![r] = NotCalled]
  /\ UNCHANGED <<workingTree, artifacts, generation, suspect>>

Next ==
  \/ \E g \in Generators :
       \/ Begin(g) \/ Computed(g) \/ Blocked(g) \/ Fingerprinted(g)
       \/ OpenFile(g) \/ CloseFile(g) \/ Interrupt(g)
       \/ \E f \in Files : ReadFile(g, f)
  \/ \E f \in Files, c \in Contents : EditInput(f, c)
  \/ \E r \in Readers :
       \/ Call(r) \/ CompareSidecar(r) \/ ReadArtifact(r) \/ Recomputed(r) \/ Return(r)
       \/ \E f \in Files : HashFile(r, f)

Spec == Init /\ [][Next]_vars

(***************************************************************************)
(* Properties                                                              *)
(***************************************************************************)

\* evidence-cache.ts: what getEvidenceModel returns says of every hashed file
\* what the file held at some moment of the call, however generations, their
\* failures, edits and reverts overlap with it.  It may fail only when the
\* artifact is read after a run was cut short in the middle of its writes, or
\* while or after a run had the source or the files changed under it.
HitIsRecent ==
  \A r \in Readers : reader[r].at = "done" /\ ~reader[r].doubt =>
    \A f \in Hashed : reader[r].result[f] \in reader[r].was[f]

\* generate-data-artifacts.ts: between runs, unless one was cut short or
\* raced, the three files are of one moment: the sidecar vouches for the
\* artifact next to it, and the next generation's change report starts from the
\* capabilities the artifact shows.
FilesAgreeAtRest ==
  ~suspect /\ (\A g \in Generators : generation[g].at = "idle" \/ generation[g].at = "read") =>
    \/ \A o \in Outputs : artifacts[o] = Unreadable
    \/ /\ artifacts["artifact"] \in Trees
       /\ artifacts["snapshot"] = artifacts["artifact"]
       /\ artifacts["sidecar"] = [f \in Hashed |-> artifacts["artifact"][f]]

\* Both: no answer of the cache is stale, and no file is left beside another
\* that it does not belong to.
EvidenceIsOfOneMoment == HitIsRecent /\ FilesAgreeAtRest

(***************************************************************************)
(* What the documentation says, and the code does not do                   *)
(***************************************************************************)

\* evidence-cache.ts:10-11: the fingerprint lets a caller prove "nothing
\* relevant to evidence generation has changed since this file was last
\* written".  With an input that is not hashed, a hit is served all the same.
NothingRelevantChanged ==
  \A r \in Readers : reader[r].at = "done" =>
    \A f \in Files : reader[r].result[f] \in reader[r].was[f]
=============================================================================
