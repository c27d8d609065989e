----------------------------- MODULE ToolProofs -----------------------------
(***************************************************************************)
(* The tools around the library, for every value of the constants: the     *)
(* evidence files and their readers (EvidenceCache), the files `init`      *)
(* scaffolds (Scaffold), the reports made of the evidence                  *)
(* (EvidenceReports), the aliases of a project and what is published of    *)
(* its files (TsconfigPaths, Publishing), the lint rules (FieldsEscape,    *)
(* OperationRules) and the command line (CommandLine).                     *)
(***************************************************************************)
EXTENDS StateTreeProofs, EvidenceCache, Scaffold, EvidenceReports, Publishing, OperationRules, CommandLine,
        FiniteSetTheorems, SequenceTheorems, TLAPS

(***************************************************************************)
(* The evidence files                                                      *)
(***************************************************************************)
Stages == {"idle", "read", "snapshot", "artifact", "hash", "sidecar"}
Run == [at : Stages, open : BOOLEAN, got : PartialTrees, tree : PartialTrees, raced : BOOLEAN]
ReaderStages == {"idle", "hash", "artifact", "recompute", "done"}
Reading == [at : ReaderStages, got : PartialTrees, result : PartialTrees,
            was : [Files -> SUBSET Contents], doubt : BOOLEAN]

\* The order of the stages, as the proofs use it.
LEMMA StageOrder ==
  /\ NextStage("read") = "snapshot"
  /\ NextStage("snapshot") = "artifact"
  /\ NextStage("artifact") = "hash"
  /\ NextStage("hash") = "sidecar"
  /\ NextStage("sidecar") = "idle"
<1>1. DOMAIN Pipeline = 1 .. 5 /\ Len(Pipeline) = 5
  BY DEF Pipeline
<1>2. /\ Pipeline[1] = "read" /\ Pipeline[2] = "snapshot" /\ Pipeline[3] = "artifact"
      /\ Pipeline[4] = "hash" /\ Pipeline[5] = "sidecar"
  BY DEF Pipeline
<1>3. \A i \in 1 .. 5 : (CHOOSE j \in DOMAIN Pipeline : Pipeline[j] = Pipeline[i]) = i
  BY <1>1, <1>2
<1> QED BY <1>1, <1>2, <1>3 DEF NextStage

(***************************************************************************)
(* The inductive invariant                                                 *)
(***************************************************************************)

\* What a run holds at each stage.
RunOK(run) ==
  /\ run \in Run
  /\ run.at = "idle" => run = Resting
  /\ run.open => run.at \in Outputs
  /\ run.at \in {"snapshot", "artifact"} => run.got = Nothing
  /\ run.at = "hash" => DOMAIN run.got \subseteq Hashed
  /\ run.at = "sidecar" => DOMAIN run.got = Hashed
  /\ run.at \in {"snapshot", "artifact", "hash", "sidecar"} => run.tree \in Trees
  /\ run.at = "read" => run.tree = Nothing

\* What an undisturbed run has read of the hashed files still is their content.
UpToDate(run) ==
  ~run.raced => \A f \in Hashed : /\ f \in DOMAIN run.got => run.got[f] = workingTree[f]
                                  /\ f \in DOMAIN run.tree => run.tree[f] = workingTree[f]

\* What an undisturbed run has written still is on disk.
Stored(run) ==
  ~run.raced =>
    /\ run.open => artifacts[run.at] = Unreadable
    /\ run.at \in {"artifact", "hash", "sidecar"} => artifacts["snapshot"] = run.tree
    /\ run.at \in {"hash", "sidecar"} => artifacts["artifact"] = run.tree

\* The run has touched a file; it has touched the artifact.
Wrote(run) == run.open \/ run.at \in {"artifact", "hash", "sidecar"}
WroteArtifact(run) == run.at \in {"hash", "sidecar"} \/ (run.at = "artifact" /\ run.open)

RunsOK ==
  /\ workingTree \in Trees
  /\ DOMAIN artifacts = Outputs
  /\ artifacts["artifact"] \in Trees \cup {Unreadable}
  /\ DOMAIN generation = Generators
  /\ \A g \in Generators : /\ RunOK(generation[g])
                           /\ UpToDate(generation[g])
                           /\ Stored(generation[g])

\* The sidecar belongs to the artifact; and the snapshot does, too.
Vouched ==
  \/ artifacts["artifact"] = Unreadable /\ artifacts["sidecar"] = Unreadable
  \/ /\ artifacts["artifact"] \in Trees
     /\ artifacts["sidecar"] = [f \in Hashed |-> artifacts["artifact"][f]]

Together ==
  \/ \A o \in Outputs : artifacts[o] = Unreadable
  \/ /\ artifacts["artifact"] \in Trees
     /\ artifacts["snapshot"] = artifacts["artifact"]
     /\ artifacts["sidecar"] = [f \in Hashed |-> artifacts["artifact"][f]]

\* No file is left over from a run that was cut short or disturbed.
Clean == ~suspect /\ \A g \in Generators : Wrote(generation[g]) => ~generation[g].raced

OnDisk ==
  /\ ~suspect /\ (\A g \in Generators : ~Wrote(generation[g])) => Together
  /\ Clean /\ (\A g \in Generators : ~WroteArtifact(generation[g])) => Vouched

\* What a reader holds it has read during its call; what it will find in the
\* artifact once the sidecar matched was the files' content during its call.
ReaderOK(call) ==
  /\ call \in Reading
  /\ call.at # "idle" =>
       /\ \A f \in Files : workingTree[f] \in call.was[f]
       /\ \A f \in DOMAIN call.got : call.got[f] \in call.was[f]
  /\ call.at = "artifact" /\ Clean /\ artifacts["artifact"] # Unreadable =>
       \A f \in Hashed : artifacts["artifact"][f] \in call.was[f]
  /\ call.at = "done" /\ ~call.doubt => \A f \in Hashed : call.result[f] \in call.was[f]

ReadersOK == DOMAIN reader = Readers /\ \A r \in Readers : ReaderOK(reader[r])

IInv == RunsOK /\ OnDisk /\ ReadersOK

-----------------------------------------------------------------------------
LEMMA TreeType ==
  /\ \A t : t \in PartialTrees <=> t \in [DOMAIN t -> Contents] /\ DOMAIN t \subseteq Files
  /\ Nothing \in PartialTrees /\ DOMAIN Nothing = {}
  /\ Trees \subseteq PartialTrees
BY DEF PartialTrees, Trees, Nothing

LEMMA ReadingOne ==
  ASSUME workingTree \in Trees, NEW got \in PartialTrees, NEW f \in Files
  PROVE  /\ WithFile(got, f) \in PartialTrees
         /\ DOMAIN WithFile(got, f) = DOMAIN got \cup {f}
         /\ \A h \in DOMAIN got \cup {f} : WithFile(got, f)[h] = IF h = f THEN workingTree[f] ELSE got[h]
<1>1. /\ DOMAIN WithFile(got, f) = DOMAIN got \cup {f}
      /\ \A h \in DOMAIN got \cup {f} : WithFile(got, f)[h] = IF h = f THEN workingTree[f] ELSE got[h]
  BY DEF WithFile
<1>2. /\ got \in [DOMAIN got -> Contents] /\ DOMAIN got \subseteq Files
      /\ workingTree[f] \in Contents
  BY TreeType DEF Trees
<1>3. WithFile(got, f) \in [DOMAIN got \cup {f} -> Contents]
  BY <1>2 DEF WithFile
<1> QED BY <1>1, <1>2, <1>3, TreeType

LEMMA RestingOK == RunOK(Resting) /\ UpToDate(Resting) /\ Stored(Resting)
                   /\ ~Wrote(Resting) /\ ~WroteArtifact(Resting)
BY TreeType DEF RunOK, UpToDate, Stored, Wrote, WroteArtifact, Resting, Run, Stages, Outputs

\* A step of one run that touches no file.
LEMMA OwnStep ==
  ASSUME IInv, NEW g \in Generators, NEW run,
         generation' = [generation EXCEPT ![g] = run],
         UNCHANGED <<workingTree, artifacts, reader, suspect>>,
         RunOK(run), UpToDate(run), Stored(run),
         Wrote(run) <=> Wrote(generation[g]), WroteArtifact(run) <=> WroteArtifact(generation[g]),
         Wrote(run) => run.raced = generation[g].raced
  PROVE  IInv'
<1>1. /\ DOMAIN generation' = Generators /\ generation'[g] = run
      /\ \A h \in Generators : h # g => generation'[h] = generation[h]
  BY DEF IInv, RunsOK
<1>2. RunsOK'
  BY <1>1 DEF IInv, RunsOK, UpToDate, Stored
<1>3. /\ \A h \in Generators : Wrote(generation'[h]) <=> Wrote(generation[h])
      /\ \A h \in Generators : WroteArtifact(generation'[h]) <=> WroteArtifact(generation[h])
      /\ \A h \in Generators : Wrote(generation[h]) => generation'[h].raced = generation[h].raced
  BY <1>1
<1>4. Clean' <=> Clean
  BY <1>3 DEF Clean
<1>5. OnDisk'
  BY <1>3, <1>4 DEF IInv, OnDisk, Vouched, Together
<1>6. ReadersOK'
  BY <1>4 DEF IInv, ReadersOK, ReaderOK
<1> QED BY <1>2, <1>5, <1>6 DEF IInv

\* A step of one reader.
LEMMA ReaderStep ==
  ASSUME IInv, NEW r \in Readers, NEW call,
         reader' = [reader EXCEPT ![r] = call],
         UNCHANGED <<workingTree, artifacts, generation, suspect>>,
         ReaderOK(call)
  PROVE  IInv'
<1>1. RunsOK' /\ OnDisk' /\ (Clean' <=> Clean)
  BY DEF IInv, RunsOK, UpToDate, Stored, OnDisk, Clean, Vouched, Together
<1>2. /\ DOMAIN reader' = Readers /\ reader'[r] = call
      /\ \A q \in Readers : q # r => reader'[q] = reader[q]
  BY DEF IInv, ReadersOK
<1>3. ReadersOK'
  BY <1>1, <1>2 DEF IInv, ReadersOK, ReaderOK
<1> QED BY <1>1, <1>3 DEF IInv

-----------------------------------------------------------------------------
(***************************************************************************)
(* The steps of a run                                                      *)
(***************************************************************************)

LEMMA RunStep ==
  ASSUME IInv, NEW g \in Generators,
         \/ Begin(g) \/ Computed(g) \/ Blocked(g) \/ Fingerprinted(g)
         \/ \E f \in Files : ReadFile(g, f)
  PROVE  IInv'
<1> DEFINE run == generation[g]
<1>1. /\ RunOK(run) /\ UpToDate(run) /\ Stored(run)
      /\ run \in Run /\ DOMAIN generation = Generators /\ workingTree \in Trees
  BY DEF IInv, RunsOK, RunOK
<1>2. CASE Begin(g)
  <2> DEFINE new == [Resting EXCEPT !.at = "read"]
  <2>1. /\ new.at = "read" /\ ~new.open /\ new.got = Nothing /\ new.tree = Nothing /\ ~new.raced
        /\ new \in Run
    BY TreeType DEF Resting, Run, Stages
  <2>2. RunOK(new) /\ UpToDate(new) /\ Stored(new) /\ ~Wrote(new) /\ ~WroteArtifact(new)
    BY <2>1, TreeType DEF RunOK, UpToDate, Stored, Wrote, WroteArtifact
  <2>3. ~Wrote(run) /\ ~WroteArtifact(run)
    BY <1>1, <1>2, RestingOK DEF Begin, RunOK
  <2> HIDE DEF new
  <2>4. generation' = [generation EXCEPT ![g] = new]
    BY <1>2 DEF Begin, new
  <2> QED BY <1>2, <2>2, <2>3, <2>4, OwnStep DEF Begin
<1>3. CASE Computed(g)
  <2> DEFINE new == [run EXCEPT !.at = "snapshot", !.tree = run.got, !.got = Nothing]
  <2>0. run.at = "read" /\ ~run.open /\ DOMAIN run.got = Files /\ run.got \in PartialTrees
    BY <1>1, <1>3 DEF Computed, RunOK, Run, Outputs
  <2>1. /\ new.at = "snapshot" /\ ~new.open /\ new.got = Nothing /\ new.tree = run.got
        /\ new.raced = run.raced /\ new \in Run
    BY <1>1, <2>0, TreeType DEF Run, Stages
  <2>2. run.got \in Trees
    BY <2>0, TreeType DEF Trees
  <2>3. UpToDate(new)
    BY <1>1, <2>1, TreeType DEF UpToDate
  <2>4. RunOK(new) /\ Stored(new) /\ ~Wrote(new) /\ ~WroteArtifact(new)
    BY <2>1, <2>2 DEF RunOK, Stored, Wrote, WroteArtifact, Outputs
  <2>5. ~Wrote(run) /\ ~WroteArtifact(run)
    BY <2>0 DEF Wrote, WroteArtifact
  <2>6. generation' = [generation EXCEPT ![g] = new]
    BY <1>1, <1>3, StageOrder DEF Computed
  <2> HIDE DEF new
  <2> QED BY <1>3, <2>3, <2>4, <2>5, <2>6, OwnStep DEF Computed
<1>4. CASE Blocked(g)
  <2>1. ~Wrote(run) /\ ~WroteArtifact(run)
    BY <1>1, <1>4 DEF Blocked, RunOK, Wrote, WroteArtifact, Outputs
  <2> QED BY <1>4, <2>1, RestingOK, OwnStep DEF Blocked
<1>5. CASE Fingerprinted(g)
  <2> DEFINE new == [run EXCEPT !.at = "sidecar"]
  <2>0. run.at = "hash" /\ ~run.open /\ DOMAIN run.got = Hashed /\ run.tree \in Trees
    BY <1>1, <1>5 DEF Fingerprinted, RunOK, Outputs
  <2>1. /\ new.at = "sidecar" /\ ~new.open /\ new.got = run.got /\ new.tree = run.tree
        /\ new.raced = run.raced /\ new \in Run
    BY <1>1, <2>0 DEF Run, Stages
  <2>2. RunOK(new) /\ UpToDate(new)
    BY <1>1, <2>0, <2>1 DEF RunOK, UpToDate, Outputs
  <2>3. Stored(new)
    BY <1>1, <2>0, <2>1 DEF Stored
  <2>4. Wrote(run) /\ WroteArtifact(run) /\ Wrote(new) /\ WroteArtifact(new)
    BY <2>0, <2>1 DEF Wrote, WroteArtifact
  <2>5. generation' = [generation EXCEPT ![g] = new]
    BY <1>1, <1>5, StageOrder DEF Fingerprinted
  <2> HIDE DEF new
  <2> QED BY <1>5, <2>1, <2>2, <2>3, <2>4, <2>5, OwnStep DEF Fingerprinted, new
<1>6. ASSUME NEW f \in Files, ReadFile(g, f)
      PROVE  IInv'
  <2> DEFINE new == [run EXCEPT !.got = WithFile(run.got, f)]
  <2>0. run.at \in {"read", "hash"} /\ f \in Inputs(run.at) /\ run.got \in PartialTrees
    BY <1>1, <1>6 DEF ReadFile, Run
  <2>1. /\ WithFile(run.got, f) \in PartialTrees
        /\ DOMAIN WithFile(run.got, f) = DOMAIN run.got \cup {f}
        /\ \A h \in DOMAIN run.got \cup {f} :
             WithFile(run.got, f)[h] = IF h = f THEN workingTree[f] ELSE run.got[h]
    BY <1>1, <2>0, ReadingOne
  <2>2. /\ new.at = run.at /\ new.open = run.open /\ new.got = WithFile(run.got, f)
        /\ new.tree = run.tree /\ new.raced = run.raced /\ new \in Run
    BY <1>1, <2>1 DEF Run
  <2>3. RunOK(new)
    BY <1>1, <2>0, <2>1, <2>2 DEF RunOK, Inputs
  <2>4. UpToDate(new)
    BY <1>1, <2>1, <2>2 DEF UpToDate
  <2>5. Stored(new) /\ (Wrote(new) <=> Wrote(run)) /\ (WroteArtifact(new) <=> WroteArtifact(run))
    BY <1>1, <2>2 DEF Stored, Wrote, WroteArtifact
  <2>6. generation' = [generation EXCEPT ![g] = new]
    BY <1>1, <1>6 DEF ReadFile
  <2> HIDE DEF new
  <2> QED BY <1>6, <2>2, <2>3, <2>4, <2>5, <2>6, OwnStep DEF ReadFile
<1> QED BY <1>2, <1>3, <1>4, <1>5, <1>6

LEMMA InterruptStep ==
  ASSUME IInv, NEW g \in Generators, Interrupt(g)
  PROVE  IInv'
<1>1. /\ DOMAIN generation' = Generators /\ generation'[g] = Resting
      /\ \A h \in Generators : h # g => generation'[h] = generation[h]
      /\ UNCHANGED <<workingTree, artifacts, reader>>
      /\ suspect' = (suspect \/ Wrote(generation[g]))
  BY DEF Interrupt, IInv, RunsOK, WroteSomething, Wrote
<1>2. CASE Wrote(generation[g])
  <2>1. suspect' = TRUE
    BY <1>1, <1>2
  <2>2. RunsOK'
    BY <1>1, RestingOK DEF IInv, RunsOK, UpToDate, Stored
  <2>3. OnDisk' /\ ~Clean'
    BY <2>1 DEF OnDisk, Clean
  <2>4. ReadersOK'
    BY <1>1, <2>3 DEF IInv, ReadersOK, ReaderOK
  <2> QED BY <2>2, <2>3, <2>4 DEF IInv
<1>3. CASE ~Wrote(generation[g])
  <2>1. ~WroteArtifact(generation[g])
    BY <1>3 DEF Wrote, WroteArtifact
  <2>2. ~Wrote(Resting) /\ ~WroteArtifact(Resting) /\ RunOK(Resting) /\ UpToDate(Resting) /\ Stored(Resting)
    BY RestingOK
  <2>3. RunsOK'
    BY <1>1, <2>2 DEF IInv, RunsOK, UpToDate, Stored
  <2>4. /\ \A h \in Generators : Wrote(generation'[h]) <=> Wrote(generation[h])
        /\ \A h \in Generators : WroteArtifact(generation'[h]) <=> WroteArtifact(generation[h])
        /\ \A h \in Generators : Wrote(generation[h]) => generation'[h].raced = generation[h].raced
    BY <1>1, <1>3, <2>1, <2>2
  <2>5. (Clean' => Clean) /\ (suspect' => Wrote(generation[g]) \/ suspect) /\ (suspect => suspect')
    BY <1>1, <1>3, <2>4 DEF Clean
  <2>6. OnDisk'
    BY <1>1, <2>4, <2>5 DEF IInv, OnDisk, Vouched, Together
  <2>7. ReadersOK'
    BY <1>1, <2>5 DEF IInv, ReadersOK, ReaderOK
  <2> QED BY <2>3, <2>6, <2>7 DEF IInv
<1> QED BY <1>2, <1>3

-----------------------------------------------------------------------------
(***************************************************************************)
(* The writes                                                              *)
(***************************************************************************)

\* A run that another one's write disturbs.
LEMMA Disturbed ==
  ASSUME NEW run, RunOK(run), NEW new,
         new = IF run.at = "idle" THEN run ELSE [run EXCEPT !.raced = TRUE]
  PROVE  /\ RunOK(new)
         /\ new.raced \/ new = Resting
         /\ Wrote(new) <=> Wrote(run)
         /\ WroteArtifact(new) <=> WroteArtifact(run)
         /\ Wrote(run) => new.raced
<1>1. CASE run.at = "idle"
  <2>1. new = Resting /\ run = Resting
    BY <1>1 DEF RunOK
  <2> QED BY <2>1, RestingOK
<1>2. CASE run.at # "idle"
  <2>1. /\ new \in Run /\ new.at = run.at /\ new.open = run.open /\ new.got = run.got
        /\ new.tree = run.tree /\ new.raced
    BY <1>2 DEF RunOK, Run
  <2> QED BY <1>2, <2>1 DEF RunOK, Wrote, WroteArtifact
<1> QED BY <1>1, <1>2

\* What opening and closing a file have in common.
LEMMA WriteEffect ==
  ASSUME IInv, NEW g \in Generators, NEW new, generation' = [Race(g) EXCEPT ![g] = new]
  PROVE  /\ DOMAIN generation' = Generators /\ generation'[g] = new
         /\ \A h \in Generators : h # g =>
              /\ RunOK(generation'[h])
              /\ generation'[h].raced \/ generation'[h] = Resting
              /\ Wrote(generation'[h]) <=> Wrote(generation[h])
              /\ WroteArtifact(generation'[h]) <=> WroteArtifact(generation[h])
              /\ Wrote(generation[h]) => generation'[h].raced
<1>1. DOMAIN generation' = Generators /\ generation'[g] = new
  BY DEF Race
<1>2. ASSUME NEW h \in Generators, h # g
      PROVE  generation'[h] = IF generation[h].at = "idle" THEN generation[h]
                              ELSE [generation[h] EXCEPT !.raced = TRUE]
  BY <1>2 DEF Race
<1>3. \A h \in Generators : RunOK(generation[h])
  BY DEF IInv, RunsOK
<1> QED BY <1>1, <1>2, <1>3, Disturbed

LEMMA RestingFields ==
  Resting.at = "idle" /\ ~Resting.open /\ DOMAIN Resting.got = {} /\ DOMAIN Resting.tree = {}
BY TreeType DEF Resting

LEMMA TogetherVouched == Together => Vouched
  BY DEF Together, Vouched, Outputs

LEMMA OpenStep ==
  ASSUME IInv, NEW g \in Generators, OpenFile(g)
  PROVE  IInv'
<1> DEFINE run == generation[g]
           new == [run EXCEPT !.open = TRUE]
<1>1. /\ RunOK(run) /\ UpToDate(run) /\ Stored(run) /\ run \in Run /\ DOMAIN artifacts = Outputs
      /\ DOMAIN generation = Generators /\ workingTree \in Trees
      /\ artifacts["artifact"] \in Trees \cup {Unreadable}
  BY DEF IInv, RunsOK, RunOK
<1>2. /\ run.at \in Outputs /\ ~run.open /\ UNCHANGED <<workingTree, reader, suspect>>
      /\ artifacts' = [artifacts EXCEPT ![run.at] = Unreadable]
  BY DEF OpenFile
<1>3. /\ new \in Run /\ new.at = run.at /\ new.open /\ new.got = run.got
      /\ new.tree = run.tree /\ new.raced = run.raced
  BY <1>1 DEF Run
<1>4. /\ DOMAIN generation' = Generators /\ generation'[g] = new
      /\ \A h \in Generators : h # g =>
              /\ RunOK(generation'[h])
              /\ generation'[h].raced \/ generation'[h] = Resting
              /\ Wrote(generation'[h]) <=> Wrote(generation[h])
              /\ WroteArtifact(generation'[h]) <=> WroteArtifact(generation[h])
              /\ Wrote(generation[h]) => generation'[h].raced
  <2>1. Race(g)[g] = run /\ DOMAIN Race(g) = Generators
    BY DEF Race
  <2>2. generation' = [Race(g) EXCEPT ![g] = new]
    BY <2>1 DEF OpenFile
  <2> HIDE DEF new
  <2> QED BY <2>2, WriteEffect
<1> HIDE DEF new
<1>5. RunsOK'
  <2>1. RunOK(new)
    BY <1>1, <1>2, <1>3 DEF RunOK, Outputs
  <2>2. UpToDate(generation[g])'
    BY <1>1, <1>2, <1>3, <1>4 DEF UpToDate
  <2>3. Stored(generation[g])'
    BY <1>1, <1>2, <1>3, <1>4 DEF Stored, Outputs
  <2>4. \A h \in Generators : h # g => UpToDate(generation[h])' /\ Stored(generation[h])'
    BY <1>4, RestingFields DEF UpToDate, Stored
  <2> QED BY <1>1, <1>2, <1>4, <2>1, <2>2, <2>3, <2>4 DEF RunsOK, Outputs
<1>6. Wrote(new) /\ (Wrote(run) /\ ~new.raced => ~run.raced)
  BY <1>3 DEF Wrote
<1>7. Clean' => Clean /\ \A h \in Generators : h # g => ~Wrote(generation[h])
  BY <1>2, <1>3, <1>4, <1>6 DEF Clean
<1>8. OnDisk'
  <2>1. Wrote(generation'[g])
    BY <1>4, <1>6
  <2>2. ASSUME Clean', ~WroteArtifact(new)
        PROVE  Vouched'
    <3>1. run.at = "snapshot"
      BY <1>2, <1>3, <2>2 DEF WroteArtifact, Outputs
    <3>2. ~suspect /\ \A h \in Generators : ~Wrote(generation[h])
      BY <1>2, <1>7, <2>2, <3>1 DEF Wrote, Clean
    <3>3. Vouched
      BY <3>2, TogetherVouched DEF IInv, OnDisk
    <3> QED BY <1>1, <1>2, <3>1, <3>3 DEF Vouched, Outputs
  <2> QED BY <1>4, <2>1, <2>2 DEF OnDisk
<1>9. ReadersOK'
  <2>1. artifacts'["artifact"] = Unreadable \/ artifacts'["artifact"] = artifacts["artifact"]
    BY <1>1, <1>2 DEF Outputs
  <2> QED BY <1>2, <1>7, <2>1 DEF IInv, ReadersOK, ReaderOK
<1> QED BY <1>5, <1>8, <1>9 DEF IInv

LEMMA CloseStep ==
  ASSUME IInv, NEW g \in Generators, CloseFile(g)
  PROVE  IInv'
<1> DEFINE run == generation[g]
           new == StageDone(g)
           Others == \A h \in Generators : h # g =>
              /\ RunOK(generation'[h])
              /\ generation'[h].raced \/ generation'[h] = Resting
              /\ Wrote(generation'[h]) <=> Wrote(generation[h])
              /\ WroteArtifact(generation'[h]) <=> WroteArtifact(generation[h])
              /\ Wrote(generation[h]) => generation'[h].raced
<1>1. /\ RunOK(run) /\ UpToDate(run) /\ Stored(run) /\ run \in Run /\ DOMAIN artifacts = Outputs
      /\ DOMAIN generation = Generators /\ workingTree \in Trees
      /\ artifacts["artifact"] \in Trees \cup {Unreadable}
  BY DEF IInv, RunsOK, RunOK
<1>2. /\ run.open /\ run.at \in Outputs /\ run.tree \in Trees /\ UNCHANGED <<workingTree, reader>>
      /\ artifacts' = [artifacts EXCEPT ![run.at] = Payload(g)]
      /\ suspect' = IF NextStage(run.at) = "idle" THEN run.raced ELSE suspect
  BY <1>1 DEF CloseFile, RunOK, Outputs
<1>3. DOMAIN generation' = Generators /\ generation'[g] = new /\ Others
  <2>1. generation' = [Race(g) EXCEPT ![g] = new]
    BY DEF CloseFile
  <2> HIDE DEF new
  <2> QED BY <2>1, WriteEffect
<1>4. \A h \in Generators : h # g => UpToDate(generation[h])' /\ Stored(generation[h])'
  BY <1>3, RestingFields DEF UpToDate, Stored
<1> HIDE DEF new
<1>5. Wrote(run) /\ (WroteArtifact(run) <=> run.at # "snapshot")
  BY <1>2 DEF Wrote, WroteArtifact, Outputs
<1>6. \A r \in Readers : reader[r].at # "idle" => \A f \in Files : workingTree[f] \in reader[r].was[f]
  BY DEF IInv, ReadersOK, ReaderOK
<1>7. CASE run.at # "sidecar"
  <2>1. /\ new.at = NextStage(run.at) /\ ~new.open /\ new.got = run.got /\ new.tree = run.tree
        /\ new.raced = run.raced /\ new.at \in {"artifact", "hash"} /\ new \in Run
        /\ Payload(g) = run.tree
    BY <1>1, <1>2, <1>7, StageOrder DEF new, StageDone, Payload, Run, Stages, Outputs
  <2>2. Wrote(new) /\ (WroteArtifact(new) <=> run.at = "artifact") /\ suspect' = suspect
    BY <1>2, <1>7, <2>1, StageOrder DEF Wrote, WroteArtifact, Outputs
  <2>3. RunsOK'
    <3>1. RunOK(new)
      BY <1>1, <1>2, <1>7, <2>1, StageOrder, TreeType DEF RunOK, Outputs
    <3>2. UpToDate(generation[g])'
      BY <1>1, <1>2, <1>3, <2>1 DEF UpToDate
    <3>3. Stored(generation[g])'
      BY <1>1, <1>2, <1>3, <1>7, <2>1, StageOrder DEF Stored, Outputs
    <3> QED BY <1>1, <1>2, <1>3, <1>4, <2>1, <3>1, <3>2, <3>3 DEF RunsOK, Outputs
  <2>4. Clean' => Clean /\ ~run.raced
    BY <1>3, <1>5, <2>1, <2>2 DEF Clean
  <2>5. OnDisk'
    <3>1. Wrote(generation'[g])
      BY <1>3, <2>2
    <3>2. ASSUME Clean', \A h \in Generators : ~WroteArtifact(generation'[h])
          PROVE  Vouched'
      <4>1. run.at = "snapshot" /\ Clean
        BY <1>2, <1>3, <1>7, <2>2, <2>4, <3>2 DEF Outputs
      <4>2. \A h \in Generators : ~WroteArtifact(generation[h])
        BY <1>3, <1>5, <3>2, <4>1
      <4>3. Vouched
        BY <4>1, <4>2 DEF IInv, OnDisk
      <4> QED BY <1>1, <1>2, <4>1, <4>3 DEF Vouched, Outputs
    <3> QED BY <3>1, <3>2 DEF OnDisk
  <2>6. ReadersOK'
    <3>1. Clean' /\ run.at = "artifact" => \A f \in Hashed : artifacts'["artifact"][f] = workingTree[f]
      BY <1>1, <1>2, <2>1, <2>4, FilesAssumption DEF UpToDate, Outputs, Trees
    <3>2. run.at # "artifact" => artifacts'["artifact"] = artifacts["artifact"]
      BY <1>1, <1>2 DEF Outputs
    <3> QED BY <1>2, <1>6, <2>4, <3>1, <3>2, FilesAssumption DEF IInv, ReadersOK, ReaderOK
  <2> QED BY <2>3, <2>5, <2>6 DEF IInv
<1>8. CASE run.at = "sidecar"
  <2>1. new = Resting /\ Payload(g) = run.got /\ suspect' = run.raced
    BY <1>2, <1>8, StageOrder DEF new, StageDone, Payload
  <2>2. RunsOK'
    <3>1. RunOK(generation'[g]) /\ UpToDate(generation[g])' /\ Stored(generation[g])'
      BY <1>3, <2>1, RestingOK, RestingFields DEF UpToDate, Stored
    <3> QED BY <1>1, <1>2, <1>3, <1>4, <1>8, <3>1 DEF RunsOK, Outputs
  <2>3. ASSUME ~run.raced
        PROVE  /\ Together' /\ Vouched'
               /\ \A f \in Hashed : artifacts'["artifact"][f] = workingTree[f]
    <3>1. /\ artifacts["snapshot"] = run.tree /\ artifacts["artifact"] = run.tree
          /\ \A f \in Hashed : run.tree[f] = workingTree[f]
          /\ DOMAIN run.got = Hashed /\ \A f \in Hashed : run.got[f] = workingTree[f]
      BY <1>1, <1>2, <1>8, <2>3, FilesAssumption DEF Stored, UpToDate, RunOK, Trees
    <3>2. run.got = [f \in Hashed |-> run.tree[f]]
      <4>1. run.got = [f \in DOMAIN run.got |-> run.got[f]]
        BY <1>1, TreeType DEF Run
      <4> QED BY <3>1, <4>1
    <3>3. /\ artifacts'["snapshot"] = run.tree /\ artifacts'["artifact"] = run.tree
          /\ artifacts'["sidecar"] = run.got
      BY <1>1, <1>2, <1>8, <2>1, <3>1 DEF Outputs
    <3>4. Together'
      BY <1>2, <3>2, <3>3 DEF Together
    <3>5. Vouched'
      BY <1>2, <3>2, <3>3 DEF Vouched
    <3> QED BY <3>1, <3>3, <3>4, <3>5
  <2>4. ~suspect' => ~run.raced
    BY <2>1
  <2>5. OnDisk'
    BY <2>3, <2>4 DEF OnDisk, Clean
  <2>6. ReadersOK'
    <3>1. Clean' => \A f \in Hashed : artifacts'["artifact"][f] = workingTree[f]
      BY <2>3, <2>4 DEF Clean
    <3> QED BY <1>2, <1>6, <3>1, FilesAssumption DEF IInv, ReadersOK, ReaderOK
  <2> QED BY <2>2, <2>5, <2>6 DEF IInv
<1> QED BY <1>7, <1>8

-----------------------------------------------------------------------------
(***************************************************************************)
(* The user and the readers                                                *)
(***************************************************************************)

LEMMA EditStep ==
  ASSUME IInv, NEW f \in Files, NEW c \in Contents, EditInput(f, c)
  PROVE  IInv'
<1>1. /\ workingTree \in Trees /\ DOMAIN generation = Generators /\ DOMAIN reader = Readers
      /\ \A g \in Generators : /\ generation[g] \in Run
                               /\ RunOK(generation[g])
                               /\ UpToDate(generation[g])
                               /\ Stored(generation[g])
  BY DEF IInv, RunsOK, RunOK, ReadersOK
<1>2. /\ workingTree' = [workingTree EXCEPT ![f] = c] /\ UNCHANGED <<artifacts, suspect>>
      /\ workingTree' \in Trees
  BY <1>1 DEF EditInput, Trees
<1> DEFINE Hits(run) == f \in Hashed /\ run.at # "idle" /\ (run.at = "read" => f \in DOMAIN run.got)
<1>3. DOMAIN generation' = Generators /\ DOMAIN reader' = Readers
  BY <1>1 DEF EditInput
<1>4. ASSUME NEW g \in Generators
      PROVE  generation'[g] = [generation[g] EXCEPT !.raced = @ \/ Hits(generation[g])]
  BY DEF EditInput
<1>5. ASSUME NEW g \in Generators
      PROVE  /\ RunOK(generation'[g]) /\ UpToDate(generation[g])' /\ Stored(generation[g])'
             /\ Wrote(generation'[g]) <=> Wrote(generation[g])
             /\ WroteArtifact(generation'[g]) <=> WroteArtifact(generation[g])
             /\ generation[g].raced => generation'[g].raced
  <2> DEFINE run == generation[g]
             new == generation'[g]
           raced == run.raced \/ Hits(run)
  <2>0. new = [run EXCEPT !.raced = raced] /\ raced \in BOOLEAN /\ run \in Run
    BY <1>1, <1>4
  <2>a. run.at = "idle" => ~raced /\ run = Resting
    BY <1>1 DEF RunOK, Resting
  <2>b. raced <=> run.raced \/ Hits(run)
    OBVIOUS
  <2> HIDE DEF raced, new
  <2>1. /\ new \in Run /\ new.at = run.at /\ new.open = run.open /\ new.got = run.got
        /\ new.tree = run.tree /\ new.raced = raced
    BY <2>0 DEF Run
  <2>2. run.at = "idle" => new = run
    <3> SUFFICES ASSUME run.at = "idle" PROVE new = run
      OBVIOUS
    <3>1. raced = FALSE /\ run = Resting
      BY <2>0, <2>a
    <3>2. run \in Run /\ run.raced = FALSE
      BY <2>0, <3>1 DEF Resting
    <3> QED BY <2>0, <3>1, <3>2 DEF Run
  <2>3. ASSUME ~new.raced
        PROVE  \A h \in Hashed : /\ h \in DOMAIN new.got => new.got[h] = workingTree'[h]
                                 /\ h \in DOMAIN new.tree => new.tree[h] = workingTree'[h]
    <3>1. ~run.raced /\ ~Hits(run)
      BY <2>1, <2>3, <2>b
    <3>2. f \in Hashed => run.at = "idle" \/ (run.at = "read" /\ f \notin DOMAIN run.got)
      BY <3>1
    <3>3. f \in Hashed => f \notin DOMAIN run.got /\ f \notin DOMAIN run.tree
      BY <1>1, <3>2, RestingFields, TreeType DEF RunOK
    <3>4. \A h \in Hashed : h # f => workingTree'[h] = workingTree[h]
      BY <1>1, <1>2, FilesAssumption DEF Trees
    <3> QED BY <1>1, <2>1, <3>1, <3>3, <3>4 DEF UpToDate
  <2>4. UpToDate(generation[g])'
    BY <2>3 DEF UpToDate, new
  <2>5. RunOK(new) /\ (Wrote(new) <=> Wrote(run)) /\ (WroteArtifact(new) <=> WroteArtifact(run))
    BY <1>1, <2>1, <2>2 DEF RunOK, Wrote, WroteArtifact
  <2>6. Stored(generation[g])'
    BY <1>1, <1>2, <2>1, <2>b DEF Stored, new
  <2> QED BY <2>1, <2>4, <2>5, <2>6, <2>b DEF new
<1>6. RunsOK'
  BY <1>2, <1>3, <1>5 DEF IInv, RunsOK
<1>7. Clean' => Clean
  BY <1>2, <1>5 DEF Clean
<1>8. OnDisk'
  BY <1>2, <1>5, <1>7 DEF IInv, OnDisk, Vouched, Together
<1>9. ASSUME NEW r \in Readers
      PROVE  ReaderOK(reader[r])'
  <2> DEFINE call == reader[r]
             new == reader'[r]
  <2>1. ReaderOK(call)
    BY DEF IInv, ReadersOK
  <2>2. new = IF call.at = "idle" THEN call ELSE [call EXCEPT !.was[f] = @ \cup {c}]
    BY DEF EditInput
  <2>3. CASE call.at = "idle"
    BY <2>1, <2>2, <2>3 DEF ReaderOK
  <2>4. CASE call.at # "idle"
    <3>0. call \in Reading
      BY <2>1 DEF ReaderOK
    <3> DEFINE was == [call.was EXCEPT ![f] = @ \cup {c}]
    <3>a. call.was \in [Files -> SUBSET Contents]
      BY <3>0 DEF Reading
    <3>b. /\ was \in [Files -> SUBSET Contents]
          /\ \A h \in Files : was[h] = IF h = f THEN call.was[h] \cup {c} ELSE call.was[h]
      BY <3>a
    <3>c. new = [call EXCEPT !.was = was]
      BY <2>2, <2>4
    <3> HIDE DEF was
    <3>1. /\ new.at = call.at /\ new.got = call.got /\ new.result = call.result /\ new.doubt = call.doubt
          /\ \A h \in Files : new.was[h] = IF h = f THEN call.was[h] \cup {c} ELSE call.was[h]
          /\ new \in Reading
      BY <3>0, <3>b, <3>c DEF Reading
    <3>2. \A h \in Files : workingTree'[h] \in new.was[h]
      BY <1>1, <1>2, <2>1, <2>4, <3>1 DEF ReaderOK, Trees
    <3>3. \A h \in Files : call.was[h] \subseteq new.was[h]
      BY <3>1
    <3>4. DOMAIN call.got \subseteq Files
      BY <3>0, TreeType DEF Reading
    <3> QED
      BY <1>2, <1>7, <2>1, <2>4, <3>1, <3>2, <3>3, <3>4, FilesAssumption DEF ReaderOK
  <2> QED BY <2>3, <2>4
<1> QED BY <1>3, <1>6, <1>8, <1>9 DEF IInv, ReadersOK

LEMMA ReaderSteps ==
  ASSUME IInv, NEW r \in Readers,
         \/ Call(r) \/ CompareSidecar(r) \/ ReadArtifact(r) \/ Recomputed(r) \/ Return(r)
         \/ \E f \in Files : HashFile(r, f)
  PROVE  IInv'
<1> DEFINE call == reader[r]
<1>1. ReaderOK(call) /\ call \in Reading /\ DOMAIN reader = Readers /\ workingTree \in Trees
  BY DEF IInv, ReadersOK, ReaderOK, RunsOK
<1>2. CASE Call(r)
  <2> DEFINE new == [NotCalled EXCEPT !.at = "hash", !.was = [f \in Files |-> {workingTree[f]}]]
  <2> DEFINE now == [f \in Files |-> {workingTree[f]}]
  <2>1. now \in [Files -> SUBSET Contents] /\ \A f \in Files : workingTree[f] \in now[f]
    BY <1>1 DEF Trees
  <2>2. NotCalled \in Reading /\ NotCalled.got = Nothing
    BY TreeType DEF NotCalled, Reading, ReaderStages
  <2>3. new = [NotCalled EXCEPT !.at = "hash", !.was = now]
    OBVIOUS
  <2> HIDE DEF now
  <2>a. new.at = "hash" /\ new.got = Nothing /\ new.was = now /\ new \in Reading
    BY <2>1, <2>2, <2>3 DEF Reading, ReaderStages
  <2>4. reader' = [reader EXCEPT ![r] = new]
    BY <1>2 DEF Call, now
  <2> HIDE DEF new
  <2>5. ReaderOK(new)
    BY <2>1, <2>a, TreeType DEF ReaderOK
  <2> QED BY <1>2, <2>4, <2>5, ReaderStep DEF Call
<1>3. CASE CompareSidecar(r)
  <2>1. call.at = "hash" /\ DOMAIN call.got = Hashed
    BY <1>3 DEF CompareSidecar
  <2>2. CASE artifacts["sidecar"] = call.got
    <3> DEFINE new == [call EXCEPT !.at = "artifact"]
    <3>1. /\ new.at = "artifact" /\ new.got = call.got /\ new.was = call.was /\ new.result = call.result
          /\ new.doubt = call.doubt /\ new \in Reading
      BY <1>1 DEF Reading, ReaderStages
    <3>2. ASSUME Clean, artifacts["artifact"] # Unreadable
          PROVE  \A f \in Hashed : artifacts["artifact"][f] \in call.was[f]
      <4>1. CASE \E g \in Generators : WroteArtifact(generation[g])
        <5>1. PICK g \in Generators : WroteArtifact(generation[g])
          BY <4>1
        <5>2. /\ ~generation[g].raced
              /\ RunOK(generation[g]) /\ UpToDate(generation[g]) /\ Stored(generation[g])
          BY <3>2, <5>1 DEF Clean, Wrote, WroteArtifact, IInv, RunsOK
        <5>3. artifacts["artifact"] = generation[g].tree /\ generation[g].tree \in Trees
          BY <3>2, <5>1, <5>2 DEF WroteArtifact, Stored, RunOK
        <5>4. \A f \in Hashed : artifacts["artifact"][f] = workingTree[f]
          BY <5>2, <5>3, FilesAssumption DEF UpToDate, Trees
        <5> QED BY <1>1, <2>1, <5>4, FilesAssumption DEF ReaderOK
      <4>2. CASE \A g \in Generators : ~WroteArtifact(generation[g])
        <5>1. artifacts["sidecar"] = [f \in Hashed |-> artifacts["artifact"][f]]
          BY <3>2, <4>2 DEF IInv, OnDisk, Vouched
        <5>2. \A f \in Hashed : artifacts["artifact"][f] = call.got[f]
          BY <2>2, <5>1
        <5> QED BY <1>1, <2>1, <5>2 DEF ReaderOK
      <4> QED BY <4>1, <4>2
    <3>3. reader' = [reader EXCEPT ![r] = new]
      BY <1>1, <1>3, <2>2 DEF CompareSidecar
    <3> HIDE DEF new
    <3>4. ReaderOK(new)
      BY <1>1, <2>1, <3>1, <3>2 DEF ReaderOK
    <3> QED BY <1>3, <3>3, <3>4, ReaderStep DEF CompareSidecar
  <2>3. CASE artifacts["sidecar"] # call.got
    <3> DEFINE new == [call EXCEPT !.at = "recompute", !.got = Nothing]
    <3>1. /\ new.at = "recompute" /\ new.got = Nothing /\ new.was = call.was /\ new \in Reading
      BY <1>1, TreeType DEF Reading, ReaderStages
    <3>2. reader' = [reader EXCEPT ![r] = new]
      BY <1>1, <1>3, <2>3 DEF CompareSidecar, Miss
    <3> HIDE DEF new
    <3>3. ReaderOK(new)
      BY <1>1, <2>1, <3>1, TreeType DEF ReaderOK
    <3> QED BY <1>3, <3>2, <3>3, ReaderStep DEF CompareSidecar
  <2> QED BY <2>2, <2>3
<1>4. CASE ReadArtifact(r)
  <2>1. call.at = "artifact"
    BY <1>4 DEF ReadArtifact
  <2>2. CASE artifacts["artifact"] = Unreadable
    <3> DEFINE new == [call EXCEPT !.at = "recompute", !.got = Nothing]
    <3>1. /\ new.at = "recompute" /\ new.got = Nothing /\ new.was = call.was /\ new \in Reading
      BY <1>1, TreeType DEF Reading, ReaderStages
    <3>2. reader' = [reader EXCEPT ![r] = new]
      BY <1>1, <1>4, <2>2 DEF ReadArtifact, Miss
    <3> HIDE DEF new
    <3>3. ReaderOK(new)
      BY <1>1, <2>1, <3>1, TreeType DEF ReaderOK
    <3> QED BY <1>4, <3>2, <3>3, ReaderStep DEF ReadArtifact
  <2>3. CASE artifacts["artifact"] # Unreadable
    <3> DEFINE doubt == Doubtful
               new == [call EXCEPT !.at = "done", !.result = artifacts["artifact"], !.doubt = doubt]
    <3>1. reader' = [reader EXCEPT ![r] = new]
      BY <1>1, <1>4, <2>3 DEF ReadArtifact
    <3>2. ~doubt => \A f \in Hashed : artifacts["artifact"][f] \in call.was[f]
      BY <1>1, <2>1, <2>3 DEF Doubtful, Clean, ReaderOK
    <3>3. artifacts["artifact"] \in PartialTrees
      BY <2>3, TreeType DEF IInv, RunsOK
    <3>4. doubt \in BOOLEAN
      BY DEF IInv, RunsOK, RunOK, Run, Doubtful
    <3> HIDE DEF doubt
    <3>5. /\ new.at = "done" /\ new.got = call.got /\ new.was = call.was /\ new.doubt = doubt
          /\ new.result = artifacts["artifact"] /\ new \in Reading
      BY <1>1, <3>3, <3>4 DEF Reading, ReaderStages
    <3> HIDE DEF new
    <3>6. ReaderOK(new)
      BY <1>1, <2>1, <3>2, <3>5 DEF ReaderOK
    <3> QED BY <1>4, <3>1, <3>6, ReaderStep DEF ReadArtifact
  <2> QED BY <2>2, <2>3
<1>5. CASE Recomputed(r)
  <2> DEFINE new == [call EXCEPT !.at = "done", !.result = call.got]
  <2>1. call.at = "recompute" /\ DOMAIN call.got = Files
    BY <1>5 DEF Recomputed
  <2>2. /\ new.at = "done" /\ new.got = call.got /\ new.was = call.was /\ new.result = call.got
        /\ new \in Reading
    BY <1>1 DEF Reading, ReaderStages
  <2>3. reader' = [reader EXCEPT ![r] = new]
    BY <1>1, <1>5 DEF Recomputed
  <2> HIDE DEF new
  <2>4. ReaderOK(new)
    BY <1>1, <2>1, <2>2, FilesAssumption DEF ReaderOK
  <2> QED BY <1>5, <2>3, <2>4, ReaderStep DEF Recomputed
<1>6. CASE Return(r)
  <2>1. NotCalled \in Reading /\ NotCalled.at = "idle"
    BY TreeType DEF NotCalled, Reading, ReaderStages
  <2>2. ReaderOK(NotCalled)
    BY <2>1 DEF ReaderOK
  <2> QED BY <1>6, <2>2, ReaderStep DEF Return
<1>7. ASSUME NEW f \in Files, HashFile(r, f)
      PROVE  IInv'
  <2> DEFINE new == [call EXCEPT !.got = WithFile(call.got, f)]
  <2>1. call.at \in {"hash", "recompute"} /\ call.got \in PartialTrees
    BY <1>1, <1>7 DEF HashFile, Reading
  <2>2. /\ WithFile(call.got, f) \in PartialTrees
        /\ DOMAIN WithFile(call.got, f) = DOMAIN call.got \cup {f}
        /\ \A h \in DOMAIN call.got \cup {f} :
             WithFile(call.got, f)[h] = IF h = f THEN workingTree[f] ELSE call.got[h]
    BY <1>1, <2>1, ReadingOne
  <2>3. /\ new.at = call.at /\ new.got = WithFile(call.got, f) /\ new.was = call.was /\ new \in Reading
    BY <1>1, <2>2 DEF Reading
  <2>4. reader' = [reader EXCEPT ![r] = new]
    BY <1>1, <1>7 DEF HashFile
  <2> HIDE DEF new
  <2>5. ReaderOK(new)
    BY <1>1, <2>1, <2>2, <2>3 DEF ReaderOK
  <2> QED BY <1>7, <2>4, <2>5, ReaderStep DEF HashFile
<1> QED BY <1>2, <1>3, <1>4, <1>5, <1>6, <1>7

LEMMA InvariantStep ==
  ASSUME IInv, [Next]_vars
  PROVE  IInv'
<1>1. CASE UNCHANGED vars
  BY <1>1 DEF vars, IInv, RunsOK, UpToDate, Stored, OnDisk, Clean, Vouched, Together, ReadersOK, ReaderOK
<1>2. CASE Next
  BY <1>2, RunStep, InterruptStep, OpenStep, CloseStep, EditStep, ReaderSteps DEF Next
<1> QED BY <1>1, <1>2

LEMMA InvariantInit == Init => IInv
<1> SUFFICES ASSUME Init PROVE IInv
  OBVIOUS
<1>1. \A o \in Outputs : artifacts[o] = Unreadable
  BY DEF Init
<1>2. RunsOK
  BY <1>1, RestingOK DEF Init, RunsOK, Outputs
<1>3. OnDisk
  BY <1>1 DEF OnDisk, Together, Vouched, Outputs
<1>4. NotCalled \in Reading /\ NotCalled.at = "idle"
  BY TreeType DEF NotCalled, Reading, ReaderStages
<1>5. ReadersOK
  BY <1>4 DEF Init, ReadersOK, ReaderOK
<1> QED BY <1>2, <1>3, <1>5 DEF IInv

LEMMA InvariantMeans == IInv => EvidenceIsOfOneMoment
<1> SUFFICES ASSUME IInv PROVE EvidenceIsOfOneMoment
  OBVIOUS
<1>1. HitIsRecent
  BY DEF IInv, ReadersOK, ReaderOK, HitIsRecent
<1>2. FilesAgreeAtRest
  <2> SUFFICES ASSUME ~suspect, \A g \in Generators : generation[g].at = "idle" \/ generation[g].at = "read"
               PROVE  Together
    BY DEF FilesAgreeAtRest, Together
  <2>1. \A g \in Generators : RunOK(generation[g])
    BY DEF IInv, RunsOK
  <2>2. \A g \in Generators : ~Wrote(generation[g])
    BY <2>1 DEF RunOK, Wrote, Outputs
  <2> QED BY <2>2 DEF IInv, OnDisk
<1> QED BY <1>1, <1>2 DEF EvidenceIsOfOneMoment

\* evidence-cache.ts, generate-data-artifacts.ts: however many generations,
\* edits, interruptions and readers overlap, no reader is given what the hashed
\* files did not hold during its call, and the files at rest are of one moment,
\* unless a run was cut short or disturbed.
THEOREM EvidenceTheorem == Spec => []EvidenceIsOfOneMoment
<1>1. Init => IInv
  BY InvariantInit
<1>2. IInv /\ [Next]_vars => IInv'
  BY InvariantStep
<1>3. IInv => EvidenceIsOfOneMoment
  BY InvariantMeans
<1> QED BY <1>1, <1>2, <1>3, PTL DEF Spec

(***************************************************************************)
(* Init                                                                    *)
(***************************************************************************)
\* What is left of a sequence of calls from the k-th on.
From(calls, k) == SubSeq(calls, k, Len(calls))

Targets == {"data.ts", "src/data.ts"}
Handled(p) == process[p].created \cup process[p].skipped

\* A run is somewhere in its preflight or in its plan, and has handled the
\* targets whose turn is over, each once.
InPreflight(p, k) ==
  /\ process[p].todo = From(Preflight, k)
  /\ process[p].created = {} /\ process[p].skipped = {}
  /\ process[p].end # "done"

InPlan(p, capability, k) ==
  /\ process[p].todo = From(Plan(capability), k)
  /\ k \in 1..9 => Handled(p) = {}
  /\ k \in 10..12 => Handled(p) = {capability}
  /\ k = 13 => Handled(p) = {capability, Generator}
  /\ process[p].created \cap process[p].skipped = {}
  /\ process[p].end = "done" => k = 13

InitRunOK(p) ==
  /\ DOMAIN process[p] = {"todo", "end", "created", "skipped"}
  /\ \/ \E k \in 1..3 : InPreflight(p, k)
     \/ \E capability \in Targets, k \in 1..13 : InPlan(p, capability, k)

\* Where the capability goes, and what makes every init refuse.
Chosen == IF before["src"] = Dir THEN "src/data.ts" ELSE "data.ts"
Refused == before[Chosen] = Dir \/ before[Generator] = Dir \/ before["scripts"] = Theirs

\* Left alone, a project only grows by what inits make that were not refused.
MadeBy(p, path) == entry[path] \in {File(p, "empty"), File(p, "sound")}
EntryOK(path) ==
  \/ entry[path] = before[path]
  \/ /\ before[path] = Absent /\ ~Refused
     /\ \/ path = "scripts" /\ entry[path] = Dir
        \/ path \in {Chosen, Generator} /\ \E p \in Inits : MadeBy(p, path)

\* Left alone, a run knows at each of its calls what the earlier ones have found.
Knows(p, k) ==
  /\ k = 2 => entry[Chosen] # Absent
  /\ k = 4 => entry[Generator] # Absent
  /\ k = 6 => entry["scripts"] # Absent
  /\ k >= 3 => before[Chosen] # Dir
  /\ k >= 5 => before[Generator] # Dir
  /\ k >= 7 => ~Refused
  /\ k = 8 => Reachable(entry, Chosen)
  /\ k = 9 => entry[Chosen] = File(p, "empty")
  /\ k = 11 => Reachable(entry, Generator)
  /\ k = 12 => entry[Generator] = File(p, "empty")

KnowsRightly(p) ==
  /\ process[p].end = "failed" => Refused
  /\ \/ process[p].end # "failed" /\ \E k \in 1..3 : InPreflight(p, k) /\ (k = 3 => before["src"] # Absent)
     \/ \E k \in 1..13 : InPlan(p, Chosen, k) /\ Knows(p, k)
  /\ \A path \in process[p].created : entry[path] = File(p, "sound")
  /\ \A path \in process[p].skipped : entry[path] # Absent

\* Only what is being written is incomplete.
FillsIt(p, path) == process[p].todo # <<>> /\ Step(p).op = "fill" /\ Step(p).path = path

ScaffoldInv ==
  /\ disturbed \in Nat
  /\ before \in Projects /\ entry = [path \in Places |-> entry[path]]
  /\ DOMAIN process = Inits
  /\ \A p \in Inits : InitRunOK(p)
  /\ disturbed = 0 =>
       /\ \A path \in Places : EntryOK(path)
       /\ \A p \in Inits : KnowsRightly(p)
       /\ \A p \in Inits, path \in Places : entry[path] = File(p, "empty") => FillsIt(p, path)

LEMMA FromSteps ==
  ASSUME NEW S, NEW s \in Seq(S), NEW k \in 1..Len(s)
  PROVE  /\ From(s, k) # <<>> /\ Head(From(s, k)) = s[k]
         /\ Tail(From(s, k)) = From(s, k + 1)
<1>1. /\ From(s, k) \in Seq(S) /\ Len(From(s, k)) = Len(s) - k + 1
      /\ \A i \in 1..Len(s) - k + 1 : From(s, k)[i] = s[k + i - 1]
  BY SubSeqProperties DEF From
<1>2. /\ From(s, k + 1) \in Seq(S) /\ Len(From(s, k + 1)) = Len(s) - k
      /\ \A i \in 1..Len(s) - k : From(s, k + 1)[i] = s[k + i]
  BY SubSeqProperties DEF From
<1>3. From(s, k) # <<>> /\ Head(From(s, k)) = s[k]
  BY <1>1
<1>4. Tail(From(s, k)) = From(s, k + 1)
  <2> DEFINE from == From(s, k)
             rest == From(s, k + 1)
  <2> HIDE DEF From
  <2>0. Len(s) \in Nat /\ k \in 1..Len(s)
    BY LenProperties
  <2>1. from \in Seq(S) /\ from # <<>> /\ rest \in Seq(S) /\ Len(from) = Len(rest) + 1 /\ Len(rest) \in Nat
    <3>1. Len(from) = Len(s) - k + 1 /\ Len(rest) = Len(s) - k
      BY <1>1, <1>2
    <3>2. Len(rest) \in Nat /\ Len(from) = Len(rest) + 1
      BY <2>0, <3>1
    <3> QED BY <1>1, <1>2, <1>3, <3>2
  <2>2. \A i \in 1..Len(rest) : from[i + 1] = rest[i]
    <3> SUFFICES ASSUME NEW i \in 1..Len(rest) PROVE from[i + 1] = rest[i]
      OBVIOUS
    <3>1. i \in 1..Len(s) - k /\ i + 1 \in 1..Len(s) - k + 1 /\ k + (i + 1) - 1 = k + i
      BY <1>2, <2>0
    <3>2. rest[i] = s[k + i]
      BY <1>2, <3>1
    <3>3. from[i + 1] = s[k + (i + 1) - 1]
      BY <1>1, <3>1
    <3> QED BY <3>1, <3>2, <3>3
  <2> HIDE DEF from, rest
  <2>3. Tail(from) \in Seq(S) /\ Len(Tail(from)) = Len(rest)
        /\ \A i \in 1..Len(rest) : Tail(from)[i] = rest[i]
    <3>1. from \in Seq(S) /\ from # <<>>
      BY <2>1
    <3>2. /\ Tail(from) \in Seq(S) /\ Len(Tail(from)) = Len(from) - 1
          /\ \A i \in 1..Len(Tail(from)) : Tail(from)[i] = from[i + 1]
      BY <3>1, HeadTailProperties
    <3>3. Len(from) - 1 = Len(rest)
      BY <2>1
    <3> QED BY <3>2, <3>3, <2>2
  <2>4. Tail(from) = rest
    BY <2>1, <2>3, SeqEqual
  <2> QED BY <2>4 DEF from, rest
<1> QED BY <1>3, <1>4

InitCalls == [op : {"parse", "seek", "choose", "exists", "isFile", "isDirectory", "mkdir", "create", "fill"},
              path : Places]

\* Which call stands where in a plan.
IsCall(call, capability, k) ==
  /\ k \in {1, 3, 5} <=> call.op = "exists"
  /\ k \in {2, 4}    <=> call.op = "isFile"
  /\ k = 6           <=> call.op = "isDirectory"
  /\ k \in {7, 10}   <=> call.op = "mkdir"
  /\ k \in {8, 11}   <=> call.op = "create"
  /\ k \in {9, 12}   <=> call.op = "fill"
  /\ call.op \notin {"parse", "seek", "choose"}
  /\ k \in {1, 2, 7, 8, 9}    => call.path = capability
  /\ k \in {3, 4, 10, 11, 12} => call.path = Generator
  /\ k \in {5, 6}             => call.path = "scripts"

LEMMA PlanCalls ==
  ASSUME NEW capability \in Targets
  PROVE  /\ Plan(capability) \in Seq(InitCalls) /\ Len(Plan(capability)) = 12
         /\ \A k \in 1..12 : IsCall(Plan(capability)[k], capability, k)
         /\ From(Plan(capability), 13) = <<>>
<1>1. capability \in Places /\ Generator \in Places /\ "scripts" \in Places
  BY DEF Targets, Places
<1>2. \A op \in {"exists", "isFile", "isDirectory", "mkdir", "create", "fill"} :
        \A path \in Places : Do(op, path) \in InitCalls
  BY DEF Do, InitCalls
<1>3. Plan(capability) \in Seq(InitCalls) /\ Len(Plan(capability)) = 12
  <2> HIDE DEF InitCalls
  <2> QED BY <1>1, <1>2 DEF Plan
<1>4. /\ Plan(capability)[1] = Do("exists", capability) /\ Plan(capability)[2] = Do("isFile", capability)
      /\ Plan(capability)[3] = Do("exists", Generator) /\ Plan(capability)[4] = Do("isFile", Generator)
      /\ Plan(capability)[5] = Do("exists", "scripts") /\ Plan(capability)[6] = Do("isDirectory", "scripts")
      /\ Plan(capability)[7] = Do("mkdir", capability) /\ Plan(capability)[8] = Do("create", capability)
      /\ Plan(capability)[9] = Do("fill", capability) /\ Plan(capability)[10] = Do("mkdir", Generator)
      /\ Plan(capability)[11] = Do("create", Generator) /\ Plan(capability)[12] = Do("fill", Generator)
  BY DEF Plan
<1>5. From(Plan(capability), 13) = <<>>
  <2> HIDE DEF InitCalls
  <2> QED BY <1>3, SubSeqProperties DEF From
<1>6. 1..12 = {1, 2, 3, 4, 5, 6, 7, 8, 9, 10, 11, 12}
  OBVIOUS
<1>7. \A k \in 1..12 : IsCall(Plan(capability)[k], capability, k)
  <2> HIDE DEF Plan
  <2> QED BY <1>4, <1>6 DEF Do, IsCall
<1> QED BY <1>3, <1>5, <1>7

LEMMA PreflightCalls ==
  /\ Preflight \in Seq(InitCalls) /\ Len(Preflight) = 3
  /\ Preflight[1] = Do("parse", "package.json")
  /\ Preflight[2] = Do("seek", "src") /\ Preflight[3] = Do("choose", "src")
BY DEF Preflight, InitCalls, Do, Places

\* Where a run that goes on stands, and what is left after its next calls.
LEMMA AtPreflight ==
  ASSUME NEW p, NEW k \in 1..3, InPreflight(p, k)
  PROVE  /\ process[p].todo # <<>> /\ Step(p) = Preflight[k]
         /\ Step(p).op = (IF k = 1 THEN "parse" ELSE IF k = 2 THEN "seek" ELSE "choose")
         /\ Step(p).path = (IF k = 1 THEN "package.json" ELSE "src")
         /\ Tail(process[p].todo) = From(Preflight, k + 1)
<1>1. process[p].todo = From(Preflight, k)
  BY DEF InPreflight
<1>2. From(Preflight, k) # <<>> /\ Head(From(Preflight, k)) = Preflight[k]
      /\ Tail(From(Preflight, k)) = From(Preflight, k + 1)
  <2>1. Preflight \in Seq(InitCalls) /\ k \in 1..Len(Preflight)
    BY PreflightCalls
  <2> HIDE DEF InitCalls
  <2> QED BY <2>1, FromSteps
<1>3. Step(p) = Preflight[k]
  BY <1>1, <1>2 DEF Step
<1>4. k = 1 \/ k = 2 \/ k = 3
  OBVIOUS
<1> QED BY <1>1, <1>2, <1>3, <1>4, PreflightCalls DEF Do

LEMMA AtPlan ==
  ASSUME NEW p, NEW capability \in Targets, NEW k \in 1..12, InPlan(p, capability, k)
  PROVE  /\ process[p].todo # <<>> /\ Step(p) = Plan(capability)[k]
         /\ Tail(process[p].todo) = From(Plan(capability), k + 1)
         /\ k # 12 => /\ Tail(process[p].todo) # <<>>
                      /\ Head(Tail(process[p].todo)) = Plan(capability)[k + 1]
                      /\ Tail(Tail(process[p].todo)) = From(Plan(capability), k + 2)
<1> DEFINE plan == Plan(capability)
<1>1. process[p].todo = From(plan, k)
  BY DEF InPlan
<1>2. plan \in Seq(InitCalls) /\ Len(plan) = 12
  BY PlanCalls
<1>3. From(plan, k) # <<>> /\ Head(From(plan, k)) = plan[k] /\ Tail(From(plan, k)) = From(plan, k + 1)
  <2> HIDE DEF plan
  <2> QED BY <1>2, FromSteps
<1>4. k # 12 => /\ From(plan, k + 1) # <<>> /\ Head(From(plan, k + 1)) = plan[k + 1]
                /\ Tail(From(plan, k + 1)) = From(plan, (k + 1) + 1)
  <2> SUFFICES ASSUME k # 12
               PROVE  /\ From(plan, k + 1) # <<>> /\ Head(From(plan, k + 1)) = plan[k + 1]
                      /\ Tail(From(plan, k + 1)) = From(plan, (k + 1) + 1)
    OBVIOUS
  <2>1. k + 1 \in 1..Len(plan)
    BY <1>2
  <2> HIDE DEF plan
  <2> QED BY <1>2, <2>1, FromSteps
<1>5. (k + 1) + 1 = k + 2
  OBVIOUS
<1> QED BY <1>1, <1>3, <1>4, <1>5 DEF Step

LEMMA CallAt ==
  ASSUME NEW p, NEW c \in Targets, NEW k \in 1..12, InPlan(p, c, k)
  PROVE  IsCall(Step(p), c, k)
<1>1. Step(p) = Plan(c)[k]
  BY AtPlan
<1>2. IsCall(Plan(c)[k], c, k)
  BY PlanCalls
<1> QED BY <1>1, <1>2

\* A run that has a call to make is at one of those places.
LEMMA WhereItIs ==
  ASSUME NEW p, InitRunOK(p), Running(p)
  PROVE  \/ \E k \in 1..3 : InPreflight(p, k)
         \/ \E capability \in Targets, k \in 1..12 : InPlan(p, capability, k)
<1>1. ASSUME NEW capability \in Targets, NEW k \in 1..13, InPlan(p, capability, k) PROVE k # 13
  BY <1>1, PlanCalls DEF InPlan, Running
<1> QED BY <1>1 DEF InitRunOK

\* What a run may do to the project when it is left alone.
Grows(p) ==
  \A path \in Places :
    \/ entry'[path] = entry[path]
    \/ entry[path] = Absent /\ entry'[path] \in {Dir, File(p, "empty")}
    \/ entry[path] = File(p, "empty") /\ entry'[path] = File(p, "sound")

LEMMA Kinds ==
  /\ Absent # Dir /\ Absent # Theirs /\ Dir # Theirs
  /\ \A p, c : File(p, c) # Absent /\ File(p, c) # Dir
  /\ \A p, q, c, d : File(p, c) = File(q, d) => p = q /\ c = d
<1>1. Absent.kind = "absent" /\ Dir.kind = "directory"
  BY DEF Absent, Dir
<1>2. \A p, c : File(p, c).kind = "file" /\ File(p, c).by = p /\ File(p, c).content = c
  BY DEF File
<1>3. \A p, q, c, d : File(p, c) = File(q, d) => p = q /\ c = d
  BY <1>2
<1> HIDE DEF Absent, Dir, File
<1>4. Theirs.kind = "file"
  BY <1>2 DEF Theirs
<1> QED BY <1>1, <1>2, <1>3, <1>4

LEMMA PlacesDiffer ==
  /\ Targets \subseteq Places /\ Generator \in Places /\ Generator \notin Targets
  /\ Chosen \in Targets /\ "scripts" \in Places /\ "scripts" \notin Targets
  /\ Generator # "scripts" /\ "src" \in Places /\ "src" \notin Targets /\ Generator # "src"
  /\ Parent("data.ts") = "." /\ Parent("src/data.ts") = "src" /\ Parent(Generator) = "scripts"
BY DEF Targets, Places, Generator, Chosen, Parent

\* What a run knows stays true while others act.
LEMMA OthersKnow ==
  ASSUME NEW p, NEW q, q # p, Grows(p), UNCHANGED before, process'[q] = process[q],
         process[q].created \cup process[q].skipped \subseteq Places, KnowsRightly(q)
  PROVE  KnowsRightly(q)'
<1>1. \A path \in Places : entry[path] # Absent => entry'[path] # Absent
  BY Kinds DEF Grows
<1>2. \A path \in Places : \A c : entry[path] = File(q, c) => entry'[path] = File(q, c)
  BY Kinds DEF Grows
<1>3. \A path \in {Chosen, Generator} : Reachable(entry, path) => Reachable(entry', path)
  <2>1. \A path \in Places : entry[path] = Dir => entry'[path] = Dir
    BY Kinds DEF Grows
  <2>2. \A path \in {Chosen, Generator} : Parent(path) = "." \/ Parent(path) \in Places
    BY PlacesDiffer DEF Targets
  <2> QED BY <2>1, <2>2 DEF Reachable
<1>4. Chosen' = Chosen /\ (Refused' <=> Refused)
  BY DEF Chosen, Refused
<1>5. \A k : InPreflight(q, k) => InPreflight(q, k)'
  BY DEF InPreflight
<1>6. \A k \in 1..13 : Knows(q, k) => Knows(q, k)'
  BY <1>1, <1>2, <1>3, <1>4, PlacesDiffer DEF Knows
<1>7. \A c, k : InPlan(q, c, k) => InPlan(q, c, k)'
  BY DEF InPlan, Handled
<1>8. process[q].end # "failed" \/ Refused
  BY DEF KnowsRightly
<1>9. /\ \A path \in process[q].created : entry'[path] = File(q, "sound")
      /\ \A path \in process[q].skipped : entry'[path] # Absent
  BY <1>1, <1>2 DEF KnowsRightly
<1>10. CASE process[q].end # "failed" /\ \E k \in 1..3 : InPreflight(q, k) /\ (k = 3 => before["src"] # Absent)
  BY <1>4, <1>5, <1>9, <1>10 DEF KnowsRightly
<1>11. CASE \E k \in 1..13 : InPlan(q, Chosen, k) /\ Knows(q, k)
  <2>1. PICK k \in 1..13 : InPlan(q, Chosen, k) /\ Knows(q, k)
    BY <1>11
  <2>2. PICK c : c = Chosen
    OBVIOUS
  <2>3. InPlan(q, Chosen, k)' /\ Knows(q, k)'
    <3>1. InPlan(q, c, k)'
      BY <1>7, <2>1, <2>2
    <3>2. Chosen' = c
      BY <1>4, <2>2
    <3> QED BY <1>6, <2>1, <3>1, <3>2 DEF InPlan, Handled
  <2> QED BY <1>4, <1>8, <1>9, <2>3 DEF KnowsRightly
<1> QED BY <1>10, <1>11 DEF KnowsRightly

LEMMA HandledPlaces ==
  ASSUME NEW p, InitRunOK(p) PROVE Handled(p) \subseteq Places
<1>1. CASE \E k \in 1..3 : InPreflight(p, k)
  BY <1>1 DEF InPreflight, Handled
<1>2. CASE \E capability \in Targets, k \in 1..13 : InPlan(p, capability, k)
  <2>1. PICK capability \in Targets, k \in 1..13 : InPlan(p, capability, k)
    BY <1>2
  <2>2. k \in 1..9 \/ k \in 10..12 \/ k = 13
    OBVIOUS
  <2> QED BY <2>1, <2>2, PlacesDiffer DEF InPlan
<1> QED BY <1>1, <1>2 DEF InitRunOK

\* A step of one run: what has to be shown is what it does to the project and
\* to itself.
OneRun(p) ==
  /\ DOMAIN process' = Inits /\ \A q \in Inits : q # p => process'[q] = process[q]
  /\ UNCHANGED <<before, disturbed>> /\ entry' = [path \in Places |-> entry'[path]]

GoesWell(p) ==
  /\ Grows(p) /\ \A path \in Places : EntryOK(path)'
  /\ KnowsRightly(p)'
  /\ \A path \in Places : entry'[path] = File(p, "empty") => FillsIt(p, path)'

LEMMA OneRunActs ==
  ASSUME ScaffoldInv, NEW p \in Inits, OneRun(p), InitRunOK(p)', disturbed = 0 => GoesWell(p)
  PROVE  ScaffoldInv'
<1>1. \A q \in Inits : InitRunOK(q)'
  <2> SUFFICES ASSUME NEW q \in Inits, q # p PROVE InitRunOK(q)'
    OBVIOUS
  <2>1. InitRunOK(q) /\ process'[q] = process[q]
    BY DEF ScaffoldInv, OneRun
  <2>2. \A k \in 1..3 : InPreflight(q, k) => InPreflight(q, k)'
    BY <2>1 DEF InPreflight
  <2>3. \A c \in Targets, k \in 1..13 : InPlan(q, c, k) => InPlan(q, c, k)'
    BY <2>1 DEF InPlan, Handled
  <2> QED BY <2>1, <2>2, <2>3 DEF InitRunOK
<1>2. ASSUME disturbed = 0
      PROVE  /\ \A path \in Places : EntryOK(path)'
             /\ \A q \in Inits : KnowsRightly(q)'
             /\ \A q \in Inits, path \in Places : entry'[path] = File(q, "empty") => FillsIt(q, path)'
  <2>1. GoesWell(p)
    BY <1>2
  <2>2. ASSUME NEW q \in Inits, q # p PROVE KnowsRightly(q)'
    <3>1. /\ Grows(p) /\ UNCHANGED before /\ process'[q] = process[q] /\ KnowsRightly(q)
          /\ process[q].created \cup process[q].skipped \subseteq Places
      BY <1>2, <2>1, <2>2, HandledPlaces DEF GoesWell, OneRun, ScaffoldInv, Handled
    <3> QED BY <2>2, <3>1, OthersKnow
  <2>3. ASSUME NEW q \in Inits, q # p, NEW path \in Places, entry'[path] = File(q, "empty")
        PROVE  FillsIt(q, path)'
    <3>1. entry[path] = File(q, "empty")
      BY <2>1, <2>3, Kinds DEF GoesWell, Grows
    <3>2. FillsIt(q, path) /\ process'[q] = process[q]
      BY <1>2, <2>3, <3>1 DEF ScaffoldInv, OneRun
    <3> QED BY <3>2 DEF FillsIt, Step
  <2> QED BY <2>1, <2>2, <2>3 DEF GoesWell
<1>3. /\ disturbed' \in Nat /\ before' \in Projects /\ entry' = [path \in Places |-> entry'[path]] /\ DOMAIN process' = Inits
      /\ disturbed' = disturbed
  BY DEF ScaffoldInv, OneRun
<1> QED BY <1>1, <1>2, <1>3 DEF ScaffoldInv

\* A step that leaves the project alone.
LEMMA QuietStep ==
  ASSUME ScaffoldInv, NEW p \in Inits, OneRun(p), UNCHANGED entry, InitRunOK(p)',
         process'[p].todo = process[p].todo \/ Step(p).op # "fill",
         disturbed = 0 => KnowsRightly(p)'
  PROVE  ScaffoldInv'
<1>1. ASSUME disturbed = 0 PROVE GoesWell(p)
  <2>1. Grows(p)
    BY DEF Grows
  <2>2. \A path \in Places : EntryOK(path)'
    BY <1>1 DEF ScaffoldInv, OneRun, EntryOK, MadeBy, Chosen, Refused
  <2>3. ASSUME NEW path \in Places, entry'[path] = File(p, "empty") PROVE FillsIt(p, path)'
    <3>1. FillsIt(p, path)
      BY <1>1, <2>3 DEF ScaffoldInv
    <3>2. Step(p).op = "fill"
      BY <3>1 DEF FillsIt
    <3> QED BY <3>1, <3>2 DEF FillsIt, Step
  <2> QED BY <1>1, <2>1, <2>2, <2>3 DEF GoesWell
<1> QED BY <1>1, OneRunActs

\* What a step makes of its run.
RunBecomes(p, todo, end, created, skipped) ==
  /\ DOMAIN process' = Inits /\ \A q \in Inits : q # p => process'[q] = process[q]
  /\ DOMAIN process'[p] = {"todo", "end", "created", "skipped"}
  /\ process'[p].todo = todo /\ process'[p].end = end
  /\ process'[p].created = created /\ process'[p].skipped = skipped

LEMMA Becomings ==
  ASSUME ScaffoldInv, NEW p \in Inits
  PROVE  LET run == process[p]
         IN  /\ \A todo : Goes(p, todo) => RunBecomes(p, todo, run.end, run.created, run.skipped)
             /\ \A how : Ends(p, how) => RunBecomes(p, run.todo, how, run.created, run.skipped)
             /\ Skip(p) => RunBecomes(p, Tail(Tail(run.todo)), run.end, run.created, run.skipped \cup {Step(p).path})
             /\ Fill(p) => RunBecomes(p, Tail(run.todo), run.end, run.created \cup {Step(p).path}, run.skipped)
<1>1. DOMAIN process = Inits /\ DOMAIN process[p] = {"todo", "end", "created", "skipped"}
  BY DEF ScaffoldInv, InitRunOK
<1>2. \A todo : Goes(p, todo) => RunBecomes(p, todo, process[p].end, process[p].created, process[p].skipped)
  BY <1>1 DEF Goes, RunBecomes
<1>3. \A how : Ends(p, how) => RunBecomes(p, process[p].todo, how, process[p].created, process[p].skipped)
  BY <1>1 DEF Ends, RunBecomes
<1>4. Skip(p) => RunBecomes(p, Tail(Tail(process[p].todo)), process[p].end, process[p].created,
                            process[p].skipped \cup {Step(p).path})
  <2> DEFINE rest == Tail(Tail(process[p].todo))
             path == Step(p).path
  <2>1. Skip(p) => process' = [process EXCEPT ![p] = [[process[p] EXCEPT !.todo = rest] EXCEPT !.skipped = @ \cup {path}]]
    BY <1>1 DEF Skip
  <2> HIDE DEF rest, path
  <2>2. ASSUME Skip(p)
        PROVE  RunBecomes(p, rest, process[p].end, process[p].created, process[p].skipped \cup {path})
    <3> DEFINE run == [[process[p] EXCEPT !.todo = rest] EXCEPT !.skipped = @ \cup {path}]
    <3>1. /\ DOMAIN run = {"todo", "end", "created", "skipped"}
          /\ run.todo = rest /\ run.end = process[p].end
          /\ run.created = process[p].created /\ run.skipped = process[p].skipped \cup {path}
      BY <1>1
    <3>2. process' = [process EXCEPT ![p] = run]
      BY <2>1, <2>2
    <3> HIDE DEF run
    <3>3. DOMAIN process' = Inits /\ process'[p] = run /\ \A q \in Inits : q # p => process'[q] = process[q]
      BY <1>1, <3>2
    <3> QED BY <3>1, <3>3 DEF RunBecomes
  <2> QED BY <2>2 DEF rest, path
<1>5. Fill(p) => RunBecomes(p, Tail(process[p].todo), process[p].end, process[p].created \cup {Step(p).path},
                            process[p].skipped)
  <2> DEFINE rest == Tail(process[p].todo)
             path == Step(p).path
  <2>1. Fill(p) => process' = [process EXCEPT ![p] = [[process[p] EXCEPT !.todo = rest] EXCEPT !.created = @ \cup {path}]]
    BY <1>1 DEF Fill
  <2> HIDE DEF rest, path
  <2>2. ASSUME Fill(p)
        PROVE  RunBecomes(p, rest, process[p].end, process[p].created \cup {path}, process[p].skipped)
    <3> DEFINE run == [[process[p] EXCEPT !.todo = rest] EXCEPT !.created = @ \cup {path}]
    <3>1. /\ DOMAIN run = {"todo", "end", "created", "skipped"}
          /\ run.todo = rest /\ run.end = process[p].end
          /\ run.created = process[p].created \cup {path} /\ run.skipped = process[p].skipped
      BY <1>1
    <3>2. process' = [process EXCEPT ![p] = run]
      BY <2>1, <2>2
    <3> HIDE DEF run
    <3>3. DOMAIN process' = Inits /\ process'[p] = run /\ \A q \in Inits : q # p => process'[q] = process[q]
      BY <1>1, <3>2
    <3> QED BY <3>1, <3>3 DEF RunBecomes
  <2> QED BY <2>2 DEF rest, path
<1> QED BY <1>2, <1>3, <1>4, <1>5

\* A run that is past its preflight: where it stands, and what it knows.
LEMMA Stands ==
  ASSUME ScaffoldInv, NEW p \in Inits, Running(p), Step(p).op \notin {"parse", "seek", "choose"}
  PROVE  \E c \in Targets, k \in 1..12 :
           InPlan(p, c, k) /\ (disturbed = 0 => c = Chosen /\ Knows(p, k) /\ KnowsRightly(p))
<1>1. InitRunOK(p)
  BY DEF ScaffoldInv
<1>2. \A k \in 1..3 : ~InPreflight(p, k)
  BY AtPreflight
<1>3. \A c \in Targets, k \in 1..13 : InPlan(p, c, k) => k \in 1..12
  <2> SUFFICES ASSUME NEW c \in Targets, InPlan(p, c, 13) PROVE FALSE
    OBVIOUS
  <2> QED BY PlanCalls DEF InPlan, Running
<1>4. CASE disturbed = 0
  <2>1. KnowsRightly(p)
    BY <1>4 DEF ScaffoldInv
  <2>2. PICK k \in 1..13 : InPlan(p, Chosen, k) /\ Knows(p, k)
    BY <1>2, <2>1 DEF KnowsRightly
  <2> QED BY <1>3, <2>1, <2>2, PlacesDiffer
<1>5. CASE disturbed # 0
  BY <1>1, <1>2, <1>3, <1>5 DEF InitRunOK
<1> QED BY <1>4, <1>5

\* A run that goes on with its plan, or ends there.
LEMMA GoesOn ==
  ASSUME ScaffoldInv, NEW p \in Inits, NEW c \in Targets, NEW k \in 1..12, NEW j \in 1..13, InPlan(p, c, k),
         RunBecomes(p, From(Plan(c), j), process[p].end, process[p].created, process[p].skipped),
         process[p].end = "none", k <= 9 <=> j <= 9, j # 13
  PROVE  InPlan(p, c, j)' /\ InitRunOK(p)'
<1>1. (k \in 1..9 /\ j \in 1..9) \/ (k \in 10..12 /\ j \in 10..12)
  OBVIOUS
<1>2. InPlan(p, c, j)'
  BY <1>1 DEF InPlan, RunBecomes, Handled
<1>3. DOMAIN process'[p] = {"todo", "end", "created", "skipped"}
  BY DEF RunBecomes
<1> QED BY <1>2, <1>3 DEF InitRunOK

LEMMA StaysAt ==
  ASSUME ScaffoldInv, NEW p \in Inits, NEW c \in Targets, NEW k \in 1..12, InPlan(p, c, k), NEW how \in {"failed", "broke"},
         RunBecomes(p, process[p].todo, how, process[p].created, process[p].skipped)
  PROVE  InPlan(p, c, k)' /\ InitRunOK(p)'
<1>1. InPlan(p, c, k)'
  BY DEF InPlan, RunBecomes, Handled
<1>2. DOMAIN process'[p] = {"todo", "end", "created", "skipped"} /\ k \in 1..13
  BY DEF RunBecomes
<1> QED BY <1>1, <1>2 DEF InitRunOK

LEMMA KnowsOn ==
  ASSUME NEW p, NEW c \in Targets, NEW j \in 1..13, c = Chosen, UNCHANGED before, InPlan(p, c, j)', Knows(p, j)',
         process'[p].end = "failed" => Refused,
         \A path \in process'[p].created : entry'[path] = File(p, "sound"),
         \A path \in process'[p].skipped : entry'[path] # Absent
  PROVE  KnowsRightly(p)'
<1>1. Chosen' = c /\ (Refused' <=> Refused)
  BY DEF Chosen, Refused
<1>2. (InPlan(p, Chosen, j))'
  BY <1>1 DEF InPlan, Handled
<1> QED BY <1>1, <1>2 DEF KnowsRightly

\* What was there may have been made by an init since.
LEMMA Since ==
  ASSUME ScaffoldInv, disturbed = 0
  PROVE  /\ \A path \in Places : entry[path] = Absent => before[path] = Absent
         /\ \A path \in {Chosen, Generator} : entry[path] = Dir <=> before[path] = Dir
         /\ entry["scripts"] \in {Absent, Dir, Theirs}
         /\ entry["scripts"] = Theirs <=> before["scripts"] = Theirs
         /\ entry["src"] = before["src"] /\ entry["package.json"] = Theirs
<1>1. /\ \A path \in Places : before[path] \in {Absent, Dir, Theirs}
      /\ before["package.json"] = Theirs
  BY DEF ScaffoldInv, Projects
<1>2. \A path \in Places : EntryOK(path)
  BY DEF ScaffoldInv
<1>3. "package.json" \in Places /\ "package.json" \notin Targets /\ "package.json" \notin {"scripts", Generator}
      /\ "src" # "scripts"
  BY DEF Places, Targets, Generator
<1>4. \A path \in Places : entry[path] = Absent => before[path] = Absent
  BY <1>2 DEF EntryOK
<1>5. \A path \in {Chosen, Generator} : entry[path] = Dir <=> before[path] = Dir
  BY <1>2, Kinds, PlacesDiffer DEF EntryOK, MadeBy
<1>6. entry["scripts"] = before["scripts"] \/ (entry["scripts"] = Dir /\ before["scripts"] = Absent)
  BY <1>2, PlacesDiffer DEF EntryOK
<1>7. entry["src"] = before["src"] /\ entry["package.json"] = before["package.json"]
  BY <1>2, <1>3, PlacesDiffer DEF EntryOK
<1> QED BY <1>1, <1>4, <1>5, <1>6, <1>7, Kinds, PlacesDiffer

(***************************************************************************)
(* The steps                                                               *)
(***************************************************************************)
\* A run that is in its preflight, at the call named.
LEMMA StandsBefore ==
  ASSUME ScaffoldInv, NEW p \in Inits, Running(p), NEW k \in 1..3, Step(p).op = Preflight[k].op
  PROVE  /\ InPreflight(p, k) /\ Step(p).path = Preflight[k].path
         /\ Tail(process[p].todo) = From(Preflight, k + 1)
         /\ disturbed = 0 => /\ process[p].end # "failed"
                             /\ k = 3 => before["src"] # Absent
<1>1. Preflight[k].op \in {"parse", "seek", "choose"}
      /\ \A i \in 1..3 : Preflight[i].op = Preflight[k].op => i = k
  BY PreflightCalls DEF Do
<1>2. ~\E c \in Targets, i \in 1..12 : InPlan(p, c, i)
  BY <1>1, CallAt DEF IsCall
<1>3. PICK i \in 1..3 : InPreflight(p, i)
  BY <1>2, WhereItIs DEF ScaffoldInv
<1>4. \A n \in 1..3 : InPreflight(p, n) => n = k
  BY <1>1, AtPreflight
<1>5. Step(p).path = Preflight[k].path /\ Tail(process[p].todo) = From(Preflight, k + 1)
  BY <1>3, <1>4, AtPreflight
<1>6. ASSUME disturbed = 0 PROVE process[p].end # "failed" /\ (k = 3 => before["src"] # Absent)
  <2>1. KnowsRightly(p)
    BY <1>6 DEF ScaffoldInv
  <2>2. ~\E n \in 1..13 : InPlan(p, Chosen, n)
    <3>1. ~InPlan(p, Chosen, 13)
      BY PlanCalls, PlacesDiffer DEF InPlan, Running
    <3> QED BY <1>2, <3>1, PlacesDiffer
  <2> QED BY <1>4, <2>1, <2>2 DEF KnowsRightly
<1> QED BY <1>3, <1>4, <1>5, <1>6

\* What a run becomes that goes on from its preflight.
LEMMA Leaves ==
  ASSUME ScaffoldInv, NEW p \in Inits, NEW c \in Targets, NEW k \in 1..3, InPreflight(p, k), process[p].end = "none",
         RunBecomes(p, From(Plan(c), 1), process[p].end, process[p].created, process[p].skipped),
         UNCHANGED <<entry, before>>, disturbed = 0 => c = Chosen
  PROVE  InitRunOK(p)' /\ (disturbed = 0 => KnowsRightly(p)')
<1>1. InPlan(p, c, 1)' /\ process'[p].created = {} /\ process'[p].skipped = {} /\ process'[p].end = "none"
  BY DEF InPlan, InPreflight, RunBecomes, Handled
<1>2. InitRunOK(p)'
  <2>1. DOMAIN process'[p] = {"todo", "end", "created", "skipped"}
    BY DEF RunBecomes
  <2> QED BY <1>1, <2>1 DEF InitRunOK
<1>3. Knows(p, 1)'
  BY DEF Knows
<1> QED BY <1>1, <1>2, <1>3, KnowsOn

LEMMA FromFirst ==
  /\ From(Preflight, 1) = Preflight
  /\ \A c \in Targets : From(Plan(c), 1) = Plan(c)
<1>1. ASSUME NEW S, NEW s \in Seq(S) PROVE From(s, 1) = s
  <2>1. /\ From(s, 1) \in Seq(S) /\ Len(From(s, 1)) = Len(s)
        /\ \A i \in 1..Len(s) : From(s, 1)[i] = s[i]
    BY SubSeqProperties DEF From
  <2> QED BY <2>1
<1> HIDE DEF From
<1>2. Preflight \in Seq(InitCalls) /\ \A c \in Targets : Plan(c) \in Seq(InitCalls)
  BY PreflightCalls, PlanCalls
<1> HIDE DEF InitCalls
<1> QED BY <1>1, <1>2

\* A run that goes on in its preflight, or ends there.
LEMMA StaysBefore ==
  ASSUME ScaffoldInv, NEW p \in Inits, NEW k \in 1..3, NEW j \in 1..3, InPreflight(p, k), NEW how, how # "done",
         RunBecomes(p, From(Preflight, j), how, process[p].created, process[p].skipped),
         UNCHANGED before,
         disturbed = 0 => how # "failed" /\ (j = 3 => before["src"] # Absent)
  PROVE  InitRunOK(p)' /\ (disturbed = 0 => KnowsRightly(p)')
<1>1. InPreflight(p, j)' /\ process'[p].created = {} /\ process'[p].skipped = {} /\ process'[p].end = how
  BY DEF InPreflight, RunBecomes
<1>2. InitRunOK(p)'
  <2>1. DOMAIN process'[p] = {"todo", "end", "created", "skipped"}
    BY DEF RunBecomes
  <2> QED BY <1>1, <2>1 DEF InitRunOK
<1> QED BY <1>1, <1>2 DEF KnowsRightly

LEMMA AssertIsProjectActs ==
  ASSUME ScaffoldInv, NEW p \in Inits, AssertIsProject(p) PROVE ScaffoldInv'
<1>1. Running(p) /\ Step(p).op = Preflight[1].op /\ Preflight[1].path = "package.json"
  BY PreflightCalls DEF AssertIsProject, Reaches, Do
<1>2. /\ InPreflight(p, 1) /\ Step(p).path = "package.json" /\ Tail(process[p].todo) = From(Preflight, 2)
  BY <1>1, StandsBefore
<1>3. process[p].end = "none" /\ UNCHANGED <<entry, before, disturbed>>
  BY DEF AssertIsProject, Reaches, Running
<1>6. 1 \in 1..3 /\ 2 \in 1..3 /\ 3 \in 1..3 /\ process[p].end \notin {"done", "failed"} /\ "failed" # "done"
  BY <1>3
<1>4. InitRunOK(p)' /\ (disturbed = 0 => KnowsRightly(p)') /\ OneRun(p)
  <2>1. CASE There(p) = Theirs
    <3>1. RunBecomes(p, From(Preflight, 2), process[p].end, process[p].created, process[p].skipped)
      BY <1>2, <2>1, Becomings DEF AssertIsProject, Continue
    <3>2. InitRunOK(p)' /\ (disturbed = 0 => KnowsRightly(p)')
      <4>1. PICK j \in 1..3 : j = 2
        OBVIOUS
      <4>2. RunBecomes(p, From(Preflight, j), process[p].end, process[p].created, process[p].skipped)
            /\ (j = 3 => before["src"] # Absent)
        BY <3>1, <4>1
      <4> QED BY <1>2, <1>3, <1>6, <4>2, StaysBefore
    <3> QED BY <1>3, <3>1, <3>2 DEF OneRun, RunBecomes, ScaffoldInv
  <2>2. CASE There(p) # Theirs
    <3>1. RunBecomes(p, From(Preflight, 1), "failed", process[p].created, process[p].skipped)
      BY <1>2, <2>2, Becomings DEF AssertIsProject, InPreflight
    <3>2. disturbed # 0
      BY <1>2, <2>2, Since DEF There
    <3>3. InitRunOK(p)'
      BY <1>2, <1>3, <1>6, <3>1, <3>2, StaysBefore
    <3> QED BY <1>3, <3>1, <3>2, <3>3 DEF OneRun, RunBecomes, ScaffoldInv
  <2> QED BY <2>1, <2>2
<1>5. Step(p).op # "fill"
  BY <1>1, PreflightCalls DEF Do
<1> QED BY <1>3, <1>4, <1>5, QuietStep

LEMMA SeekActs ==
  ASSUME ScaffoldInv, NEW p \in Inits, Seek(p) PROVE ScaffoldInv'
<1>1. Running(p) /\ Step(p).op = Preflight[2].op /\ Preflight[2].path = "src"
  BY PreflightCalls DEF Seek, Reaches, Do
<1>2. /\ InPreflight(p, 2) /\ Step(p).path = "src" /\ Tail(process[p].todo) = From(Preflight, 3)
      /\ disturbed = 0 => process[p].end # "failed"
  BY <1>1, StandsBefore
<1>3. process[p].end = "none" /\ UNCHANGED <<entry, before, disturbed>>
  BY DEF Seek, Reaches, Running
<1>6. 1 \in 1..3 /\ 2 \in 1..3 /\ 3 \in 1..3 /\ process[p].end \notin {"done", "failed"} /\ "failed" # "done"
  BY <1>3
<1>4. InitRunOK(p)' /\ (disturbed = 0 => KnowsRightly(p)') /\ OneRun(p)
  <2>1. CASE There(p) = Absent
    <3>1. RunBecomes(p, From(Plan("data.ts"), 1), process[p].end, process[p].created, process[p].skipped)
      BY <1>2, <2>1, Becomings, FromFirst DEF Seek, Targets
    <3>2. disturbed = 0 => "data.ts" = Chosen
      BY <1>2, <2>1, Since, Kinds DEF There, Chosen
    <3>3. InitRunOK(p)' /\ (disturbed = 0 => KnowsRightly(p)')
      BY <1>2, <1>3, <3>1, <3>2, Leaves DEF Targets
    <3> QED BY <1>3, <3>1, <3>3 DEF OneRun, RunBecomes, ScaffoldInv
  <2>2. CASE There(p) # Absent
    <3>1. RunBecomes(p, From(Preflight, 3), process[p].end, process[p].created, process[p].skipped)
      BY <1>2, <2>2, Becomings DEF Seek, Continue
    <3>2. disturbed = 0 => before["src"] # Absent
      BY <1>2, <2>2, Since DEF There
    <3>3. InitRunOK(p)' /\ (disturbed = 0 => KnowsRightly(p)')
      BY <1>2, <1>3, <1>6, <3>1, <3>2, StaysBefore
    <3> QED BY <1>3, <3>1, <3>3 DEF OneRun, RunBecomes, ScaffoldInv
  <2> QED BY <2>1, <2>2
<1>5. Step(p).op # "fill"
  BY <1>1, PreflightCalls DEF Do
<1> QED BY <1>3, <1>4, <1>5, QuietStep

LEMMA ChooseDirectoryActs ==
  ASSUME ScaffoldInv, NEW p \in Inits, ChooseDirectory(p) PROVE ScaffoldInv'
<1>1. Running(p) /\ Step(p).op = Preflight[3].op /\ Preflight[3].path = "src"
  BY PreflightCalls DEF ChooseDirectory, Reaches, Do
<1>2. /\ InPreflight(p, 3) /\ Step(p).path = "src"
      /\ disturbed = 0 => before["src"] # Absent
  BY <1>1, StandsBefore
<1>3. process[p].end = "none" /\ UNCHANGED <<entry, before, disturbed>>
  BY DEF ChooseDirectory, Reaches, Running
<1>6. 1 \in 1..3 /\ 2 \in 1..3 /\ 3 \in 1..3 /\ process[p].end \notin {"done", "failed"} /\ "failed" # "done"
  BY <1>3
<1>4. InitRunOK(p)' /\ (disturbed = 0 => KnowsRightly(p)') /\ OneRun(p)
  <2>1. CASE There(p) = Absent
    <3>1. RunBecomes(p, From(Preflight, 3), "failed", process[p].created, process[p].skipped)
      <4>1. Ends(p, "failed")
        BY <2>1, Kinds DEF ChooseDirectory
      <4>2. RunBecomes(p, process[p].todo, "failed", process[p].created, process[p].skipped)
        BY <4>1, Becomings
      <4>3. process[p].todo = From(Preflight, 3)
        BY <1>2 DEF InPreflight
      <4> QED BY <4>2, <4>3
    <3>2. disturbed # 0
      BY <1>2, <2>1, Since DEF There
    <3>3. InitRunOK(p)'
      BY <1>2, <1>3, <1>6, <3>1, <3>2, StaysBefore
    <3> QED BY <1>3, <3>1, <3>2, <3>3 DEF OneRun, RunBecomes, ScaffoldInv
  <2>2. ASSUME There(p) # Absent, NEW c \in Targets, c = IF There(p) = Dir THEN "src/data.ts" ELSE "data.ts"
        PROVE  InitRunOK(p)' /\ (disturbed = 0 => KnowsRightly(p)') /\ OneRun(p)
    <3>1. RunBecomes(p, From(Plan(c), 1), process[p].end, process[p].created, process[p].skipped)
      BY <2>2, Becomings, FromFirst, Kinds DEF ChooseDirectory
    <3>2. disturbed = 0 => c = Chosen
      BY <1>2, <2>2, Since DEF There, Chosen
    <3>3. InitRunOK(p)' /\ (disturbed = 0 => KnowsRightly(p)')
      BY <1>2, <1>3, <3>1, <3>2, Leaves
    <3> QED BY <1>3, <3>1, <3>3 DEF OneRun, RunBecomes, ScaffoldInv
  <2> QED BY <2>1, <2>2 DEF Targets
<1>5. Step(p).op # "fill"
  BY <1>1, PreflightCalls DEF Do
<1> QED BY <1>3, <1>4, <1>5, QuietStep

\* A run that goes on with its plan, or ends there, and leaves the project alone.
LEMMA PlanGoesOn ==
  ASSUME ScaffoldInv, NEW p \in Inits, NEW c \in Targets, NEW k \in 1..12, NEW j \in 1..12, InPlan(p, c, k),
         RunBecomes(p, From(Plan(c), j), process[p].end, process[p].created, process[p].skipped),
         process[p].end = "none", k <= 9 <=> j <= 9,
         UNCHANGED <<entry, before, disturbed>>, Step(p).op # "fill",
         disturbed = 0 => c = Chosen /\ KnowsRightly(p) /\ Knows(p, j)
  PROVE  ScaffoldInv'
<1>1. InPlan(p, c, j)' /\ InitRunOK(p)'
  <2>1. j \in 1..13 /\ j # 13
    OBVIOUS
  <2> QED BY <2>1, GoesOn
<1>2. OneRun(p)
  BY DEF OneRun, RunBecomes, ScaffoldInv
<1>3. ASSUME disturbed = 0 PROVE KnowsRightly(p)'
  <2>1. Knows(p, j)'
    BY <1>3 DEF Knows, Chosen, Refused
  <2>2. process'[p].end = "none" /\ process'[p].created = process[p].created
        /\ process'[p].skipped = process[p].skipped
    BY DEF RunBecomes
  <2>3. /\ \A path \in process'[p].created : entry'[path] = File(p, "sound")
        /\ \A path \in process'[p].skipped : entry'[path] # Absent
    BY <1>3, <2>2 DEF KnowsRightly
  <2>4. j \in 1..13 /\ process'[p].end # "failed"
    BY <2>2
  <2> QED BY <1>1, <1>3, <2>1, <2>3, <2>4, KnowsOn
<1> QED BY <1>1, <1>2, <1>3, QuietStep

LEMMA PlanEnds ==
  ASSUME ScaffoldInv, NEW p \in Inits, NEW c \in Targets, NEW k \in 1..12, InPlan(p, c, k),
         NEW how \in {"failed", "broke"}, Ends(p, how), UNCHANGED <<entry, before, disturbed>>,
         disturbed = 0 => c = Chosen /\ KnowsRightly(p) /\ Knows(p, k) /\ (how = "failed" => Refused)
  PROVE  ScaffoldInv'
<1>0. RunBecomes(p, process[p].todo, how, process[p].created, process[p].skipped)
  BY Becomings
<1>1. InPlan(p, c, k)' /\ InitRunOK(p)'
  BY <1>0, StaysAt
<1>2. OneRun(p) /\ process'[p].todo = process[p].todo
  BY <1>0 DEF OneRun, RunBecomes, ScaffoldInv
<1>3. ASSUME disturbed = 0 PROVE KnowsRightly(p)'
  <2>1. Knows(p, k)'
    BY <1>3 DEF Knows, Chosen, Refused
  <2>2. process'[p].end = how /\ process'[p].created = process[p].created
        /\ process'[p].skipped = process[p].skipped
    BY <1>0 DEF RunBecomes
  <2>3. /\ \A path \in process'[p].created : entry'[path] = File(p, "sound")
        /\ \A path \in process'[p].skipped : entry'[path] # Absent
    BY <1>3, <2>2 DEF KnowsRightly
  <2>4. k \in 1..13 /\ (process'[p].end = "failed" => Refused)
    BY <1>3, <2>2
  <2> QED BY <1>1, <1>3, <2>1, <2>3, <2>4, KnowsOn
<1> QED BY <1>1, <1>2, <1>3, QuietStep

\* What a run finds is what made every other one go on, or be refused.
LEMMA ExistsActs ==
  ASSUME ScaffoldInv, NEW p \in Inits, Exists(p) PROVE ScaffoldInv'
<1>1. Running(p) /\ Step(p).op = "exists" /\ process[p].end = "none" /\ UNCHANGED <<entry, before, disturbed>>
  BY DEF Exists, Reaches, Running
<1>2. PICK c \in Targets, k \in 1..12 :
        InPlan(p, c, k) /\ (disturbed = 0 => c = Chosen /\ Knows(p, k) /\ KnowsRightly(p))
  BY <1>1, Stands
<1>3. k \in {1, 3, 5} /\ Step(p).path = (IF k = 1 THEN c ELSE IF k = 3 THEN Generator ELSE "scripts")
  BY <1>1, <1>2, CallAt DEF IsCall
<1>4. ASSUME disturbed = 0, There(p) = Absent PROVE Knows(p, k + 2)
  <2>1. before[Step(p).path] = Absent
    BY <1>2, <1>3, <1>4, Since, PlacesDiffer DEF There
  <2>2. k = 1 => before[Chosen] # Dir
    BY <1>2, <1>3, <1>4, <2>1, Kinds
  <2>3. k = 3 => before[Generator] # Dir /\ before[Chosen] # Dir
    BY <1>2, <1>3, <1>4, <2>1, Kinds DEF Knows
  <2>4. k = 5 => ~Refused /\ before[Chosen] # Dir /\ before[Generator] # Dir
    BY <1>2, <1>3, <1>4, <2>1, Kinds DEF Knows, Refused
  <2> QED BY <1>3, <2>2, <2>3, <2>4 DEF Knows
<1>5. ASSUME disturbed = 0, There(p) # Absent PROVE Knows(p, k + 1)
  BY <1>2, <1>3, <1>5 DEF Knows, There
<1>6. CASE There(p) = Absent
  <2>1. RunBecomes(p, From(Plan(c), k + 2), process[p].end, process[p].created, process[p].skipped)
    <3>1. Tail(Tail(process[p].todo)) = From(Plan(c), k + 2)
      <4>1. InPlan(p, c, k) /\ k # 12
        BY <1>2, <1>3
      <4> QED BY <4>1, AtPlan
    <3>2. Goes(p, From(Plan(c), k + 2))
      BY <1>6, <3>1 DEF Exists, SkipNext
    <3> QED BY <3>2, Becomings
  <2>2. PICK j \in 1..12 : j = k + 2 /\ (k <= 9 <=> j <= 9)
    BY <1>3
  <2>3. RunBecomes(p, From(Plan(c), j), process[p].end, process[p].created, process[p].skipped)
        /\ (disturbed = 0 => Knows(p, j)) /\ Step(p).op # "fill"
    BY <1>1, <1>4, <1>6, <2>1, <2>2
  <2> QED BY <1>1, <1>2, <2>2, <2>3, PlanGoesOn
<1>7. CASE There(p) # Absent
  <2>1. RunBecomes(p, From(Plan(c), k + 1), process[p].end, process[p].created, process[p].skipped)
    BY <1>2, <1>3, <1>7, AtPlan, Becomings DEF Exists, Continue
  <2>2. PICK j \in 1..12 : j = k + 1 /\ (k <= 9 <=> j <= 9)
    BY <1>3
  <2>3. RunBecomes(p, From(Plan(c), j), process[p].end, process[p].created, process[p].skipped)
        /\ (disturbed = 0 => Knows(p, j)) /\ Step(p).op # "fill"
    BY <1>1, <1>5, <1>7, <2>1, <2>2
  <2> QED BY <1>1, <1>2, <2>2, <2>3, PlanGoesOn
<1> QED BY <1>6, <1>7

LEMMA CheckKindActs ==
  ASSUME ScaffoldInv, NEW p \in Inits, CheckKind(p) PROVE ScaffoldInv'
<1> DEFINE good == There(p) # Absent /\ (There(p) = Dir <=> Step(p).op = "isDirectory")
<1>1. Running(p) /\ Step(p).op \in {"isFile", "isDirectory"} /\ process[p].end = "none"
      /\ UNCHANGED <<entry, before, disturbed>>
  BY DEF CheckKind, Reaches, Running
<1>2. PICK c \in Targets, k \in 1..12 :
        InPlan(p, c, k) /\ (disturbed = 0 => c = Chosen /\ Knows(p, k) /\ KnowsRightly(p))
  BY <1>1, Stands
<1>3. k \in {2, 4, 6} /\ (Step(p).op = "isDirectory" <=> k = 6)
      /\ Step(p).path = (IF k = 2 THEN c ELSE IF k = 4 THEN Generator ELSE "scripts")
  BY <1>1, <1>2, CallAt DEF IsCall
<1>4. ASSUME disturbed = 0, good PROVE Knows(p, k + 1)
  <2>1. k = 2 => before[Chosen] # Dir
    BY <1>2, <1>3, <1>4, Since DEF There
  <2>2. k = 4 => before[Generator] # Dir /\ before[Chosen] # Dir
    BY <1>2, <1>3, <1>4, Since DEF There, Knows
  <2>3. k = 6 => before["scripts"] # Theirs
    BY <1>3, <1>4, Since, Kinds DEF There
  <2>4. k = 6 => ~Refused /\ before[Chosen] # Dir /\ before[Generator] # Dir
    BY <1>2, <1>4, <2>3 DEF Knows, Refused
  <2> QED BY <1>3, <2>1, <2>2, <2>4 DEF Knows
<1>5. ASSUME disturbed = 0, ~good PROVE Refused
  <2>1. There(p) # Absent
    BY <1>2, <1>3, <1>5 DEF Knows, There
  <2>2. k \in {2, 4} => before[Step(p).path] = Dir /\ Step(p).path \in {Chosen, Generator}
    BY <1>2, <1>3, <1>5, <2>1, Since DEF There
  <2>3. k = 6 => before["scripts"] = Theirs
    BY <1>3, <1>5, <2>1, Since, Kinds DEF There
  <2> QED BY <1>3, <2>2, <2>3 DEF Refused
<1>6. CASE good
  <2>1. RunBecomes(p, From(Plan(c), k + 1), process[p].end, process[p].created, process[p].skipped)
    BY <1>2, <1>3, <1>6, AtPlan, Becomings DEF CheckKind, Continue
  <2>2. PICK j \in 1..12 : j = k + 1 /\ (k <= 9 <=> j <= 9)
    BY <1>3
  <2>3. RunBecomes(p, From(Plan(c), j), process[p].end, process[p].created, process[p].skipped)
        /\ (disturbed = 0 => Knows(p, j)) /\ Step(p).op # "fill"
    BY <1>1, <1>4, <1>6, <2>1, <2>2
  <2> QED BY <1>1, <1>2, <2>2, <2>3, PlanGoesOn
<1>7. CASE ~good
  <2>1. Ends(p, "failed") /\ (disturbed = 0 => Refused) /\ "failed" \in {"failed", "broke"}
    BY <1>5, <1>7 DEF CheckKind
  <2> QED BY <1>1, <1>2, <2>1, PlanEnds
<1> QED BY <1>6, <1>7

\* A step of a plan that changes the project, or what the run has handled.
LEMMA PlanActs ==
  ASSUME ScaffoldInv, NEW p \in Inits, NEW c \in Targets, NEW j \in 1..13,
         OneRun(p), DOMAIN process'[p] = {"todo", "end", "created", "skipped"}, process'[p].end = "none",
         InPlan(p, c, j)',
         disturbed = 0 =>
           /\ c = Chosen /\ Knows(p, j)' /\ Grows(p)
           /\ \A path \in Places : entry'[path] # entry[path] => EntryOK(path)'
           /\ \A path \in Places : entry'[path] = File(p, "empty") => FillsIt(p, path)'
           /\ \A path \in process'[p].created : entry'[path] = File(p, "sound")
           /\ \A path \in process'[p].skipped : entry'[path] # Absent
  PROVE  ScaffoldInv'
<1>1. InitRunOK(p)'
  BY DEF InitRunOK
<1>2. ASSUME disturbed = 0 PROVE GoesWell(p)
  <2>1. KnowsRightly(p)'
    <3>1. UNCHANGED before /\ process'[p].end # "failed"
      BY DEF OneRun
    <3> QED BY <1>2, <3>1, KnowsOn
  <2>2. ASSUME NEW path \in Places, entry'[path] = entry[path] PROVE EntryOK(path)'
    <3>1. EntryOK(path) /\ UNCHANGED before
      BY <1>2 DEF ScaffoldInv, OneRun
    <3> QED BY <2>2, <3>1 DEF EntryOK, MadeBy, Chosen, Refused
  <2> QED BY <1>2, <2>1, <2>2 DEF GoesWell
<1> QED BY <1>1, <1>2, OneRunActs

LEMMA MkdirActs ==
  ASSUME ScaffoldInv, NEW p \in Inits, Mkdir(p) PROVE ScaffoldInv'
<1> DEFINE path == Step(p).path
           dir  == Parent(path)
<1>1. Running(p) /\ Step(p).op = "mkdir" /\ process[p].end = "none" /\ UNCHANGED <<before, disturbed>>
  BY DEF Mkdir, Reaches, Running
<1>2. PICK c \in Targets, k \in 1..12 :
        InPlan(p, c, k) /\ (disturbed = 0 => c = Chosen /\ Knows(p, k) /\ KnowsRightly(p))
  BY <1>1, Stands
<1>3. k \in {7, 10} /\ path = (IF k = 7 THEN c ELSE Generator)
  BY <1>1, <1>2, CallAt DEF IsCall
<1>4. dir = "." \/ (dir = "src" /\ k = 7 /\ c = "src/data.ts") \/ (dir = "scripts" /\ k = 10)
  BY <1>3, PlacesDiffer DEF Targets
<1>5. PICK j \in 1..12 : j = k + 1 /\ (k <= 9 <=> j <= 9)
  BY <1>3
<1>6. Continue(p) => RunBecomes(p, From(Plan(c), j), process[p].end, process[p].created, process[p].skipped)
  BY <1>2, <1>5, AtPlan, Becomings DEF Continue
<1>7. disturbed = 0 /\ dir = "src" => entry[dir] = Dir
  <2> SUFFICES ASSUME disturbed = 0, dir = "src" PROVE entry["src"] = Dir
    OBVIOUS
  <2>1. c = Chosen /\ c = "src/data.ts"
    BY <1>2, <1>4
  <2>2. before["src"] = Dir
    BY <2>1 DEF Chosen
  <2> QED BY <2>2, Since
<1>8. disturbed = 0 => ~Refused /\ before[Chosen] # Dir /\ before[Generator] # Dir
  BY <1>2, <1>3 DEF Knows
<1>9. ASSUME disturbed = 0, NEW entries, dir # "." => entries[dir] = Dir PROVE Reachable(entries, path)
  BY <1>9 DEF Reachable
<1> HIDE DEF dir, path
<1>10. CASE UNCHANGED entry /\ Continue(p) /\ (dir # "." => entry[dir] = Dir)
  <2>1. disturbed = 0 => Knows(p, j)
    BY <1>2, <1>3, <1>5, <1>8, <1>9, <1>10 DEF Knows
  <2>2. Step(p).op # "fill"
    BY <1>1
  <2> QED BY <1>1, <1>2, <1>5, <1>6, <1>10, <2>1, <2>2, PlanGoesOn
<1>11. CASE dir # "." /\ entry[dir] = Absent /\ Continue(p) /\ entry' = [entry EXCEPT ![dir] = Dir]
  <2>1. RunBecomes(p, From(Plan(c), j), process[p].end, process[p].created, process[p].skipped)
    BY <1>6, <1>11
  <2>2. InPlan(p, c, j)'
    <3>1. j \in 1..13 /\ j # 13
      BY <1>5
    <3> QED BY <1>1, <1>2, <1>5, <2>1, <3>1, GoesOn
  <2>3. dir \in Places /\ entry'[dir] = Dir /\ (\A q \in Places : q # dir => entry'[q] = entry[q])
        /\ entry' = [q \in Places |-> entry'[q]]
    <3>1. dir \in Places
      BY <1>4, <1>11, PlacesDiffer
    <3> QED BY <1>11, <3>1 DEF ScaffoldInv
  <2>4. OneRun(p) /\ process'[p].end = "none" /\ DOMAIN process'[p] = {"todo", "end", "created", "skipped"}
        /\ process'[p].created = process[p].created /\ process'[p].skipped = process[p].skipped
    BY <1>1, <2>1, <2>3 DEF OneRun, RunBecomes
  <2>5. ASSUME disturbed = 0
        PROVE  /\ c = Chosen /\ Knows(p, j)' /\ Grows(p)
               /\ \A q \in Places : entry'[q] # entry[q] => EntryOK(q)'
               /\ \A q \in Places : entry'[q] = File(p, "empty") => FillsIt(p, q)'
               /\ \A q \in process'[p].created : entry'[q] = File(p, "sound")
               /\ \A q \in process'[p].skipped : entry'[q] # Absent
    <3>1. dir = "scripts" /\ k = 10 /\ path = Generator
      BY <1>3, <1>4, <1>7, <1>11, <2>5, Kinds
    <3>2. Chosen' = Chosen /\ (Refused' <=> Refused)
      BY <1>1 DEF Chosen, Refused
    <3>3. Knows(p, j)'
      <4>1. Reachable(entry', Generator)
        BY <1>9, <2>3, <2>5, <3>1
      <4> QED BY <1>1, <1>5, <1>8, <2>5, <3>1, <3>2, <4>1 DEF Knows
    <3>4. Grows(p)
      BY <1>11, <2>3 DEF Grows
    <3>5. EntryOK("scripts")'
      BY <1>1, <1>8, <1>11, <2>3, <2>5, <3>1, <3>2, Since DEF EntryOK
    <3>6. ASSUME NEW q \in Places, entry'[q] = File(p, "empty") PROVE FALSE
      <4>1. entry[q] = File(p, "empty")
        BY <2>3, <3>6, Kinds
      <4>2. FillsIt(p, q)
        BY <2>5, <4>1 DEF ScaffoldInv
      <4> QED BY <1>1, <4>2 DEF FillsIt
    <3>7. /\ \A q \in process[p].created : entry[q] = File(p, "sound")
          /\ \A q \in process[p].skipped : entry[q] # Absent
          /\ process[p].created \cup process[p].skipped \subseteq Places
      BY <1>2, <2>5, HandledPlaces DEF KnowsRightly, ScaffoldInv, Handled
    <3>8. /\ \A q \in process'[p].created : entry'[q] = File(p, "sound")
          /\ \A q \in process'[p].skipped : entry'[q] # Absent
      BY <1>11, <2>3, <2>4, <3>7, Kinds
    <3> QED BY <1>2, <2>3, <2>5, <3>1, <3>3, <3>4, <3>5, <3>6, <3>8
  <2>6. j \in 1..13
    BY <1>5
  <2> QED BY <2>2, <2>4, <2>5, <2>6, PlanActs
<1>12. CASE dir # "." /\ entry[dir] # Absent /\ entry[dir] # Dir /\ Ends(p, "failed") /\ UNCHANGED entry
  <2>1. disturbed # 0
    <3> SUFFICES ASSUME disturbed = 0 PROVE FALSE
      OBVIOUS
    <3>1. dir = "scripts"
      BY <1>4, <1>7, <1>12
    <3>2. before["scripts"] = Theirs
      BY <1>12, <3>1, Since
    <3> QED BY <1>8, <3>2 DEF Refused
  <2> QED BY <1>1, <1>2, <1>12, <2>1, PlanEnds
<1> QED BY <1>10, <1>11, <1>12, Kinds DEF Mkdir, path, dir

LEMMA CreateActs ==
  ASSUME ScaffoldInv, NEW p \in Inits, Create(p) PROVE ScaffoldInv'
<1>0. PICK path : path = Step(p).path
  OBVIOUS
<1>1. Running(p) /\ Step(p).op = "create" /\ process[p].end = "none" /\ UNCHANGED <<before, disturbed>>
  BY DEF Create, Reaches, Running
<1>2. PICK c \in Targets, k \in 1..12 :
        InPlan(p, c, k) /\ (disturbed = 0 => c = Chosen /\ Knows(p, k) /\ KnowsRightly(p))
  BY <1>1, Stands
<1>3. k \in {8, 11} /\ path = (IF k = 8 THEN c ELSE Generator) /\ path \in Places
  BY <1>0, <1>1, <1>2, CallAt, PlacesDiffer DEF IsCall
<1>4. /\ Tail(process[p].todo) = From(Plan(c), k + 1) /\ Tail(process[p].todo) # <<>>
      /\ Head(Tail(process[p].todo)) = Plan(c)[k + 1]
      /\ Tail(Tail(process[p].todo)) = From(Plan(c), k + 2)
  <2>1. InPlan(p, c, k) /\ k # 12
    BY <1>2, <1>3
  <2> QED BY <2>1, AtPlan
<1>5. /\ Handled(p) = (IF k = 8 THEN {} ELSE {c}) /\ path \notin Handled(p)
      /\ process[p].created \cap process[p].skipped = {}
  BY <1>2, <1>3, PlacesDiffer DEF InPlan
<1>6. disturbed = 0 => /\ c = Chosen /\ Reachable(entry, path)
                       /\ ~Refused /\ before[Chosen] # Dir /\ before[Generator] # Dir
                       /\ \A q \in process[p].created : entry[q] = File(p, "sound")
                       /\ \A q \in process[p].skipped : entry[q] # Absent
  BY <1>2, <1>3 DEF Knows, KnowsRightly
<1>7. Chosen' = Chosen /\ (Refused' <=> Refused)
  BY <1>1 DEF Chosen, Refused
<1>8. ASSUME NEW q \in Places PROVE ~FillsIt(p, q)
  BY <1>1 DEF FillsIt
<1>9. process[p].created \cup process[p].skipped \subseteq Places
  BY HandledPlaces DEF ScaffoldInv, Handled
<1>10. CASE ~Reachable(entry, path) /\ Ends(p, "failed") /\ UNCHANGED entry
  <2>1. disturbed # 0
    BY <1>6, <1>10
  <2> QED BY <1>1, <1>2, <1>10, <2>1, PlanEnds
<1>11. CASE entry[path] # Absent /\ Skip(p) /\ UNCHANGED entry
  <2>1. RunBecomes(p, From(Plan(c), k + 2), process[p].end, process[p].created, process[p].skipped \cup {path})
    BY <1>0, <1>4, <1>11, Becomings
  <2>2. PICK j \in 1..13 : j = k + 2 /\ j \in {10, 13}
    BY <1>3
  <2>3. InPlan(p, c, j)'
    <3>1. Handled(p)' = Handled(p) \cup {path} /\ (process'[p].created \cap process'[p].skipped = {})
      BY <1>5, <2>1 DEF RunBecomes, Handled
    <3>2. Handled(p)' = (IF j = 10 THEN {c} ELSE {c, Generator})
      BY <1>3, <1>5, <2>2, <3>1
    <3>3. process'[p].todo = From(Plan(c), j) /\ process'[p].end = "none"
      BY <1>1, <2>1, <2>2 DEF RunBecomes
    <3> QED BY <2>2, <3>1, <3>2, <3>3 DEF InPlan
  <2>4. OneRun(p) /\ process'[p].end = "none" /\ DOMAIN process'[p] = {"todo", "end", "created", "skipped"}
        /\ process'[p].created = process[p].created /\ process'[p].skipped = process[p].skipped \cup {path}
    BY <1>1, <1>11, <2>1 DEF OneRun, RunBecomes, ScaffoldInv
  <2>5. ASSUME disturbed = 0
        PROVE  /\ c = Chosen /\ Knows(p, j)' /\ Grows(p)
               /\ \A q \in Places : entry'[q] # entry[q] => EntryOK(q)'
               /\ \A q \in Places : entry'[q] = File(p, "empty") => FillsIt(p, q)'
               /\ \A q \in process'[p].created : entry'[q] = File(p, "sound")
               /\ \A q \in process'[p].skipped : entry'[q] # Absent
    <3>1. Knows(p, j)'
      BY <1>1, <1>6, <1>7, <2>2, <2>5 DEF Knows
    <3>2. Grows(p)
      BY <1>11 DEF Grows
    <3>3. \A q \in Places : entry[q] # File(p, "empty")
      BY <1>8, <2>5 DEF ScaffoldInv
    <3> QED BY <1>6, <1>11, <2>4, <2>5, <3>1, <3>2, <3>3
  <2> QED BY <2>3, <2>4, <2>5, PlanActs
<1>12. CASE entry[path] = Absent /\ Continue(p) /\ entry' = [entry EXCEPT ![path] = File(p, "empty")]
  <2>1. PICK j \in 1..12 : j = k + 1 /\ (k <= 9 <=> j <= 9)
    BY <1>3
  <2>2. RunBecomes(p, From(Plan(c), j), process[p].end, process[p].created, process[p].skipped)
    BY <1>4, <1>12, <2>1, Becomings DEF Continue
  <2>3. InPlan(p, c, j)' /\ j \in 1..13
    <3>1. j \in 1..13 /\ j # 13
      BY <2>1
    <3> QED BY <1>1, <1>2, <2>1, <2>2, <3>1, GoesOn
  <2>4. entry'[path] = File(p, "empty") /\ (\A q \in Places : q # path => entry'[q] = entry[q])
        /\ entry' = [q \in Places |-> entry'[q]]
    BY <1>3, <1>12 DEF ScaffoldInv
  <2>5. OneRun(p) /\ process'[p].end = "none" /\ DOMAIN process'[p] = {"todo", "end", "created", "skipped"}
        /\ process'[p].created = process[p].created /\ process'[p].skipped = process[p].skipped
    BY <1>1, <2>2, <2>4 DEF OneRun, RunBecomes
  <2>6. ASSUME disturbed = 0
        PROVE  /\ c = Chosen /\ Knows(p, j)' /\ Grows(p)
               /\ \A q \in Places : entry'[q] # entry[q] => EntryOK(q)'
               /\ \A q \in Places : entry'[q] = File(p, "empty") => FillsIt(p, q)'
               /\ \A q \in process'[p].created : entry'[q] = File(p, "sound")
               /\ \A q \in process'[p].skipped : entry'[q] # Absent
    <3>1. Knows(p, j)'
      BY <1>1, <1>3, <1>6, <1>7, <2>1, <2>4, <2>6 DEF Knows
    <3>2. Grows(p)
      BY <1>12, <2>4 DEF Grows
    <3>3. EntryOK(path)'
      <4>1. before[path] = Absent /\ path \in {Chosen, Generator}
        BY <1>3, <1>6, <1>12, <2>6, Since
      <4>2. MadeBy(p, path)'
        BY <2>4 DEF MadeBy
      <4>3. before'[path] = Absent /\ path \in {Chosen', Generator}
        BY <1>1, <1>7, <4>1
      <4> QED BY <1>6, <1>7, <2>6, <4>2, <4>3 DEF EntryOK
    <3>4. FillsIt(p, path)'
      <4>1. process'[p].todo # <<>> /\ Head(process'[p].todo) = Plan(c)[k + 1]
        BY <1>4, <2>1, <2>2 DEF RunBecomes
      <4>2. IsCall(Plan(c)[j], c, j)
        BY <2>1, PlanCalls
      <4>3. Plan(c)[j].op = "fill" /\ Plan(c)[j].path = path
        BY <1>3, <2>1, <4>2 DEF IsCall
      <4> QED BY <2>1, <4>1, <4>3 DEF FillsIt, Step
    <3>5. \A q \in Places : entry[q] # File(p, "empty")
      BY <1>8, <2>6 DEF ScaffoldInv
    <3>6. \A q \in process[p].created : entry'[q] = File(p, "sound")
      BY <1>6, <1>9, <1>12, <2>4, <2>6, Kinds
    <3>7. \A q \in process[p].skipped : entry'[q] # Absent
      BY <1>6, <1>9, <1>12, <2>4, <2>6, Kinds
    <3> QED BY <1>6, <2>4, <2>5, <2>6, <3>1, <3>2, <3>3, <3>4, <3>5, <3>6, <3>7
  <2> QED BY <2>3, <2>5, <2>6, PlanActs
<1> QED BY <1>0, <1>10, <1>11, <1>12 DEF Create, Taken

LEMMA FillActs ==
  ASSUME ScaffoldInv, NEW p \in Inits, Fill(p) PROVE ScaffoldInv'
<1>0. PICK path : path = Step(p).path
  OBVIOUS
<1>1. Running(p) /\ Step(p).op = "fill" /\ process[p].end = "none" /\ UNCHANGED <<before, disturbed>>
  BY DEF Fill, Reaches, Running
<1>2. PICK c \in Targets, k \in 1..12 :
        InPlan(p, c, k) /\ (disturbed = 0 => c = Chosen /\ Knows(p, k) /\ KnowsRightly(p))
  BY <1>1, Stands
<1>3. k \in {9, 12} /\ path = (IF k = 9 THEN c ELSE Generator) /\ path \in Places
  BY <1>0, <1>1, <1>2, CallAt, PlacesDiffer DEF IsCall
<1>4. PICK j \in 1..13 : j = k + 1 /\ j \in {10, 13}
  BY <1>3
<1>5. /\ Handled(p) = (IF k = 9 THEN {} ELSE {c}) /\ path \notin Handled(p)
      /\ process[p].created \cap process[p].skipped = {}
  BY <1>2, <1>3, PlacesDiffer DEF InPlan
<1>6. disturbed = 0 => /\ c = Chosen /\ entry[path] = File(p, "empty")
                       /\ ~Refused /\ before[Chosen] # Dir /\ before[Generator] # Dir
                       /\ \A q \in process[p].created : entry[q] = File(p, "sound")
                       /\ \A q \in process[p].skipped : entry[q] # Absent
  BY <1>2, <1>3 DEF Knows, KnowsRightly
<1>7. Chosen' = Chosen /\ (Refused' <=> Refused)
  BY <1>1 DEF Chosen, Refused
<1>8. process[p].created \cup process[p].skipped \subseteq Places
  BY HandledPlaces DEF ScaffoldInv, Handled
<1>9. RunBecomes(p, From(Plan(c), j), process[p].end, process[p].created \cup {path}, process[p].skipped)
  <2>1. Tail(process[p].todo) = From(Plan(c), j)
    BY <1>2, <1>4, AtPlan
  <2> QED BY <1>0, <2>1, Becomings
<1>10. InPlan(p, c, j)'
  <2>1. Handled(p)' = Handled(p) \cup {path} /\ (process'[p].created \cap process'[p].skipped = {})
    BY <1>5, <1>9 DEF RunBecomes, Handled
  <2>2. Handled(p)' = (IF j = 10 THEN {c} ELSE {c, Generator})
    BY <1>3, <1>4, <1>5, <2>1
  <2>3. process'[p].todo = From(Plan(c), j) /\ process'[p].end = "none"
    BY <1>1, <1>9 DEF RunBecomes
  <2> QED BY <1>4, <2>1, <2>2, <2>3 DEF InPlan
<1>11. /\ \/ entry'[path] = entry[path]
          \/ entry[path] = File(p, "empty") /\ entry'[path] = File(p, "sound")
       /\ entry[path] = File(p, "empty") => entry'[path] = File(p, "sound")
       /\ \A q \in Places : q # path => entry'[q] = entry[q]
       /\ entry' = [q \in Places |-> entry'[q]]
  <2>1. entry' = IF entry[path] = File(p, "empty") THEN [entry EXCEPT ![path] = File(p, "sound")] ELSE entry
    BY <1>0 DEF Fill, There
  <2>2. entry = [q \in Places |-> entry[q]]
    BY DEF ScaffoldInv
  <2>3. CASE entry[path] = File(p, "empty")
    <3>1. entry' = [entry EXCEPT ![path] = File(p, "sound")]
      BY <2>1, <2>3
    <3> QED BY <1>3, <2>2, <2>3, <3>1
  <2>4. CASE entry[path] # File(p, "empty")
    BY <2>1, <2>2, <2>4
  <2> QED BY <2>3, <2>4
<1>12. OneRun(p) /\ process'[p].end = "none" /\ DOMAIN process'[p] = {"todo", "end", "created", "skipped"}
       /\ process'[p].created = process[p].created \cup {path} /\ process'[p].skipped = process[p].skipped
  BY <1>1, <1>9, <1>11 DEF OneRun, RunBecomes
<1>13. ASSUME disturbed = 0
       PROVE  /\ c = Chosen /\ Knows(p, j)' /\ Grows(p)
              /\ \A q \in Places : entry'[q] # entry[q] => EntryOK(q)'
              /\ \A q \in Places : entry'[q] = File(p, "empty") => FillsIt(p, q)'
              /\ \A q \in process'[p].created : entry'[q] = File(p, "sound")
              /\ \A q \in process'[p].skipped : entry'[q] # Absent
  <2>1. entry[path] = File(p, "empty") /\ entry'[path] = File(p, "sound")
    BY <1>6, <1>11, <1>13
  <2>2. Knows(p, j)'
    BY <1>1, <1>4, <1>6, <1>7, <1>13 DEF Knows
  <2>3. Grows(p)
    BY <1>11 DEF Grows
  <2>4. EntryOK(path)'
    <3>1. before[path] \in {Absent, Dir, Theirs} /\ (entry[path] # before[path] => before[path] = Absent)
      BY <1>3, <1>13 DEF ScaffoldInv, Projects, EntryOK
    <3>2. entry[path] # before[path]
      <4>1. Theirs # File(p, "empty")
        BY Kinds DEF Theirs
      <4> QED BY <2>1, <3>1, <4>1, Kinds
    <3>3. before'[path] = Absent /\ path \in {Chosen', Generator}
      BY <1>1, <1>3, <1>6, <1>7, <1>13, <3>1, <3>2
    <3>4. MadeBy(p, path)'
      BY <2>1 DEF MadeBy
    <3> QED BY <1>6, <1>7, <1>13, <3>3, <3>4 DEF EntryOK
  <2>5. ASSUME NEW q \in Places, entry'[q] = File(p, "empty") PROVE FALSE
    <3>1. q # path /\ entry[q] = File(p, "empty")
      BY <1>11, <2>1, <2>5, Kinds
    <3>2. FillsIt(p, q)
      BY <1>13, <3>1 DEF ScaffoldInv
    <3> QED BY <1>0, <3>1, <3>2 DEF FillsIt
  <2>6. \A q \in process'[p].created : entry'[q] = File(p, "sound")
    BY <1>6, <1>8, <1>11, <1>12, <1>13, <2>1
  <2>7. \A q \in process'[p].skipped : entry'[q] # Absent
    BY <1>6, <1>8, <1>11, <1>12, <1>13, <2>1, Kinds
  <2> QED BY <1>6, <1>11, <1>13, <2>2, <2>3, <2>4, <2>5, <2>6, <2>7
<1> QED BY <1>10, <1>12, <1>13, PlanActs

LEMMA DieActs ==
  ASSUME ScaffoldInv, NEW p \in Inits, Die(p) PROVE ScaffoldInv'
<1>1. Running(p) /\ Ends(p, "broke") /\ UNCHANGED <<entry, before, disturbed>>
  BY DEF Die
<1>2. CASE Step(p).op \notin {"parse", "seek", "choose"}
  <2>1. PICK c \in Targets, k \in 1..12 :
          InPlan(p, c, k) /\ (disturbed = 0 => c = Chosen /\ Knows(p, k) /\ KnowsRightly(p))
    BY <1>1, <1>2, Stands
  <2> QED BY <1>1, <2>1, PlanEnds
<1>3. CASE Step(p).op \in {"parse", "seek", "choose"}
  <2>1. PICK k \in 1..3 : Step(p).op = Preflight[k].op
    BY <1>3, PreflightCalls DEF Do
  <2>2. InPreflight(p, k) /\ (disturbed = 0 /\ k = 3 => before["src"] # Absent)
    BY <1>1, <2>1, StandsBefore
  <2>3. PICK how : how = "broke"
    OBVIOUS
  <2>4. RunBecomes(p, From(Preflight, k), how, process[p].created, process[p].skipped)
    BY <1>1, <2>2, <2>3, Becomings DEF InPreflight
  <2>5. InitRunOK(p)' /\ (disturbed = 0 => KnowsRightly(p)')
    BY <1>1, <2>2, <2>3, <2>4, StaysBefore
  <2>6. OneRun(p) /\ process'[p].todo = process[p].todo
    BY <1>1, <2>2, <2>4 DEF OneRun, RunBecomes, ScaffoldInv, InPreflight
  <2> QED BY <1>1, <2>5, <2>6, QuietStep
<1> QED BY <1>2, <1>3

LEMMA ReportActs ==
  ASSUME ScaffoldInv, NEW p \in Inits, Report(p) PROVE ScaffoldInv'
<1>1. process[p].end = "none" /\ process[p].todo = <<>> /\ Ends(p, "done") /\ UNCHANGED <<entry, before, disturbed>>
  BY DEF Report
<1>2. \A k \in 1..3 : ~InPreflight(p, k)
  BY <1>1, AtPreflight
<1>3. \A c \in Targets, k \in 1..12 : ~InPlan(p, c, k)
  BY <1>1, AtPlan
<1>4. \A c \in Targets, k \in 1..13 : InPlan(p, c, k) => k = 13
  <2> SUFFICES ASSUME NEW c \in Targets, NEW k \in 1..13, InPlan(p, c, k), k # 13 PROVE FALSE
    OBVIOUS
  <2>1. k \in 1..12
    OBVIOUS
  <2> QED BY <1>3, <2>1
<1>5. PICK c \in Targets : InPlan(p, c, 13) /\ (disturbed = 0 => c = Chosen /\ KnowsRightly(p) /\ Knows(p, 13))
  <2>1. CASE disturbed = 0
    <3>1. KnowsRightly(p)
      BY <2>1 DEF ScaffoldInv
    <3>2. PICK k \in 1..13 : InPlan(p, Chosen, k) /\ Knows(p, k)
      BY <1>2, <3>1 DEF KnowsRightly
    <3>3. k = 13
      BY <1>4, <3>2, PlacesDiffer
    <3> QED BY <3>1, <3>2, <3>3, PlacesDiffer
  <2>2. CASE disturbed # 0
    <3>1. PICK c \in Targets, k \in 1..13 : InPlan(p, c, k)
      BY <1>2 DEF ScaffoldInv, InitRunOK
    <3> QED BY <1>4, <2>2, <3>1
  <2> QED BY <2>1, <2>2
<1>6. RunBecomes(p, process[p].todo, "done", process[p].created, process[p].skipped)
  BY <1>1, Becomings
<1>7. PICK j \in 1..13 : j = 13
  OBVIOUS
<1>8. InPlan(p, c, j)'
  BY <1>5, <1>6, <1>7 DEF InPlan, RunBecomes, Handled
<1>9. InitRunOK(p)'
  <2>1. DOMAIN process'[p] = {"todo", "end", "created", "skipped"}
    BY <1>6 DEF RunBecomes
  <2> QED BY <1>8, <2>1 DEF InitRunOK
<1>10. OneRun(p) /\ process'[p].todo = process[p].todo
  BY <1>1, <1>6 DEF OneRun, RunBecomes, ScaffoldInv
<1>11. ASSUME disturbed = 0 PROVE KnowsRightly(p)'
  <2>1. Knows(p, j)'
    BY <1>1, <1>5, <1>7, <1>11 DEF Knows, Chosen, Refused
  <2>2. /\ process'[p].end # "failed"
        /\ \A path \in process'[p].created : entry'[path] = File(p, "sound")
        /\ \A path \in process'[p].skipped : entry'[path] # Absent
    BY <1>1, <1>5, <1>6, <1>11 DEF KnowsRightly, RunBecomes
  <2> QED BY <1>1, <1>5, <1>8, <1>11, <2>1, <2>2, KnowsOn
<1> QED BY <1>1, <1>9, <1>10, <1>11, QuietStep

LEMMA DisturbActs ==
  ASSUME ScaffoldInv, Disturb PROVE ScaffoldInv'
<1>1. disturbed \in Nat /\ disturbed' = disturbed + 1 /\ UNCHANGED <<before, process>>
  BY DEF ScaffoldInv, Disturb
<1>2. entry' = [path \in Places |-> entry'[path]]
  BY DEF Disturb
<1>3. \A p \in Inits : InitRunOK(p)'
  BY <1>1 DEF ScaffoldInv, InitRunOK, InPreflight, InPlan, Handled
<1> QED BY <1>1, <1>2, <1>3 DEF ScaffoldInv

LEMMA ScaffoldStarts == ScaffoldInit => ScaffoldInv
<1> SUFFICES ASSUME NEW project \in Projects, ScaffoldStart(project) PROVE ScaffoldInv
  BY DEF ScaffoldInit
<1>1. /\ disturbed = 0 /\ entry = before /\ before \in Projects /\ entry = [path \in Places |-> entry[path]]
      /\ DOMAIN process = Inits
  BY DEF ScaffoldStart, Projects
<1>2. ASSUME NEW p \in Inits
      PROVE  InPreflight(p, 1) /\ process[p].end = "none" /\ InitRunOK(p) /\ KnowsRightly(p)
  <2>1. process[p] = [todo |-> Preflight, end |-> "none", created |-> {}, skipped |-> {}]
    BY DEF ScaffoldStart
  <2>2. InPreflight(p, 1)
    BY <2>1, FromFirst DEF InPreflight
  <2> QED BY <2>1, <2>2 DEF InitRunOK, KnowsRightly
<1>3. \A path \in Places : EntryOK(path)
  BY <1>1 DEF EntryOK
<1>4. \A p \in Inits, path \in Places : entry[path] # File(p, "empty")
  <2>1. \A path \in Places : entry[path] \in {Absent, Dir, Theirs}
    BY <1>1 DEF Projects
  <2>2. \A p : Theirs # File(p, "empty")
    BY Kinds DEF Theirs
  <2> QED BY <2>1, <2>2, Kinds
<1> QED BY <1>1, <1>2, <1>3, <1>4 DEF ScaffoldInv

LEMMA ScaffoldNextInv == ScaffoldInv /\ [ScaffoldNext]_scaffoldVars => ScaffoldInv'
<1>1. ASSUME ScaffoldInv, UNCHANGED scaffoldVars PROVE ScaffoldInv'
  <2>1. UNCHANGED <<entry, before, process, disturbed>>
    BY <1>1 DEF scaffoldVars
  <2>2. \A p \in Inits : InitRunOK(p)'
    BY <1>1, <2>1 DEF ScaffoldInv, InitRunOK, InPreflight, InPlan, Handled
  <2>3. CASE disturbed # 0
    BY <1>1, <2>1, <2>2, <2>3 DEF ScaffoldInv
  <2>4. ASSUME disturbed = 0, NEW p \in Inits PROVE ScaffoldInv'
    <3>1. OneRun(p)
      BY <1>1, <2>1 DEF OneRun, ScaffoldInv
    <3>2. KnowsRightly(p)'
      <4>1. KnowsRightly(p)
        BY <1>1, <2>4 DEF ScaffoldInv
      <4>2. /\ process'[p].end = "failed" => Refused
            /\ \A path \in process'[p].created : entry'[path] = File(p, "sound")
            /\ \A path \in process'[p].skipped : entry'[path] # Absent
        BY <2>1, <4>1 DEF KnowsRightly
      <4>3. Refused' <=> Refused
        BY <2>1 DEF Refused, Chosen
      <4>4. ASSUME process[p].end # "failed", NEW k \in 1..3, InPreflight(p, k), k = 3 => before["src"] # Absent
            PROVE  KnowsRightly(p)'
        <5>1. InPreflight(p, k)'
          BY <2>1, <4>4 DEF InPreflight
        <5>2. process'[p].end # "failed" /\ (k = 3 => before'["src"] # Absent)
          BY <2>1, <4>4
        <5> QED BY <4>2, <4>3, <5>1, <5>2 DEF KnowsRightly
      <4>5. ASSUME NEW k \in 1..13, InPlan(p, Chosen, k), Knows(p, k) PROVE KnowsRightly(p)'
        <5>1. PICK c \in Targets : c = Chosen
          BY PlacesDiffer
        <5>2. InPlan(p, c, k)'
          BY <2>1, <4>5, <5>1 DEF InPlan, Handled
        <5>3. Chosen' = Chosen /\ (Reachable(entry, Chosen) <=> Reachable(entry, Chosen)')
              /\ (Reachable(entry, Generator) <=> Reachable(entry, Generator)')
          BY <2>1 DEF Chosen, Reachable
        <5>4. Knows(p, k)'
          BY <2>1, <4>3, <4>5, <5>3 DEF Knows
        <5> QED BY <2>1, <4>2, <5>1, <5>2, <5>4, KnowsOn
      <4> QED BY <4>1, <4>4, <4>5 DEF KnowsRightly
    <3>3. InitRunOK(p)' /\ process'[p].todo = process[p].todo
      BY <2>1, <2>2
    <3> QED BY <1>1, <2>1, <3>1, <3>2, <3>3, QuietStep
  <2>5. ASSUME disturbed = 0, Inits = {} PROVE ScaffoldInv'
    <3>1. \A path \in Places : EntryOK(path)'
      BY <1>1, <2>1, <2>5 DEF ScaffoldInv, EntryOK, MadeBy, Chosen, Refused
    <3> QED BY <1>1, <2>1, <2>5, <3>1 DEF ScaffoldInv
  <2> QED BY <2>3, <2>4, <2>5
<1>2. ASSUME ScaffoldInv, NEW p \in Inits,
             \/ AssertIsProject(p) \/ Seek(p) \/ ChooseDirectory(p) \/ Exists(p) \/ CheckKind(p) \/ Mkdir(p)
             \/ Create(p) \/ Fill(p) \/ Die(p) \/ Report(p)
      PROVE  ScaffoldInv'
  BY <1>2, AssertIsProjectActs, SeekActs, ChooseDirectoryActs, ExistsActs, CheckKindActs, MkdirActs,
     CreateActs, FillActs, DieActs, ReportActs
<1> QED BY <1>1, <1>2, DisturbActs DEF ScaffoldNext

\* Where a run that is done stands, when nobody disturbed it.
LEMMA DoneMeans ==
  ASSUME ScaffoldInv, disturbed = 0, NEW p \in Inits, process[p].end = "done"
  PROVE  ~Refused /\ Handled(p) = {Chosen, Generator} /\ process[p].todo = <<>>
<1>1. KnowsRightly(p)
  BY DEF ScaffoldInv
<1>2. PICK k \in 1..13 : InPlan(p, Chosen, k) /\ Knows(p, k)
  BY <1>1 DEF KnowsRightly, InPreflight
<1>3. k = 13
  BY <1>2 DEF InPlan
<1>4. process[p].todo = <<>>
  BY <1>2, <1>3, PlanCalls, PlacesDiffer DEF InPlan
<1> QED BY <1>2, <1>3, <1>4 DEF InPlan, Knows

LEMMA ScaffoldInvImplies == ScaffoldInv => AllOrNothing /\ CreatedOnce
<1> SUFFICES ASSUME ScaffoldInv PROVE AllOrNothing /\ CreatedOnce
  OBVIOUS
<1>1. AllOrNothing
  <2> SUFFICES ASSUME disturbed = 0, \A p \in Inits : process[p].end \in {"done", "failed"} PROVE AllOrNothing
    BY DEF AllOrNothing
  <2>1. CASE Refused
    <3>1. \A p \in Inits : process[p].end = "failed"
      BY <2>1, DoneMeans
    <3>2. \A path \in Places : entry[path] = before[path]
      BY <2>1 DEF ScaffoldInv, EntryOK
    <3>3. before = [path \in Places |-> before[path]] /\ entry = [path \in Places |-> entry[path]]
      BY DEF ScaffoldInv, Projects
    <3>4. entry = before
      BY <3>2, <3>3
    <3> QED BY <3>1, <3>4 DEF AllOrNothing
  <2>2. CASE ~Refused
    <3>1. \A p \in Inits : process[p].end = "done"
      BY <2>2 DEF ScaffoldInv, KnowsRightly
    <3>2. ASSUME NEW p \in Inits
          PROVE  /\ \A path \in Handled(p) : entry[path].kind = "file" /\ entry[path].content = "sound"
                 /\ Cardinality(Handled(p)) = 2
      <4>1. Handled(p) = {Chosen, Generator} /\ Chosen # Generator
        BY <3>1, DoneMeans, PlacesDiffer
      <4>2. ASSUME NEW path \in Handled(p) PROVE entry[path].kind = "file" /\ entry[path].content = "sound"
        <5>1. path \in Places /\ path \in {Chosen, Generator} /\ path # "scripts"
          BY <4>1, PlacesDiffer
        <5>2. entry[path] # Absent
          BY Kinds DEF ScaffoldInv, KnowsRightly, Handled
        <5>3. CASE entry[path] = before[path]
          <6>1. before[path] \in {Absent, Dir, Theirs} /\ before[path] # Dir
            BY <2>2, <5>1 DEF ScaffoldInv, Projects, Refused
          <6>2. entry[path] = Theirs
            BY <5>2, <5>3, <6>1
          <6> QED BY <6>2 DEF Theirs, File
        <5>4. CASE \E q \in Inits : MadeBy(q, path)
          <6>1. PICK q \in Inits : MadeBy(q, path)
            BY <5>4
          <6>2. entry[path] # File(q, "empty")
            <7>1. ~FillsIt(q, path)
              BY <3>1, DoneMeans DEF FillsIt
            <7> QED BY <5>1, <7>1 DEF ScaffoldInv
          <6>3. entry[path] = File(q, "sound")
            BY <6>1, <6>2 DEF MadeBy
          <6> QED BY <6>3 DEF File
        <5>5. EntryOK(path)
          BY <5>1 DEF ScaffoldInv
        <5> QED BY <5>1, <5>3, <5>4, <5>5 DEF EntryOK
      <4>3. Cardinality({Chosen, Generator}) = 2
        <5>1. PICK a, b : a = Chosen /\ b = Generator /\ a # b
          BY <4>1
        <5>2. IsFiniteSet({a}) /\ Cardinality({a}) = 1
          BY FS_Singleton
        <5>3. Cardinality({a} \cup {b}) = 2
          <6>1. Cardinality({a} \cup {b}) = IF b \in {a} THEN Cardinality({a}) ELSE Cardinality({a}) + 1
            BY <5>2, FS_AddElement
          <6> QED BY <5>1, <5>2, <6>1
        <5>4. {a} \cup {b} = {Chosen, Generator}
          BY <5>1
        <5> QED BY <5>3, <5>4
      <4> QED BY <4>1, <4>2, <4>3
    <3> QED BY <3>1, <3>2 DEF AllOrNothing, Handled
  <2> QED BY <2>1, <2>2
<1>2. CreatedOnce
  <2>1. ASSUME disturbed = 0, NEW p \in Inits, NEW q \in Inits, p # q
        PROVE  process[p].created \cap process[q].created = {}
    <3> SUFFICES ASSUME NEW path \in process[p].created \cap process[q].created PROVE FALSE
      OBVIOUS
    <3>1. entry[path] = File(p, "sound") /\ entry[path] = File(q, "sound")
      BY <2>1 DEF ScaffoldInv, KnowsRightly
    <3> QED BY <2>1, <3>1, Kinds
  <2>2. \A p \in Inits : process[p].created \cap process[p].skipped = {}
    BY DEF ScaffoldInv, InitRunOK, InPreflight, InPlan
  <2> QED BY <2>1, <2>2 DEF CreatedOnce
<1> QED BY <1>1, <1>2

LEMMA StepsOverwriteNothing ==
  ASSUME ScaffoldInv, [ScaffoldNext]_scaffoldVars, NEW path \in Places, entry[path] # Absent, entry'[path] # entry[path]
  PROVE  \/ disturbed' # disturbed
         \/ \E p \in Inits : entry[path] = File(p, "empty") /\ entry'[path] = File(p, "sound")
<1>1. disturbed \in Nat /\ entry = [q \in Places |-> entry[q]]
  BY DEF ScaffoldInv
<1>2. ~UNCHANGED entry
  OBVIOUS
<1>3. CASE Disturb
  BY <1>1, <1>3 DEF Disturb
<1>4. ASSUME NEW p \in Inits, Mkdir(p) PROVE FALSE
  <2>1. PICK dir : dir = Parent(Step(p).path)
    OBVIOUS
  <2>2. entry[dir] = Absent /\ entry' = [entry EXCEPT ![dir] = Dir]
    BY <1>2, <1>4, <2>1 DEF Mkdir
  <2> QED BY <1>1, <2>2
<1>5. ASSUME NEW p \in Inits, Create(p) PROVE FALSE
  <2>1. PICK made : made = Step(p).path
    OBVIOUS
  <2>2. entry[made] = Absent /\ entry' = [entry EXCEPT ![made] = File(p, "empty")]
    BY <1>2, <1>5, <2>1 DEF Create, Taken, Skip
  <2> QED BY <1>1, <2>2
<1>6. ASSUME NEW p \in Inits, Fill(p) PROVE entry[path] = File(p, "empty") /\ entry'[path] = File(p, "sound")
  <2>1. PICK filled : filled = Step(p).path
    OBVIOUS
  <2>2. entry[filled] = File(p, "empty") /\ entry' = [entry EXCEPT ![filled] = File(p, "sound")]
    BY <1>2, <1>6, <2>1 DEF Fill, There
  <2> QED BY <1>1, <2>2
<1>7. ASSUME NEW p \in Inits,
             \/ AssertIsProject(p) \/ Seek(p) \/ ChooseDirectory(p) \/ Exists(p) \/ CheckKind(p)
             \/ Die(p) \/ Report(p)
      PROVE  FALSE
  BY <1>2, <1>7 DEF AssertIsProject, Seek, ChooseDirectory, Exists, CheckKind, Die, Report
<1>8. UNCHANGED scaffoldVars => FALSE
  BY <1>2 DEF scaffoldVars
<1> QED BY <1>3, <1>4, <1>5, <1>6, <1>7, <1>8 DEF ScaffoldNext

\* For any number of inits, however they overlap, die and are disturbed: nothing
\* that was there is written over; left alone, the runs agree on all or nothing,
\* and each file is reported as created once (init.ts).
THEOREM ScaffoldTheorem == ScaffoldInit /\ [][ScaffoldNext]_scaffoldVars => ScaffoldIsSafe
<1> DEFINE Safe == \A path \in Places :
             entry[path] # Absent /\ entry'[path] # entry[path] =>
               \/ disturbed' # disturbed
               \/ \E p \in Inits : entry[path] = File(p, "empty") /\ entry'[path] = File(p, "sound")
<1>1. ScaffoldInv /\ [ScaffoldNext]_scaffoldVars => ScaffoldInv' /\ [Safe]_scaffoldVars
  BY ScaffoldNextInv, StepsOverwriteNothing
<1>2. ScaffoldInit /\ [][ScaffoldNext]_scaffoldVars => [][Safe]_scaffoldVars
  BY <1>1, ScaffoldStarts, PTL
<1>3. ScaffoldInit /\ [][ScaffoldNext]_scaffoldVars => [](AllOrNothing /\ CreatedOnce)
  BY ScaffoldNextInv, ScaffoldStarts, ScaffoldInvImplies, PTL
<1>4. ScaffoldInit /\ [][ScaffoldNext]_scaffoldVars => NeverOverwrites
  BY <1>2 DEF NeverOverwrites
<1> QED BY <1>3, <1>4 DEF ScaffoldIsSafe

(***************************************************************************)
(* Evidence reports                                                        *)
(***************************************************************************)
\* A model of the documentation and the edges of the source tree, whatever its
\* citations were compared with.
IsModel(model) ==
  /\ model.of.docs = world.docs /\ model.of.edges = world.edges
  /\ \E integrity :
       /\ \A x \in integrity : x.code \in CITATION_INTEGRITY_CODES
       /\ model.findings = GovernanceFindings(world.docs) \cup DeriveUsageFindings(world.docs, world.edges) \cup integrity

WorldOK ==
  /\ DOMAIN world = {"docs", "edges", "files"} /\ world.docs \in CapabilityDocs
  /\ \A e \in world.edges : e = Edge(e.relationship, e.field, e.resolution, e.from)

ReportInv ==
  /\ WorldOK /\ IsModel(evidence) /\ StatusIsBacked
  /\ DOMAIN job = {"kind", "todo", "report", "verdict"} /\ job.kind \in {"litigation", "audit"}

LEMMA FindingParts ==
  \A code, f, sites : LET x == Finding(code, f, sites) IN x.code = code /\ x.field = f /\ x.sites = sites
BY DEF Finding

LEMMA GapParts == \A missing, code, f, x : x \in Gap(missing, code, f) <=> missing /\ x = Finding(code, f, {})
BY DEF Gap

\* The codes of each kind of finding.
GovernanceCodes ==
  {"CAPABILITY_MISSING_OWNER", "SENSITIVE_CAPABILITY_MISSING_PROTECTIONS", "AUDIT_REQUIRED_WITHOUT_OWNER",
   "SENSITIVE_FIELD_MISSING_PROTECTIONS", "SENSITIVE_FIELD_MISSING_PURPOSE", "SENSITIVE_FIELD_MISSING_LEGAL_BASIS"}
UsageCodes ==
  {"FIELD_DYNAMIC_ACCESS_DECLARED", "FIELD_ACCESS_INDETERMINATE", "UNCONSUMED_FIELD"}

LEMMA CitationCodes ==
  ASSUME NEW w, NEW previous, NEW x \in VerifyDynamicAccessCitations(w, previous)
  PROVE  x.code \in CITATION_INTEGRITY_CODES
<1>1. \E f, c : x = Finding("MISSING_DYNAMIC_ACCESS_CITATION", f, {c}) \/ x = Finding("STALE_DYNAMIC_ACCESS_CITATION", f, {c})
  BY DEF VerifyDynamicAccessCitations
<1> QED BY <1>1, FindingParts DEF CITATION_INTEGRITY_CODES

LEMMA ComputedIsModel ==
  ASSUME NEW w, NEW previous, w.docs = world.docs, w.edges = world.edges
  PROVE  IsModel(Compute(w, previous))
<1> DEFINE integrity == VerifyDynamicAccessCitations(w, previous)
<1>1. \A x \in integrity : x.code \in CITATION_INTEGRITY_CODES
  BY CitationCodes
<1>2. /\ Compute(w, previous).of = w
      /\ Compute(w, previous).findings
           = GovernanceFindings(world.docs) \cup DeriveUsageFindings(world.docs, world.edges) \cup integrity
  BY DEF Compute
<1> HIDE DEF integrity
<1> QED BY <1>1, <1>2 DEF IsModel

LEMMA UsageField ==
  ASSUME NEW docs, NEW edges, NEW f, NEW x \in UsageOf(docs, edges, f) PROVE x.field = f
<1>1. \E code, sites : x = Finding(code, f, sites)
  <2>1. CASE IsFieldProvenRead(edges, f)
    BY <2>1 DEF UsageOf
  <2>2. CASE ~IsFieldProvenRead(edges, f) /\ docs.evidence[f] # {}
    BY <2>2 DEF UsageOf
  <2>3. CASE ~IsFieldProvenRead(edges, f) /\ docs.evidence[f] = {} /\ CollectIndeterminateSites(edges) # {}
    BY <2>3 DEF UsageOf
  <2>4. CASE ~IsFieldProvenRead(edges, f) /\ docs.evidence[f] = {} /\ CollectIndeterminateSites(edges) = {}
    BY <2>4 DEF UsageOf
  <2> QED BY <2>1, <2>2, <2>3, <2>4
<1> QED BY <1>1, FindingParts

\* What a field's own findings say of its usage.
LEMMA UsageFound ==
  ASSUME NEW docs, NEW edges, NEW f \in DataFields, "none" \notin DataFields,
         NEW x \in DeriveUsageFindings(docs, edges), x.field = f
  PROVE  edges # {} /\ Writers(docs, f) # {} /\ x \in UsageOf(docs, edges, f)
<1>1. edges # {}
  BY FindingParts DEF DeriveUsageFindings
<1>2. CASE \E from : x = Finding("UNRESOLVED_CONSUMER", "none", {from}) \/ x = Finding("INDETERMINATE_CONSUMER", "none", {from})
  BY <1>2, FindingParts
<1>3. CASE \E g \in DataFields : Writers(docs, g) # {} /\ x \in UsageOf(docs, edges, g)
  <2>1. PICK g \in DataFields : Writers(docs, g) # {} /\ x \in UsageOf(docs, edges, g)
    BY <1>3
  <2>2. x.field = g
    BY <2>1, UsageField
  <2>3. g = f
    BY <2>2
  <2> QED BY <1>1, <2>1, <2>3
<1>4. \/ \E from : x = Finding("UNRESOLVED_CONSUMER", "none", {from}) \/ x = Finding("INDETERMINATE_CONSUMER", "none", {from})
      \/ \E g \in DataFields : Writers(docs, g) # {} /\ x \in UsageOf(docs, edges, g)
  BY <1>1 DEF DeriveUsageFindings
<1> QED BY <1>2, <1>3, <1>4

LEMMA GovernanceFound ==
  ASSUME NEW docs, NEW x \in GovernanceFindings(docs) PROVE x.code \in GovernanceCodes
BY FindingParts, GapParts DEF GovernanceFindings, GovernanceCodes

\* The findings of a field that a model holds, by their codes.
LEMMA FieldFindings ==
  ASSUME NEW model, IsModel(model), NEW f \in DataFields, "none" \notin DataFields,
         NEW x \in FindingsByField(model.findings, f)
  PROVE  \/ x.code \in GovernanceCodes \cup CITATION_INTEGRITY_CODES
         \/ x \in UsageOf(world.docs, world.edges, f) /\ world.edges # {} /\ Writers(world.docs, f) # {}
<1>1. x.field = f /\ x \in model.findings
  BY DEF FindingsByField
<1>2. CASE x \in DeriveUsageFindings(world.docs, world.edges)
  BY <1>1, <1>2, UsageFound
<1>3. CASE x \notin DeriveUsageFindings(world.docs, world.edges)
  BY <1>1, <1>3, GovernanceFound DEF IsModel
<1> QED BY <1>2, <1>3

\* What UsageOf finds, where it finds anything.
LEMMA UsageCases ==
  ASSUME NEW docs, NEW edges, NEW f
  PROVE  LET undecided == CollectIndeterminateSites(edges)
             usage == UsageOf(docs, edges, f)
         IN  /\ usage = {} <=> IsFieldProvenRead(edges, f)
             /\ \A x \in usage :
                  \/ x.code = "FIELD_DYNAMIC_ACCESS_DECLARED" /\ docs.evidence[f] # {}
                  \/ x.code = "FIELD_ACCESS_INDETERMINATE" /\ docs.evidence[f] = {} /\ x.sites = undecided /\ undecided # {}
                  \/ x.code = "UNCONSUMED_FIELD" /\ docs.evidence[f] = {} /\ undecided = {}
<1> DEFINE undecided == CollectIndeterminateSites(edges)
           usage == UsageOf(docs, edges, f)
<1>1. CASE IsFieldProvenRead(edges, f)
  <2>1. usage = {}
    BY <1>1 DEF UsageOf
  <2> QED BY <1>1, <2>1
<1>2. CASE ~IsFieldProvenRead(edges, f) /\ docs.evidence[f] # {}
  <2>1. usage = {Finding("FIELD_DYNAMIC_ACCESS_DECLARED", f, {c}) : c \in docs.evidence[f]}
    BY <1>2 DEF UsageOf
  <2>2. usage # {} /\ \A x \in usage : x.code = "FIELD_DYNAMIC_ACCESS_DECLARED"
    <3> HIDE DEF usage
    <3>1. PICK c : c \in docs.evidence[f]
      BY <1>2
    <3>2. Finding("FIELD_DYNAMIC_ACCESS_DECLARED", f, {c}) \in usage
      BY <2>1, <3>1
    <3>3. ASSUME NEW x \in usage PROVE x.code = "FIELD_DYNAMIC_ACCESS_DECLARED"
      <4>1. \E s : x = Finding("FIELD_DYNAMIC_ACCESS_DECLARED", f, {s})
        BY <2>1
      <4> QED BY <4>1, FindingParts
    <3> QED BY <3>2, <3>3
  <2> QED BY <1>2, <2>2
<1>3. CASE ~IsFieldProvenRead(edges, f) /\ docs.evidence[f] = {} /\ undecided # {}
  <2>1. usage = {Finding("FIELD_ACCESS_INDETERMINATE", f, undecided)}
    BY <1>3 DEF UsageOf
  <2>2. usage # {} /\ \A x \in usage : x.code = "FIELD_ACCESS_INDETERMINATE" /\ x.sites = undecided
    <3> HIDE DEF usage, undecided
    <3> QED BY <2>1, FindingParts
  <2> QED BY <1>3, <2>2
<1>4. CASE ~IsFieldProvenRead(edges, f) /\ docs.evidence[f] = {} /\ undecided = {}
  <2>1. usage = {Finding("UNCONSUMED_FIELD", f, {})}
    BY <1>4 DEF UsageOf
  <2>2. usage # {} /\ \A x \in usage : x.code = "UNCONSUMED_FIELD"
    <3> HIDE DEF usage
    <3> QED BY <2>1, FindingParts
  <2> QED BY <1>4, <2>2
<1> QED BY <1>1, <1>2, <1>3, <1>4

\* What a status of the litigation report claims of a field.
Backed(listed, f) ==
  CASE listed.consumptionStatus = "unconsumed" ->
         listed.provenAccessSites = {} /\ listed.indeterminateSites = {} /\ listed.dynamicAccessCitations = {}
    [] listed.consumptionStatus = "indeterminate"     -> listed.indeterminateSites # {} /\ listed.dynamicAccessCitations = {}
    [] listed.consumptionStatus = "declared-dynamic"  -> listed.dynamicAccessCitations # {}
    [] listed.consumptionStatus = "stale-declaration" -> listed.citationIntegrityFindings # {}
    [] OTHER -> listed.provenAccessSites # {} \/ world.edges = {} \/ Writers(world.docs, f) = {}

LEMMA EntryIsBacked ==
  ASSUME WorldOK, "none" \notin DataFields, NEW model, IsModel(model), NEW f \in DataFields
  PROVE  Backed(FieldEvidenceEntry(model, f), f)
<1> DEFINE own   == FindingsByField(model.findings, f)
           usage == UsageOf(world.docs, world.edges, f)
           cited == world.docs.evidence[f]
           undecided == CollectIndeterminateSites(world.edges)
           sites == UNION {x.sites : x \in {y \in own : y.code = "FIELD_ACCESS_INDETERMINATE"}}
           proven == AccessSitesFor(world.edges, f)
           status == StatusOf(Codes(own))
           listed == FieldEvidenceEntry(model, f)
           used == world.edges # {} /\ Writers(world.docs, f) # {}
<1>1. /\ listed.consumptionStatus = status /\ listed.provenAccessSites = proven /\ listed.indeterminateSites = sites
      /\ listed.dynamicAccessCitations = cited
      /\ listed.citationIntegrityFindings = {x \in own : x.code \in CITATION_INTEGRITY_CODES}
  BY DEF FieldEvidenceEntry, IsModel
<1>2. proven = {} <=> ~IsFieldProvenRead(world.edges, f)
  <2>1. ASSUME NEW e \in world.edges, e.relationship = "reads-field" PROVE e.placed
    <3>1. e = Edge(e.relationship, e.field, e.resolution, e.from)
      BY DEF WorldOK
    <3>2. \A r, g, d, s : Edge(r, g, d, s).placed = (r = "reads-field" \/ d = "indeterminate")
      BY DEF Edge
    <3>3. e.placed = (e.relationship = "reads-field" \/ e.resolution = "indeterminate")
      BY <3>1, <3>2
    <3> QED BY <2>1, <3>3
  <2> QED BY <2>1 DEF AccessSitesFor, IsFieldProvenRead
<1>3. usage = {} <=> IsFieldProvenRead(world.edges, f)
  BY UsageCases
<1>4. \A x \in usage :
         \/ x.code = "FIELD_DYNAMIC_ACCESS_DECLARED" /\ cited # {}
         \/ x.code = "FIELD_ACCESS_INDETERMINATE" /\ cited = {} /\ x.sites = undecided /\ undecided # {}
         \/ x.code = "UNCONSUMED_FIELD" /\ cited = {} /\ undecided = {}
  BY UsageCases
<1>5. \A x \in own : \/ x.code \in GovernanceCodes \cup CITATION_INTEGRITY_CODES
                     \/ x \in usage /\ used
  BY FieldFindings
<1>6. used => usage \subseteq own
  <2> SUFFICES ASSUME used, NEW x \in usage PROVE x \in own
    OBVIOUS
  <2>1. x \in model.findings
    BY DEF IsModel, DeriveUsageFindings
  <2>2. x.field = f
    BY UsageField
  <2> QED BY <2>1, <2>2 DEF FindingsByField
<1> SUFFICES Backed(listed, f)
  OBVIOUS
<1> HIDE DEF own, usage, cited, undecided, sites, proven, status, listed, used
<1>7. CASE status = "unconsumed"
  <2>1. PICK x \in own : x.code = "UNCONSUMED_FIELD"
    BY <1>7 DEF status, StatusOf, Codes
  <2>2. x \in usage
    BY <1>5, <2>1 DEF GovernanceCodes, CITATION_INTEGRITY_CODES
  <2>3. cited = {} /\ undecided = {} /\ usage # {}
    BY <1>4, <2>1, <2>2
  <2>4. \A y \in own : y.code # "FIELD_ACCESS_INDETERMINATE"
    BY <1>4, <1>5, <2>3 DEF GovernanceCodes, CITATION_INTEGRITY_CODES
  <2>5. sites = {}
    BY <2>4 DEF sites
  <2> QED BY <1>1, <1>2, <1>3, <1>7, <2>3, <2>5 DEF Backed
<1>8. CASE status = "indeterminate"
  <2>1. PICK x \in own : x.code = "FIELD_ACCESS_INDETERMINATE"
    BY <1>8 DEF status, StatusOf, Codes
  <2>2. x \in usage
    BY <1>5, <2>1 DEF GovernanceCodes, CITATION_INTEGRITY_CODES
  <2>3. cited = {} /\ x.sites # {}
    BY <1>4, <2>1, <2>2
  <2>4. sites # {}
    BY <2>1, <2>3 DEF sites
  <2> QED BY <1>1, <1>8, <2>3, <2>4 DEF Backed
<1>9. CASE status = "declared-dynamic"
  <2>1. PICK x \in own : x.code = "FIELD_DYNAMIC_ACCESS_DECLARED"
    BY <1>9 DEF status, StatusOf, Codes
  <2>2. x \in usage
    BY <1>5, <2>1 DEF GovernanceCodes, CITATION_INTEGRITY_CODES
  <2>3. cited # {}
    BY <1>4, <2>1, <2>2
  <2> QED BY <1>1, <1>9, <2>3 DEF Backed
<1>10. CASE status = "stale-declaration"
  <2>1. PICK x \in own : x.code \in CITATION_INTEGRITY_CODES
    BY <1>10 DEF status, StatusOf, Codes
  <2> QED BY <1>1, <1>10, <2>1 DEF Backed
<1>11. CASE status = "proven"
  <2>1. \A x \in own : x.code \notin {"FIELD_DYNAMIC_ACCESS_DECLARED", "FIELD_ACCESS_INDETERMINATE", "UNCONSUMED_FIELD"}
    BY <1>11 DEF status, StatusOf, Codes
  <2>2. used => usage = {}
    BY <1>4, <1>6, <2>1
  <2>3. proven # {} \/ world.edges = {} \/ Writers(world.docs, f) = {}
    BY <1>2, <1>3, <2>2 DEF used
  <2> QED BY <1>1, <1>11, <2>3 DEF Backed
<1>12. status \in {"unconsumed", "indeterminate", "declared-dynamic", "stale-declaration", "proven"}
  BY DEF status, StatusOf
<1> QED BY <1>7, <1>8, <1>9, <1>10, <1>11, <1>12

LEMMA GottenIsModel == ASSUME IsModel(evidence) PROVE IsModel(GetEvidence)
<1>1. IsModel(Compute(world, snapshot))
  BY ComputedIsModel
<1> QED BY <1>1 DEF GetEvidence

LEMMA ReportStarts == ReportInit => ReportInv
<1> SUFFICES ASSUME NEW w \in Worlds, NEW kind \in {"litigation", "audit"}, ReportStart(w, kind) PROVE ReportInv
  BY DEF ReportInit
<1>1. world = w /\ job = NoJob(kind) /\ \E previous : evidence = Compute(world, previous)
  BY DEF ReportStart
<1>2. WorldOK
  BY <1>1, WorldsAssumption DEF WorldOK
<1>3. IsModel(evidence)
  BY <1>1, ComputedIsModel
<1>4. job.kind = kind /\ job.report = <<>> /\ DOMAIN job = {"kind", "todo", "report", "verdict"}
  BY <1>1 DEF NoJob
<1>5. StatusIsBacked
  BY <1>4 DEF StatusIsBacked
<1> QED BY <1>2, <1>3, <1>4, <1>5 DEF ReportInv

\* Another job, of which it is said what its report claims.
LEMMA OtherJob ==
  ASSUME ReportInv, WorldOK', world'.docs = world.docs, world'.edges = world.edges, UNCHANGED evidence \/ IsModel(evidence'),
         DOMAIN job' = {"kind", "todo", "report", "verdict"}, job'.kind = job.kind,
         \/ job'.report \in {job.report, <<>>}
         \/ job.kind = "litigation" => \A f \in DOMAIN job'.report : Backed(job'.report[f], f)
  PROVE  ReportInv'
<1>1. IsModel(evidence)'
  <2>1. PICK model : model = evidence'
    OBVIOUS
  <2>2. IsModel(model)
    BY <2>1 DEF ReportInv
  <2>3. IsModel(model)'
    BY <2>2 DEF IsModel
  <2> QED BY <2>1, <2>3 DEF IsModel
<1>2. StatusIsBacked'
  <2> SUFFICES ASSUME job'.kind = "litigation", NEW f \in DOMAIN job'.report
               PROVE  Backed(job'.report[f], f)
    BY DEF StatusIsBacked, Backed
  <2>1. CASE job'.report = job.report
    BY <2>1 DEF ReportInv, StatusIsBacked, Backed
  <2>2. CASE job'.report = <<>>
    BY <2>2
  <2> QED BY <2>1, <2>2
<1> QED BY <1>1, <1>2 DEF ReportInv

LEMMA ReportNextInv == ReportInv /\ [ReportNext]_reportVars => ReportInv'
<1> SUFFICES ASSUME ReportInv, [ReportNext]_reportVars PROVE ReportInv'
  OBVIOUS
<1>1. CASE EditSource
  <2>1. PICK s \in SourceFiles, version \in {Gone, 1, 2} : world' = [world EXCEPT !.files[s] = version] /\ UNCHANGED <<evidence, job>>
    BY <1>1 DEF EditSource
  <2>2. DOMAIN world = {"docs", "edges", "files"}
    BY DEF ReportInv, WorldOK
  <2>3. world'.docs = world.docs /\ world'.edges = world.edges /\ DOMAIN world' = {"docs", "edges", "files"}
    BY <2>1, <2>2
  <2>4. WorldOK'
    BY <2>3 DEF ReportInv, WorldOK
  <2> QED BY <2>1, <2>3, <2>4, OtherJob DEF ReportInv
<1>2. CASE GenerateEvidence
  <2>1. world' = world /\ job' = job /\ evidence' = Compute(world, snapshot)
    BY <1>2 DEF GenerateEvidence, Baseline
  <2>2. IsModel(evidence')
    BY <2>1, ComputedIsModel
  <2>3. WorldOK'
    BY <2>1 DEF ReportInv, WorldOK
  <2> QED BY <2>1, <2>2, <2>3, OtherJob DEF ReportInv
<1>3. CASE StartJob
  <2>1. UNCHANGED <<world, evidence>>
    BY <1>3 DEF StartJob
  <2>2. /\ DOMAIN job' = {"kind", "todo", "report", "verdict"} /\ job'.kind = job.kind
        /\ job.kind = "litigation" => job'.report = Litigation(GetEvidence)
    BY <1>3 DEF StartJob, ReportInv
  <2>3. ASSUME job.kind = "litigation", NEW f \in DOMAIN job'.report PROVE Backed(job'.report[f], f)
    <3>1. f \in DataFields /\ job'.report[f] = FieldEvidenceEntry(GetEvidence, f)
      BY <2>2, <2>3 DEF Litigation, Sensitive
    <3>2. IsModel(GetEvidence) /\ WorldOK
      BY GottenIsModel DEF ReportInv
    <3> QED BY <3>1, <3>2, EntryIsBacked, WorldsAssumption
  <2>4. WorldOK'
    BY <2>1 DEF ReportInv, WorldOK
  <2> QED BY <2>1, <2>2, <2>3, <2>4, OtherJob
<1>4. CASE WriteReport \/ CheckReport \/ KillJob \/ UNCHANGED reportVars
  <2>1. UNCHANGED <<world, evidence>>
    BY <1>4 DEF WriteReport, CheckReport, KillJob, reportVars
  <2>2. /\ DOMAIN job' = {"kind", "todo", "report", "verdict"} /\ job'.kind = job.kind
        /\ job'.report \in {job.report, <<>>}
    <3>1. DOMAIN job = {"kind", "todo", "report", "verdict"}
      BY DEF ReportInv
    <3>2. CASE WriteReport
      <4>1. job' = [job EXCEPT !.todo = Tail(@)]
        BY <3>2 DEF WriteReport
      <4> QED BY <3>1, <4>1
    <3>3. CASE CheckReport
      <4>1. \E verdict : job' = [job EXCEPT !.todo = <<>>, !.verdict = verdict]
        BY <3>3 DEF CheckReport
      <4> QED BY <3>1, <4>1
    <3>4. CASE KillJob
      BY <3>4 DEF KillJob, NoJob
    <3>5. CASE UNCHANGED reportVars
      BY <3>1, <3>5 DEF reportVars
    <3> QED BY <1>4, <3>2, <3>3, <3>4, <3>5
  <2>3. WorldOK'
    BY <2>1 DEF ReportInv, WorldOK
  <2> QED BY <2>1, <2>2, <2>3, OtherJob
<1> QED BY <1>1, <1>2, <1>3, <1>4 DEF ReportNext

\* A field's part of GovernanceFindings, and what the whole says of two gaps.
OwnGaps(docs, f) ==
  LET own == docs.fields[f].sensitivity # Undeclared
  IN  Gap(own /\ docs.fields[f].protections = Undeclared, "SENSITIVE_FIELD_MISSING_PROTECTIONS", f)
      \cup Gap(own /\ InForce(docs, f, "purpose") = Undeclared, "SENSITIVE_FIELD_MISSING_PURPOSE", f)
      \cup Gap(own /\ InForce(docs, f, "legalBasis") = Undeclared, "SENSITIVE_FIELD_MISSING_LEGAL_BASIS", f)
      \cup Gap(InForce(docs, f, "auditRequired") = "yes" /\ InForce(docs, f, "owner") = Undeclared,
               "AUDIT_REQUIRED_WITHOUT_OWNER", f)

CapabilityGaps(docs) ==
  Gap(docs.owner = Undeclared, "CAPABILITY_MISSING_OWNER", "none")
  \cup Gap(docs.sensitivity # Undeclared /\ docs.protections = Undeclared, "SENSITIVE_CAPABILITY_MISSING_PROTECTIONS", "none")
  \cup Gap(docs.auditRequired = "yes" /\ docs.owner = Undeclared, "AUDIT_REQUIRED_WITHOUT_OWNER", "none")

LEMMA GovernanceParts ==
  ASSUME NEW docs
  PROVE  GovernanceFindings(docs) = CapabilityGaps(docs) \cup UNION {OwnGaps(docs, f) : f \in DataFields}
BY DEF GovernanceFindings, CapabilityGaps, OwnGaps

LEMMA GovernanceCases ==
  ASSUME NEW docs, NEW x \in GovernanceFindings(docs),
         x.code \in {"SENSITIVE_FIELD_MISSING_PURPOSE", "SENSITIVE_FIELD_MISSING_LEGAL_BASIS"}
  PROVE  \E g \in DataFields :
           \/ InForce(docs, g, "purpose") = Undeclared /\ x = Finding("SENSITIVE_FIELD_MISSING_PURPOSE", g, {})
           \/ InForce(docs, g, "legalBasis") = Undeclared /\ x = Finding("SENSITIVE_FIELD_MISSING_LEGAL_BASIS", g, {})
<1>1. x \notin CapabilityGaps(docs)
  BY FindingParts, GapParts DEF CapabilityGaps
<1>2. PICK g \in DataFields : x \in OwnGaps(docs, g)
  BY <1>1, GovernanceParts
<1>3. \/ InForce(docs, g, "purpose") = Undeclared /\ x = Finding("SENSITIVE_FIELD_MISSING_PURPOSE", g, {})
      \/ InForce(docs, g, "legalBasis") = Undeclared /\ x = Finding("SENSITIVE_FIELD_MISSING_LEGAL_BASIS", g, {})
      \/ x = Finding("SENSITIVE_FIELD_MISSING_PROTECTIONS", g, {})
      \/ x = Finding("AUDIT_REQUIRED_WITHOUT_OWNER", g, {})
  BY <1>2, GapParts DEF OwnGaps
<1> QED BY <1>3, FindingParts

LEMMA GapsOfAField ==
  ASSUME NEW docs, NEW f \in DataFields, docs.fields[f].sensitivity # Undeclared
  PROVE  /\ InForce(docs, f, "purpose") = Undeclared =>
              Finding("SENSITIVE_FIELD_MISSING_PURPOSE", f, {}) \in GovernanceFindings(docs)
         /\ InForce(docs, f, "legalBasis") = Undeclared =>
              Finding("SENSITIVE_FIELD_MISSING_LEGAL_BASIS", f, {}) \in GovernanceFindings(docs)
<1>1. OwnGaps(docs, f) \subseteq GovernanceFindings(docs)
  BY GovernanceParts
<1> QED BY <1>1, GapParts DEF OwnGaps

\* The gaps of a field that is sensitive by its own word are findings, and no
\* other finding says so.
LEMMA GapsFound ==
  ASSUME NEW model, IsModel(model), NEW f \in DataFields, world.docs.fields[f].sensitivity # Undeclared,
         NEW property \in {"purpose", "legalBasis"}, NEW code,
         code = IF property = "purpose" THEN "SENSITIVE_FIELD_MISSING_PURPOSE" ELSE "SENSITIVE_FIELD_MISSING_LEGAL_BASIS"
  PROVE  InForce(world.docs, f, property) = Undeclared <=> Finding(code, f, {}) \in model.findings
<1> DEFINE docs == world.docs
           x == Finding(code, f, {})
<1>1. x.code = code /\ x.field = f
  BY FindingParts
<1>2. x \in model.findings => x \in GovernanceFindings(docs)
  <2>1. x \notin DeriveUsageFindings(docs, world.edges)
    <3> SUFFICES ASSUME x \in DeriveUsageFindings(docs, world.edges) PROVE FALSE
      OBVIOUS
    <3>1. x \in UsageOf(docs, world.edges, f)
      BY <1>1, UsageFound, WorldsAssumption
    <3> QED BY <1>1, <3>1, UsageCases
  <2>2. code \notin CITATION_INTEGRITY_CODES
    BY DEF CITATION_INTEGRITY_CODES
  <2> QED BY <1>1, <2>1, <2>2 DEF IsModel
<1>3. x \in GovernanceFindings(docs) => InForce(docs, f, property) = Undeclared
  <2> SUFFICES ASSUME x \in GovernanceFindings(docs) PROVE InForce(docs, f, property) = Undeclared
    OBVIOUS
  <2>1. PICK g \in DataFields :
          \/ InForce(docs, g, "purpose") = Undeclared /\ x = Finding("SENSITIVE_FIELD_MISSING_PURPOSE", g, {})
          \/ InForce(docs, g, "legalBasis") = Undeclared /\ x = Finding("SENSITIVE_FIELD_MISSING_LEGAL_BASIS", g, {})
    <3>1. x.code \in {"SENSITIVE_FIELD_MISSING_PURPOSE", "SENSITIVE_FIELD_MISSING_LEGAL_BASIS"}
      BY <1>1
    <3> HIDE DEF x, docs
    <3> QED BY <3>1, GovernanceCases
  <2>2. g = f
    BY <1>1, <2>1, FindingParts
  <2> QED BY <1>1, <2>1, <2>2, FindingParts
<1>4. InForce(docs, f, property) = Undeclared => x \in GovernanceFindings(docs)
  <2> SUFFICES ASSUME InForce(docs, f, property) = Undeclared PROVE x \in GovernanceFindings(docs)
    OBVIOUS
  <2>1. docs.fields[f].sensitivity # Undeclared
    OBVIOUS
  <2>2. CASE property = "purpose"
    BY <2>1, <2>2, GapsOfAField
  <2>3. CASE property = "legalBasis"
    BY <2>1, <2>3, GapsOfAField
  <2> QED BY <2>2, <2>3
<1> QED BY <1>2, <1>3, <1>4 DEF IsModel

LEMMA ModelsAgree ==
  ASSUME WorldOK, NEW model, IsModel(model) PROVE ReportsAgreeOn(model)
<1> DEFINE audit == BuildReport(model)
           docs == world.docs
           declarable == {"owner", "purpose", "legalBasis", "dataResidency", "auditRequired"}
<1>1. model.of.docs = docs
  BY DEF IsModel
<1>2. /\ DOMAIN audit.sensitiveFields = Sensitive(docs) /\ audit.findings = model.findings
      /\ \A property \in declarable : audit.capability[property] <=> docs[property] # Undeclared
      /\ \A f \in Sensitive(docs) :
           /\ DOMAIN audit.sensitiveFields[f].declared = declarable
           /\ \A property \in declarable :
                audit.sensitiveFields[f].declared[property] <=> InForce(docs, f, property) # Undeclared
  BY <1>1 DEF BuildReport
<1>3. /\ DOMAIN Litigation(model) = Sensitive(docs)
      /\ \A f \in Sensitive(docs) :
           /\ \A property \in declarable : Litigation(model)[f].declared[property] = InForce(docs, f, property)
  BY <1>1 DEF Litigation, FieldEvidenceEntry
<1> HIDE DEF audit
<1>5. ASSUME NEW f \in Sensitive(docs), NEW property \in declarable
      PROVE  LET listed == Litigation(model)[f]
                 row == audit.sensitiveFields[f]
             IN  /\ audit.capability[property] => row.declared[property]
                 /\ property \in {"purpose", "legalBasis"} /\ docs.fields[f].sensitivity # Undeclared =>
                      (~row.declared[property] <=>
                         Finding(IF property = "purpose" THEN "SENSITIVE_FIELD_MISSING_PURPOSE"
                                 ELSE "SENSITIVE_FIELD_MISSING_LEGAL_BASIS", f, {}) \in audit.findings)
                 /\ docs.fields[f][property] # Undeclared => listed.declared[property] = docs.fields[f][property]
  <2>1. f \in DataFields
    BY DEF Sensitive
  <2>2. /\ audit.capability[property] <=> docs[property] # Undeclared
        /\ audit.sensitiveFields[f].declared[property] <=> InForce(docs, f, property) # Undeclared
        /\ Litigation(model)[f].declared[property] = InForce(docs, f, property)
    BY <1>2, <1>3
  <2>3. docs[property] # Undeclared => InForce(docs, f, property) # Undeclared
    BY DEF InForce
  <2>4. docs.fields[f][property] # Undeclared => InForce(docs, f, property) = docs.fields[f][property]
    BY DEF InForce
  <2>5. ASSUME property \in {"purpose", "legalBasis"}, docs.fields[f].sensitivity # Undeclared
        PROVE  InForce(docs, f, property) = Undeclared <=>
                 Finding(IF property = "purpose" THEN "SENSITIVE_FIELD_MISSING_PURPOSE"
                         ELSE "SENSITIVE_FIELD_MISSING_LEGAL_BASIS", f, {}) \in audit.findings
    BY <1>2, <2>1, <2>5, GapsFound
  <2> QED BY <2>2, <2>3, <2>4, <2>5
<1>6. DOMAIN audit.sensitiveFields = DOMAIN Litigation(model)
  BY <1>2, <1>3
<1>7. ASSUME NEW f \in DOMAIN audit.sensitiveFields
      PROVE  f \in Sensitive(docs) /\ DOMAIN audit.sensitiveFields[f].declared = declarable
  BY <1>2, <1>7
<1> SUFFICES ASSUME NEW f \in Sensitive(docs)
             PROVE  LET listed == Litigation(model)[f]
                        row == audit.sensitiveFields[f]
                    IN  \A property \in declarable :
                          /\ audit.capability[property] => row.declared[property]
                          /\ property \in {"purpose", "legalBasis"} /\ docs.fields[f].sensitivity # Undeclared =>
                               (~row.declared[property] <=>
                                  Finding(IF property = "purpose" THEN "SENSITIVE_FIELD_MISSING_PURPOSE"
                                          ELSE "SENSITIVE_FIELD_MISSING_LEGAL_BASIS", f, {}) \in audit.findings)
                          /\ docs.fields[f][property] # Undeclared =>
                               listed.declared[property] = docs.fields[f][property]
  BY <1>6, <1>7 DEF audit, ReportsAgreeOn
<1> QED BY <1>5

\* For any source trees and edits: what a report claims of a field is backed by
\* the evidence it names, and the two reports and the findings agree.
THEOREM ReportsTheorem == ReportInit /\ [][ReportNext]_reportVars => []ReportsAreBacked
<1>1. ReportInv => ReportsAreBacked
  <2> SUFFICES ASSUME ReportInv PROVE ReportsAreBacked
    OBVIOUS
  <2>1. WorldOK /\ IsModel(GetEvidence) /\ StatusIsBacked
    BY GottenIsModel DEF ReportInv
  <2>2. ReportsAgree
    <3>1. PICK model : model = GetEvidence
      OBVIOUS
    <3>2. IsModel(model)
      BY <2>1, <3>1
    <3>3. world.docs \in CapabilityDocs
      BY <2>1 DEF WorldOK
    <3> HIDE <2>1
    <3> QED BY <2>1, <3>1, <3>2, <3>3, ModelsAgree DEF ReportsAgree
  <2> QED BY <2>1, <2>2 DEF ReportsAreBacked
<1> QED BY <1>1, ReportStarts, ReportNextInv, PTL

\* Of a cited file that is not what a baseline holds, there is a finding.
LEMMA CitationFound ==
  ASSUME NEW w, NEW previous, NEW f \in DataFields, NEW s \in w.docs.evidence[f] \cap DOMAIN previous[f],
         w.files[s] # previous[f][s]
  PROVE  \E code \in CITATION_INTEGRITY_CODES : Finding(code, f, {s}) \in VerifyDynamicAccessCitations(w, previous)
<1> DEFINE cited(g) == w.docs.evidence[g]
           missing(g) == {c \in cited(g) : w.files[c] = Gone}
           stale(g) == {c \in cited(g) : w.files[c] # Gone /\ c \in DOMAIN previous[g] /\ previous[g][c] # w.files[c]}
           found(g) == {Finding("MISSING_DYNAMIC_ACCESS_CITATION", g, {c}) : c \in missing(g)}
                       \cup {Finding("STALE_DYNAMIC_ACCESS_CITATION", g, {c}) : c \in stale(g)}
<1>1. VerifyDynamicAccessCitations(w, previous) = UNION {found(g) : g \in DataFields}
  BY DEF VerifyDynamicAccessCitations
<1>2. found(f) \subseteq VerifyDynamicAccessCitations(w, previous)
  <2> HIDE DEF found
  <2> QED BY <1>1
<1>3. s \in missing(f) \/ s \in stale(f)
  OBVIOUS
<1>4. \/ Finding("MISSING_DYNAMIC_ACCESS_CITATION", f, {s}) \in found(f)
      \/ Finding("STALE_DYNAMIC_ACCESS_CITATION", f, {s}) \in found(f)
  <2> HIDE DEF missing, stale
  <2> QED BY <1>3
<1> HIDE DEF found
<1> QED BY <1>2, <1>4 DEF CITATION_INTEGRITY_CODES

\* For any source trees and edits: a cited file that changed since the last
\* generation is reported by the next.
THEOREM CitationsTheorem == ReportInit /\ [][ReportNext]_reportVars => ChangedCitationsAreReported
<1> DEFINE Reported == evidence' # evidence =>
             \A f \in DataFields : \A s \in world.docs.evidence[f] \cap DOMAIN snapshot[f] :
               world.files[s] # snapshot[f][s] =>
                 \E x \in evidence'.findings : x.field = f /\ x.sites = {s} /\ x.code \in CITATION_INTEGRITY_CODES
<1>1. [ReportNext]_reportVars => [Reported]_reportVars
  <2> SUFFICES ASSUME ReportNext, evidence' # evidence,
                      NEW f \in DataFields, NEW s \in world.docs.evidence[f] \cap DOMAIN snapshot[f],
                      world.files[s] # snapshot[f][s]
               PROVE  \E x \in evidence'.findings :
                        x.field = f /\ x.sites = {s} /\ x.code \in CITATION_INTEGRITY_CODES
    OBVIOUS
  <2>1. evidence' = Compute(world, snapshot)
    BY DEF ReportNext, EditSource, GenerateEvidence, StartJob, WriteReport, CheckReport, KillJob, Baseline
  <2>2. VerifyDynamicAccessCitations(world, snapshot) \subseteq evidence'.findings
    BY <2>1 DEF Compute
  <2>3. \E code \in CITATION_INTEGRITY_CODES :
          Finding(code, f, {s}) \in VerifyDynamicAccessCitations(world, snapshot)
    BY CitationFound
  <2> QED BY <2>2, <2>3, FindingParts
<1>2. ReportInit /\ [][ReportNext]_reportVars => [][Reported]_reportVars
  BY <1>1, PTL
<1> QED BY <1>2 DEF ChangedCitationsAreReported

(***************************************************************************)
(* Tsconfig aliases                                                        *)
(***************************************************************************)
\* What is known at each phase: which compiler was picked, and, until somebody
\* edits the project, what the tsconfig is.
PhaseOK ==
  /\ installed \in Installs /\ option \in {"off", "default", "explicit"} /\ config \in Configs
  /\ phase \in {"import", "stat", "read", "resolving", "failed"}
  /\ phase \in {"stat", "read", "resolving"} => PickCompiler # "throws"
  /\ phase = "read" => HasClassicApi(PickCompiler)
  /\ phase # "resolving" => loaded = NotLoaded
  /\ edits = 0 =>
       /\ phase = "read" => option # "off" /\ IsFile
       /\ phase = "failed" => PickCompiler = "throws" \/ IsFile
       /\ phase = "resolving" /\ option = "explicit" /\ config # "plain" =>
            loaded.resolution # "undefined" \/ loaded.warning # "undefined"
       /\ phase = "resolving" /\ option # "explicit" /\ config = "missing" => loaded = NotLoaded

\* Every answer is what the cache holds.
AnswersCached ==
  /\ \A k \in DOMAIN cache : cache[k][1] \in {"source", "undefined"}
  /\ \A a \in answers : a.key \in DOMAIN cache /\ a.to = cache[a.key]

AliasInv == edits \in Nat /\ PhaseOK /\ AnswersCached

\* A compiler is picked only if nothing is damaged that was asked for it.
LEMMA PickedCompiler ==
  ASSUME installed \in Installs
  PROVE  /\ PickCompiler # "throws" => installed["typescript"] \notin {"broken", "lacks dependency"}
         /\ HasClassicApi(PickCompiler) => "classic" \in {installed[id] : id \in DOMAIN installed}
<1>1. \A id \in {"typescript", "@typescript/typescript6"} : id \in DOMAIN installed /\ installed[id] \in Outcomes
  BY DEF Installs
<1>2. \A id \in {"typescript", "@typescript/typescript6"} :
        /\ TryLoad(id) = "classic" <=> installed[id] = "classic"
        /\ installed[id] \in {"broken", "lacks dependency"} => TryLoad(id) = "throws"
  BY <1>1 DEF TryLoad, IsModuleNotFound, Outcomes
<1> QED BY <1>1, <1>2 DEF PickCompiler, HasClassicApi

LEMMA AliasStarts == AliasInit => AliasInv
<1> SUFFICES ASSUME NEW installs \in Installs, NEW given \in {"off", "default", "explicit"}, NEW file \in Configs,
                    NEW sources, AliasStart(installs, given, file, sources)
             PROVE  AliasInv
  BY DEF AliasInit
<1> QED BY DEF AliasStart, AliasInv, PhaseOK, AnswersCached, NotLoaded

\* What a call of loadTsconfigPaths leaves.
LEMMA LoadsRightly ==
  ASSUME AliasInv, Stat \/ Read
  PROVE  AliasInv'
<1> USE DEF AliasInv
<1>1. UNCHANGED <<installed, option, config, cache, answers, edits>>
  BY DEF Stat, Read
<1>2. AnswersCached'
  BY <1>1 DEF AnswersCached
<1>3. PickCompiler' = PickCompiler /\ IsFile' = IsFile
  BY <1>1 DEF PickCompiler, TryLoad, IsFile
<1>4. CASE Stat /\ option # "off" /\ IsFile
  <2>1. phase' = (IF HasClassicApi(PickCompiler) THEN "read" ELSE "failed") /\ loaded' = loaded /\ phase = "stat"
    BY <1>4 DEF Stat
  <2> QED BY <1>1, <1>2, <1>3, <1>4, <2>1 DEF PhaseOK, HasClassicApi
<1>5. CASE Stat /\ (option = "off" \/ ~IsFile)
  <2>1. /\ phase = "stat" /\ phase' = "resolving"
        /\ \/ loaded' = NotLoaded /\ option # "explicit"
           \/ loaded' = [resolution |-> "undefined", warning |-> "no file"] /\ option = "explicit"
    BY <1>5 DEF Stat, Load, NotLoaded, MissingIsSilent, PhaseOK
  <2>2. option # "explicit" => loaded' = NotLoaded
    BY <2>1
  <2>3. option = "explicit" => loaded'.warning # "undefined"
    <3> SUFFICES ASSUME option = "explicit" PROVE loaded'.warning # "undefined"
      OBVIOUS
    <3>1. loaded' = [resolution |-> "undefined", warning |-> "no file"]
      BY <2>1
    <3>2. loaded'.warning = "no file"
      BY <3>1
    <3> QED BY <3>2
  <2> QED BY <1>1, <1>2, <1>3, <2>1, <2>2, <2>3 DEF PhaseOK
<1>6. CASE Read
  <2>1. /\ phase = "read" /\ phase' = "resolving"
        /\ config # "plain" => loaded'.resolution # "undefined" \/ loaded'.warning # "undefined"
    <3>1. phase = "read" /\ config \in Configs
      BY <1>6 DEF Read, PhaseOK
    <3>2. CASE config \in {"missing", "directory", "unreadable"}
      <4>1. phase' = "resolving" /\ loaded' = [resolution |-> "undefined", warning |-> "not read"]
        BY <1>6, <3>1, <3>2 DEF Read, Load
      <4>2. loaded'.warning = "not read"
        BY <4>1
      <4> QED BY <3>1, <4>1, <4>2
    <3>3. CASE config = "malformed"
      <4>1. phase' = "resolving" /\ loaded' = [resolution |-> "undefined", warning |-> "not parsed"]
        BY <1>6, <3>1, <3>3 DEF Read, Load
      <4>2. loaded'.warning = "not parsed"
        BY <4>1
      <4> QED BY <3>1, <4>1, <4>2
    <3>4. CASE config = "plain"
      BY <1>6, <3>1, <3>4 DEF Read, Load
    <3>5. CASE config \in {"paths", "paths and problems"}
      <4>1. PICK warning : phase' = "resolving" /\ loaded' = [resolution |-> "paths", warning |-> warning]
        BY <1>6, <3>1, <3>5 DEF Read, Load
      <4>2. loaded'.resolution = "paths"
        BY <4>1
      <4> QED BY <3>1, <4>1, <4>2
    <3> QED BY <3>1, <3>2, <3>3, <3>4, <3>5 DEF Configs
  <2>2. edits = 0 => config # "missing"
    BY <2>1 DEF PhaseOK, IsFile
  <2> QED BY <1>1, <1>2, <1>3, <2>1, <2>2 DEF PhaseOK
<1> QED BY <1>4, <1>5, <1>6

LEMMA AnswersStayCached ==
  ASSUME AliasInv, NEW file \in Importers, NEW specifier \in Specifiers, ResolveAliasImport(file, specifier)
  PROVE  AliasInv'
<1> DEFINE key == <<file, specifier>>
           fresh == IF IsLocalSource(target[specifier]) THEN <<target[specifier], edits>> ELSE <<"undefined">>
<1> USE DEF AliasInv
<1>1. PICK resolved : /\ resolved = IF key \in DOMAIN cache THEN cache[key] ELSE fresh
                      /\ cache' = [k \in DOMAIN cache \cup {key} |-> IF k = key THEN resolved ELSE cache[k]]
                      /\ answers' = answers \cup {[key |-> key, to |-> resolved]}
  BY DEF ResolveAliasImport, CachedKeys
<1>2. resolved[1] \in {"source", "undefined"}
  BY <1>1 DEF AnswersCached, IsLocalSource
<1>3. AnswersCached'
  <2>1. \A k \in DOMAIN cache : k \in DOMAIN cache' /\ cache'[k] = cache[k]
    BY <1>1
  <2>2. key \in DOMAIN cache' /\ cache'[key] = resolved /\ DOMAIN cache' = DOMAIN cache \cup {key}
    BY <1>1
  <2> HIDE DEF key
  <2> QED BY <1>1, <1>2, <2>1, <2>2 DEF AnswersCached
<1>4. PhaseOK' /\ edits' \in Nat
  BY DEF ResolveAliasImport, PhaseOK, PickCompiler, TryLoad, IsFile
<1> QED BY <1>3, <1>4

LEMMA AliasNextInv == AliasInv /\ [AliasNext]_aliasVars => AliasInv'
<1> SUFFICES ASSUME AliasInv, [AliasNext]_aliasVars PROVE AliasInv'
  OBVIOUS
<1>1. CASE Import
  <2>1. /\ UNCHANGED <<installed, option, config, loaded, cache, answers, edits>> /\ phase = "import"
        /\ phase' = IF PickCompiler = "throws" THEN "failed" ELSE "stat"
    BY <1>1 DEF Import
  <2>2. PickCompiler' = PickCompiler
    BY <2>1 DEF PickCompiler, TryLoad
  <2> QED BY <2>1, <2>2 DEF AliasInv, PhaseOK, AnswersCached
<1>2. CASE Edit
  <2>1. /\ UNCHANGED <<installed, option, phase, loaded, cache, answers>> /\ edits' = edits + 1
        /\ config' \in Configs /\ phase \notin {"import", "failed"}
    BY <1>2 DEF Edit, AliasInv, PhaseOK
  <2>2. PickCompiler' = PickCompiler
    BY <2>1 DEF PickCompiler, TryLoad
  <2>3. edits' \in Nat /\ edits' # 0
    BY <2>1 DEF AliasInv
  <2> QED BY <2>1, <2>2, <2>3 DEF AliasInv, PhaseOK, AnswersCached
<1>3. CASE UNCHANGED aliasVars
  BY <1>3 DEF aliasVars, AliasInv, PhaseOK, AnswersCached, PickCompiler, TryLoad, IsFile
<1> QED BY <1>1, <1>2, <1>3, LoadsRightly, AnswersStayCached DEF AliasNext

\* For any files, imports and number of edits: a damaged compiler or a named
\* tsconfig is never passed over in silence, and an import has one answer.
THEOREM AliasTheorem ==
  AliasInit /\ [][AliasNext]_aliasVars => [](DamageIsNeverHidden /\ NamedConfigIsNotIgnored /\ OneAnswerPerImport)
<1>1. AliasInv => DamageIsNeverHidden /\ NamedConfigIsNotIgnored /\ OneAnswerPerImport
  <2> SUFFICES ASSUME AliasInv PROVE DamageIsNeverHidden /\ NamedConfigIsNotIgnored /\ OneAnswerPerImport
    OBVIOUS
  <2>1. DamageIsNeverHidden
    BY PickedCompiler DEF AliasInv, PhaseOK, DamageIsNeverHidden
  <2>2. NamedConfigIsNotIgnored
    BY DEF AliasInv, PhaseOK, NamedConfigIsNotIgnored, IsFile
  <2>3. OneAnswerPerImport
    BY DEF AliasInv, AnswersCached, OneAnswerPerImport
  <2> QED BY <2>1, <2>2, <2>3
<1> QED BY <1>1, AliasStarts, AliasNextInv, PTL

(***************************************************************************)
(* Published paths and generated files                                     *)
(***************************************************************************)
\* Where normalization is after each segment.
IsWalk(at, segs) ==
  at[0] = <<>> /\ \A n \in 1 .. Len(segs) : at[n] = Walk(at[n - 1], segs[n])

LEMMA NormalLoops ==
  ASSUME NEW S, NEW segs \in Seq(S)
  PROVE  \E at : IsWalk(at, segs) /\ Normal(segs) = at[Len(segs)]
<1> DEFINE Stop(at, n) == IF n = 0 THEN <<>> ELSE Walk(at[n - 1], segs[n])
           Ran == {m \in Nat : \E at : at = [n \in 0 .. m |-> Stop(at, n)]}
           loop == CHOOSE at : at = [n \in 0 .. Len(segs) |-> Stop(at, n)]
<1>1. 0 \in Ran
  <2> DEFINE at == [n \in 0 .. 0 |-> <<>>]
  <2>1. at = [n \in 0 .. 0 |-> Stop(at, n)]
    OBVIOUS
  <2> QED BY <2>1
<1>2. ASSUME NEW m \in Nat, m \in Ran
      PROVE  m + 1 \in Ran
  <2>1. PICK at : at = [n \in 0 .. m |-> Stop(at, n)]
    BY <1>2
  <2> DEFINE next == [n \in 0 .. m + 1 |-> IF n = m + 1 THEN Walk(at[m], segs[m + 1]) ELSE at[n]]
  <2>2. \A n \in 0 .. m : next[n] = at[n]
    OBVIOUS
  <2>3. \A n \in 0 .. m + 1 : next[n] = Stop(next, n)
    <3> TAKE n \in 0 .. m + 1
    <3>1. CASE n = m + 1
      BY <3>1, <2>2
    <3>2. CASE n = 0
      BY <3>2, <2>1, <2>2
    <3>3. CASE n \in 1 .. m
      <4>1. next[n] = at[n] /\ next[n - 1] = at[n - 1]
        BY <3>3, <2>2
      <4>2. at[n] = Stop(at, n)
        <5> HIDE DEF Stop
        <5> QED BY <3>3, <2>1
      <4> QED BY <4>1, <4>2, <3>3
    <3> QED BY <3>1, <3>2, <3>3
  <2>4. next = [n \in 0 .. m + 1 |-> Stop(next, n)]
    <3> HIDE DEF Stop
    <3>1. next = [n \in 0 .. m + 1 |-> next[n]]
      OBVIOUS
    <3> HIDE DEF next
    <3> QED BY <3>1, <2>3
  <2> HIDE DEF next, Stop
  <2> QED BY <2>4
<1>3. Len(segs) \in Ran
  <2> HIDE DEF Ran
  <2> QED BY <1>1, <1>2, SetInduction
<1>4. loop = [n \in 0 .. Len(segs) |-> Stop(loop, n)]
  <2> HIDE DEF Stop
  <2> QED BY <1>3
<1>5. Normal(segs) = loop[Len(segs)]
  BY DEF Normal
<1>6. IsWalk(loop, segs)
  <2>1. Len(segs) \in Nat /\ 0 \in 0 .. Len(segs)
    OBVIOUS
  <2> HIDE DEF loop
  <2>2. loop[0] = <<>>
    BY <1>4, <2>1
  <2>3. \A n \in 1 .. Len(segs) : loop[n] = Walk(loop[n - 1], segs[n])
    BY <1>4, <2>1
  <2> QED BY <2>2, <2>3 DEF IsWalk
<1> QED BY <1>5, <1>6

\* A normal path climbs nowhere.
LEMMA NormalIsClean ==
  ASSUME NEW S, NEW segs \in Seq(S)
  PROVE  Normal(segs) \in Seq(S \ {".."})
<1>1. PICK at : IsWalk(at, segs) /\ Normal(segs) = at[Len(segs)]
  BY NormalLoops
<1> DEFINE Tidy == {n \in Nat : n <= Len(segs) => at[n] \in Seq(S \ {".."})}
<1>2. 0 \in Tidy
  <2>1. <<>> \in Seq(S \ {".."})
    OBVIOUS
  <2>2. at[0] = <<>>
    BY <1>1 DEF IsWalk
  <2>3. at[0] \in Seq(S \ {".."})
    BY <2>1, <2>2
  <2> QED BY <2>3
<1>3. ASSUME NEW n \in Nat, n \in Tidy
      PROVE  n + 1 \in Tidy
  <2> SUFFICES ASSUME n + 1 <= Len(segs) PROVE at[n + 1] \in Seq(S \ {".."})
    OBVIOUS
  <2>1. PICK was, seg : was = at[n] /\ seg = segs[n + 1]
    OBVIOUS
  <2>2. was \in Seq(S \ {".."}) /\ seg \in S
    BY <1>3, <2>1
  <2>3. at[n + 1] = Walk(was, seg)
    BY <1>1, <2>1 DEF IsWalk
  <2>4. CASE seg # ".."
    <3>1. Append(was, seg) \in Seq(S \ {".."})
      BY <2>2, <2>4
    <3> QED BY <2>3, <2>4, <3>1 DEF Walk
  <2>5. CASE seg = ".." /\ was # <<>>
    <3>1. Len(was) - 1 \in Nat /\ Len(was) - 1 <= Len(was)
      BY <2>2, <2>5
    <3>2. SubSeq(was, 1, Len(was) - 1) \in Seq(S \ {".."})
      BY <2>2, <3>1
    <3> QED BY <2>3, <2>5, <3>2 DEF Walk, Front
  <2> QED BY <2>2, <2>3, <2>4, <2>5 DEF Walk
<1>4. Len(segs) \in Tidy
  <2>1. Len(segs) \in Nat
    OBVIOUS
  <2> HIDE DEF Tidy
  <2> QED BY <1>2, <1>3, <2>1, SetInduction
<1> QED BY <1>1, <1>4

\* A path that climbs nowhere is normal.
LEMMA CleanIsNormal ==
  ASSUME NEW S, NEW segs \in Seq(S \ {".."})
  PROVE  Normal(segs) = segs
<1>1. PICK at : IsWalk(at, segs) /\ Normal(segs) = at[Len(segs)]
  BY NormalLoops
<1> DEFINE Kept == {n \in Nat : n <= Len(segs) => at[n] = SubSeq(segs, 1, n)}
<1>2. 0 \in Kept
  <2>1. SubSeq(segs, 1, 0) = <<>>
    OBVIOUS
  <2> QED BY <1>1, <2>1 DEF IsWalk
<1>3. ASSUME NEW n \in Nat, n \in Kept
      PROVE  n + 1 \in Kept
  <2> SUFFICES ASSUME n + 1 <= Len(segs) PROVE at[n + 1] = SubSeq(segs, 1, n + 1)
    OBVIOUS
  <2>1. at[n] = SubSeq(segs, 1, n)
    BY <1>3
  <2>2. segs[n + 1] \in S \ {".."}
    OBVIOUS
  <2>3. at[n + 1] = Walk(at[n], segs[n + 1])
    BY <1>1 DEF IsWalk
  <2>4. at[n + 1] = Append(SubSeq(segs, 1, n), segs[n + 1])
    BY <2>1, <2>2, <2>3 DEF Walk
  <2>5. Append(SubSeq(segs, 1, n), segs[n + 1]) = SubSeq(segs, 1, n + 1)
    OBVIOUS
  <2> QED BY <2>4, <2>5
<1>4. Len(segs) \in Kept
  <2>1. Len(segs) \in Nat
    OBVIOUS
  <2> HIDE DEF Kept
  <2> QED BY <1>2, <1>3, <2>1, SetInduction
<1>5. SubSeq(segs, 1, Len(segs)) = segs
  OBVIOUS
<1> QED BY <1>1, <1>4, <1>5

\* What two paths share is all of the first exactly if it leads to the second.
LEMMA SharedPart ==
  ASSUME NEW S, NEW from \in Seq(S), NEW to \in Seq(S),
         NEW shared, shared = Len(LongestCommonPrefix({from, to}))
  PROVE  /\ shared \in 0 .. Len(from) /\ shared <= Len(to)
         /\ shared = Len(from) <=> IsPrefix(from, to)
<1> DEFINE Agree == {n \in 1 .. Len(from) + 1 : n - 1 <= Len(to) /\ SubSeq(from, 1, n - 1) = SubSeq(to, 1, n - 1)}
           Common == CommonPrefixes({from, to})
<1>1. Len(from) \in Nat /\ Len(to) \in Nat /\ Len(from) + 1 \in Nat
  OBVIOUS
<1>2. ASSUME NEW p \in Common
      PROVE  /\ Len(p) \in 0 .. Len(from) /\ Len(p) <= Len(to) /\ p = SubSeq(from, 1, Len(p))
             /\ Len(p) + 1 \in Agree
  <2>1. IsPrefix(p, from) /\ IsPrefix(p, to)
    BY DEF CommonPrefixes
  <2>2. \E s \in {from, to} : p \in Prefixes(s)
    BY DEF CommonPrefixes
  <2>3. PICK s \in {from, to} : \E l \in 0 .. Len(s) : p = SubSeq(s, 1, l)
    BY <2>2 DEF Prefixes
  <2>4. p \in Seq(S) /\ Len(p) \in Nat
    BY <2>3
  <2>5. SubSeq(p, 1, Len(p)) = p
    BY <2>4
  <2>6. Len(p) <= Len(from) /\ Len(p) <= Len(to) /\ p = SubSeq(from, 1, Len(p)) /\ p = SubSeq(to, 1, Len(p))
    BY <2>1, <2>5 DEF IsPrefix
  <2>7. Len(p) \in Nat /\ Len(p) + 1 \in 1 .. Len(from) + 1 /\ (Len(p) + 1) - 1 = Len(p)
    BY <2>4, <2>6, <1>1
  <2> QED BY <2>6, <2>7
<1>3. ASSUME NEW n \in Agree
      PROVE  SubSeq(from, 1, n - 1) \in Common /\ Len(SubSeq(from, 1, n - 1)) = n - 1
  <2>1. PICK k, p : k = n - 1 /\ p = SubSeq(from, 1, k)
    OBVIOUS
  <2>2. k \in 0 .. Len(from) /\ k <= Len(to) /\ k \in Nat /\ p = SubSeq(to, 1, k)
    BY <2>1, <1>1
  <2>3. p \in Seq(S) /\ Len(p) = k
    BY <2>1, <2>2
  <2>4. SubSeq(p, 1, k) = p
    BY <2>3
  <2>5. IsPrefix(p, from) /\ IsPrefix(p, to)
    BY <2>1, <2>2, <2>3, <2>4 DEF IsPrefix
  <2>6. p \in Prefixes(from)
    BY <2>1, <2>2 DEF Prefixes
  <2>7. p \in Common
    BY <2>5, <2>6 DEF CommonPrefixes
  <2> QED BY <2>1, <2>3, <2>7
<1>4. PICK top \in Agree : \A n \in Agree : n <= top
  <2>1. 1 \in Agree
    <3>1. SubSeq(from, 1, 0) = <<>> /\ SubSeq(to, 1, 0) = <<>>
      OBVIOUS
    <3> QED BY <1>1, <3>1
  <2>2. Agree \subseteq 1 .. Len(from) + 1 /\ Agree # {}
    BY <2>1
  <2> HIDE DEF Agree
  <2> QED BY <1>1, <2>2, GreatestOf
<1>5. PICK longest : longest = LongestCommonPrefix({from, to})
  OBVIOUS
<1>6. longest \in Common /\ \A other \in Common : Len(other) <= Len(longest)
  <2>1. PICK p : p = SubSeq(from, 1, top - 1)
    OBVIOUS
  <2>2. p \in Common /\ Len(p) = top - 1
    BY <1>3, <2>1
  <2>3. \A other \in Common : Len(other) <= Len(p)
    <3> TAKE other \in Common
    <3>1. Len(other) + 1 \in Agree /\ Len(other) \in Int
      <4> HIDE DEF Agree, Common
      <4> QED BY <1>2
    <3>2. Len(other) + 1 <= top
      <4> HIDE DEF Agree
      <4> QED BY <1>4, <3>1
    <3>3. top \in Int
      BY <1>1, <1>4
    <3> QED BY <2>2, <3>1, <3>2, <3>3
  <2>4. longest = CHOOSE l \in Common : \A other \in Common : Len(other) <= Len(l)
    BY <1>5 DEF LongestCommonPrefix
  <2> HIDE DEF Common
  <2> QED BY <2>2, <2>3, <2>4
<1>7. shared = Len(longest)
  BY <1>5
<1>8. shared \in 0 .. Len(from) /\ shared <= Len(to)
  BY <1>2, <1>6, <1>7
<1>9. ASSUME shared = Len(from) PROVE IsPrefix(from, to)
  <2>1. IsPrefix(longest, to) /\ longest = SubSeq(from, 1, shared)
    BY <1>2, <1>6, <1>7 DEF CommonPrefixes
  <2>2. longest = from
    BY <1>9, <2>1
  <2> QED BY <2>1, <2>2
<1>10. ASSUME IsPrefix(from, to) PROVE shared = Len(from)
  <2>1. Len(from) + 1 \in Agree
    BY <1>1, <1>10 DEF IsPrefix
  <2>2. PICK p : p = SubSeq(from, 1, (Len(from) + 1) - 1)
    OBVIOUS
  <2>3. p \in Common /\ Len(p) = (Len(from) + 1) - 1
    <3> HIDE DEF Agree, Common
    <3> QED BY <1>3, <2>1, <2>2
  <2>4. (Len(from) + 1) - 1 <= shared
    BY <1>6, <1>7, <2>3
  <2> QED BY <1>1, <1>8, <2>4
<1> QED BY <1>8, <1>9, <1>10

PathNames == Segs \cup {".."}

\* How the way from one normal path to another begins.
LEMMA WayBetween ==
  ASSUME NEW from, NEW to, from.segs \in Seq(PathNames \ {".."}), to.segs \in Seq(PathNames \ {".."}),
         NEW way, way = RelativeTo(from, to)
  PROVE  /\ from.drive # to.drive => way = to
         /\ from.drive = to.drive /\ IsPrefix(from.segs, to.segs) =>
              /\ way = Path(Relative, SubSeq(to.segs, Len(from.segs) + 1, Len(to.segs)), "native")
              /\ ~ClimbsOut(way)
         /\ from.drive = to.drive /\ ~IsPrefix(from.segs, to.segs) => ClimbsOut(way)
<1>1. PICK f, t : f = from.segs /\ t = to.segs
  OBVIOUS
<1>2. f \in Seq(PathNames \ {".."}) /\ t \in Seq(PathNames \ {".."})
  BY <1>1
<1>3. PICK shared : shared = Len(LongestCommonPrefix({f, t}))
  OBVIOUS
<1>4. shared \in 0 .. Len(f) /\ shared <= Len(t) /\ (shared = Len(f) <=> IsPrefix(f, t))
  BY <1>2, <1>3, SharedPart
<1>5. PICK up, down : up = [i \in 1 .. Len(f) - shared |-> ".."] /\ down = SubSeq(t, shared + 1, Len(t))
  OBVIOUS
<1>6. from.drive = to.drive => way = Path(Relative, up \o down, "native")
  BY <1>1, <1>3, <1>5 DEF RelativeTo
<1>7. Len(f) \in Nat /\ Len(t) \in Nat /\ shared \in Nat
  BY <1>2, <1>4
<1>8. down \in Seq(PathNames \ {".."})
  BY <1>2, <1>4, <1>5, <1>7
<1>9. CASE from.drive = to.drive /\ IsPrefix(f, t)
  <2>1. up = <<>>
    BY <1>4, <1>5, <1>7, <1>9
  <2>2. up \o down = down
    BY <1>8, <2>1
  <2>3. way = Path(Relative, down, "native") /\ way.segs = down
    BY <1>6, <1>9, <2>2 DEF Path
  <2>4. ~ClimbsOut(way)
    <3>1. down # <<>> => down[1] \in PathNames \ {".."}
      BY <1>8
    <3> QED BY <2>3, <3>1 DEF ClimbsOut
  <2>5. down = SubSeq(t, Len(f) + 1, Len(t))
    BY <1>4, <1>5, <1>9
  <2> QED BY <1>1, <1>9, <2>3, <2>4, <2>5
<1>10. CASE from.drive = to.drive /\ ~IsPrefix(f, t)
  <2>1. Len(f) - shared \in Nat /\ Len(f) - shared >= 1
    BY <1>4, <1>7, <1>10
  <2>2. up \in Seq({".."}) /\ Len(up) >= 1 /\ up[1] = ".."
    BY <1>5, <2>1
  <2>3. up \in Seq(PathNames \cup {".."}) /\ down \in Seq(PathNames \cup {".."})
    BY <1>8, <2>2
  <2>4. up \o down # <<>> /\ (up \o down)[1] = ".."
    BY <2>2, <2>3
  <2>5. way.segs = up \o down
    BY <1>6, <1>10 DEF Path
  <2>6. ClimbsOut(way)
    BY <2>4, <2>5 DEF ClimbsOut
  <2> QED BY <1>1, <1>10, <2>6
<1>11. CASE from.drive # to.drive
  BY <1>11 DEF RelativeTo
<1> QED BY <1>1, <1>9, <1>10, <1>11

\* A path as the program meets it.
IsPath(p) == p.segs \in Seq(PathNames) /\ p.drive \in Drives \cup {Relative} /\ p.sep = "native" /\ p = Path(p.drive, p.segs, p.sep)

PublicationInv ==
  \/ published.of = "nothing"
  \/ /\ published.of = "path" /\ published.cwd.drive \in Drives
     /\ IsPath(published.cwd) /\ IsPath(published.root) /\ IsPath(published.file)
  \/ published.of = "content" /\ \E n \in Nat : published.lines \in [1 .. n -> Lines]

LEMMA AllPaths ==
  ASSUME NEW drives, drives \subseteq Drives \cup {Relative}, NEW depth \in Nat, NEW p \in PathsOn(drives, depth)
  PROVE  IsPath(p) /\ p.drive \in drives
<1>1. PICK d \in drives, s \in UNION {[1 .. n -> Segs \cup {".."}] : n \in 0 .. depth} : p = Path(d, s, "native")
  BY DEF PathsOn
<1>2. PICK n \in 0 .. depth : s \in [1 .. n -> Segs \cup {".."}]
  BY <1>1
<1>3. s \in Seq(PathNames)
  BY <1>2 DEF PathNames
<1> QED BY <1>1, <1>3 DEF IsPath, Path

LEMMA PublicationStarts == PublicationInit => PublicationInv
  BY DEF PublicationInit, PublicationInv, NoPublication

LEMMA PublicationNextInv == PublicationInv /\ [PublicationNext]_published => PublicationInv'
<1> SUFFICES ASSUME PublicationInv, [PublicationNext]_published PROVE PublicationInv'
  OBVIOUS
<1>1. CASE AskPath
  <2>1. PICK cwd \in PathsOn(Drives, 1), root \in PathsOn(Drives \cup {Relative}, 2), file \in PathsOn(Drives \cup {Relative}, MaxDepth) :
          published' = [of |-> "path", cwd |-> cwd, root |-> root, file |-> file]
    BY <1>1 DEF AskPath
  <2>2. IsPath(cwd) /\ cwd.drive \in Drives /\ IsPath(root) /\ IsPath(file)
    BY <2>1, AllPaths, BoundsAssumption
  <2> QED BY <2>1, <2>2 DEF PublicationInv
<1>2. CASE AskGenerated
  <2>1. PICK n \in 0 .. MaxPreamble : \E content \in [1 .. n -> Lines] : published' = [of |-> "content", lines |-> content]
    BY <1>2 DEF AskGenerated
  <2>2. n \in Nat
    BY <2>1, BoundsAssumption
  <2> QED BY <2>1, <2>2 DEF PublicationInv
<1>3. CASE UNCHANGED published
  BY <1>3 DEF PublicationInv
<1> QED BY <1>1, <1>2, <1>3 DEF PublicationNext

LEMMA ResolvedPath ==
  ASSUME NEW base, NEW p, IsPath(base), IsPath(p), base.drive \in Drives
  PROVE  \E s \in Seq(PathNames \ {".."}) :
           /\ Resolve(base, p) = Path(IF IsAbsolute(p) THEN p.drive ELSE base.drive, s, "native")
           /\ IsAbsolute(p) => s = Normal(p.segs)
<1>1. CASE IsAbsolute(p)
  <2>1. Normal(p.segs) \in Seq(PathNames \ {".."})
    BY NormalIsClean DEF IsPath
  <2> QED BY <1>1, <2>1 DEF Resolve
<1>2. CASE ~IsAbsolute(p)
  <2>1. base.segs \o p.segs \in Seq(PathNames)
    BY DEF IsPath
  <2>2. Normal(base.segs \o p.segs) \in Seq(PathNames \ {".."})
    BY <2>1, NormalIsClean
  <2> QED BY <1>2, <2>2 DEF Resolve
<1> QED BY <1>1, <1>2

LEMMA PathsPublished == PublicationInv => PublishedPathsAreFaithful
<1> SUFFICES ASSUME PublicationInv, published.of = "path" PROVE PublishedPathsAreFaithful
  BY DEF PublishedPathsAreFaithful
<1>1. PICK cwd, root, file : cwd = published.cwd /\ root = published.root /\ file = published.file
  OBVIOUS
<1>2. IsPath(cwd) /\ IsPath(root) /\ IsPath(file) /\ cwd.drive \in Drives
  BY <1>1 DEF PublicationInv
<1>3. PICK home, at : home = Resolve(cwd, root) /\ at = Resolve(cwd, file)
  OBVIOUS
<1>4. PICK h \in Seq(PathNames \ {".."}) : home = Path(IF IsAbsolute(root) THEN root.drive ELSE cwd.drive, h, "native")
  BY <1>2, <1>3, ResolvedPath
<1>5. PICK s \in Seq(PathNames \ {".."}) :
        /\ at = Path(IF IsAbsolute(file) THEN file.drive ELSE cwd.drive, s, "native")
        /\ IsAbsolute(file) => s = Normal(file.segs)
  BY <1>2, <1>3, ResolvedPath
<1>6. home.drive \in Drives /\ home.segs = h /\ at.segs = s /\ at.drive \in Drives
  BY <1>2, <1>4, <1>5 DEF Path, IsPath, IsAbsolute
<1>7. PICK shown : shown = DisplayPath(cwd, root, file)
  OBVIOUS
<1> DEFINE Inside == home.drive = file.drive /\ IsPrefix(h, s)
           rest == SubSeq(s, Len(h) + 1, Len(s))
<1>8. ~IsAbsolute(file) => DisplayPath(cwd, root, shown) = shown
  BY <1>7 DEF DisplayPath, Slashes, IsAbsolute
<1>9. ASSUME IsAbsolute(file)
      PROVE  /\ AbsolutePathFrom(cwd, root, shown) = at
             /\ DisplayPath(cwd, root, shown) = shown
             /\ IF Inside THEN shown = Slashes(Path(Relative, rest, "native")) ELSE shown = file
  <2>1. PICK way : way = RelativeTo(home, at)
    OBVIOUS
  <2>2. /\ home.drive # at.drive => way = at
        /\ home.drive = at.drive /\ IsPrefix(h, s) => way = Path(Relative, rest, "native") /\ ~ClimbsOut(way)
        /\ home.drive = at.drive /\ ~IsPrefix(h, s) => ClimbsOut(way)
    <3>1. home.segs \in Seq(PathNames \ {".."}) /\ at.segs \in Seq(PathNames \ {".."})
      BY <1>6
    <3>2. /\ home.drive # at.drive => way = at
          /\ home.drive = at.drive /\ IsPrefix(home.segs, at.segs) =>
               /\ way = Path(Relative, SubSeq(at.segs, Len(home.segs) + 1, Len(at.segs)), "native")
               /\ ~ClimbsOut(way)
          /\ home.drive = at.drive /\ ~IsPrefix(home.segs, at.segs) => ClimbsOut(way)
      BY <2>1, <3>1, WayBetween
    <3> QED BY <1>6, <3>2
  <2>3. at.drive = file.drive /\ at = Path(file.drive, s, "native") /\ s = Normal(file.segs)
    BY <1>5, <1>9 DEF Path
  <2>4. shown = IF ClimbsOut(way) \/ IsAbsolute(way) THEN file ELSE Slashes(way)
    BY <1>3, <1>7, <1>9, <2>1 DEF DisplayPath
  <2>5. CASE Inside
    <3>1. way = Path(Relative, rest, "native") /\ ~ClimbsOut(way) /\ ~IsAbsolute(way)
      BY <2>2, <2>3, <2>5, DrivesAssumption DEF IsAbsolute, Path
    <3>2. shown = Path(Relative, rest, "/")
      BY <2>4, <3>1 DEF Slashes, Path
    <3>3. ~IsAbsolute(shown) /\ shown.segs = rest
      BY <3>2 DEF IsAbsolute, Path
    <3>4. DisplayPath(cwd, root, shown) = shown
      BY <3>2, <3>3 DEF DisplayPath, Slashes, Path
    <3>5. h \o rest = s
      <4>1. Len(h) \in Nat /\ Len(s) \in Nat /\ Len(h) <= Len(s) /\ h = SubSeq(s, 1, Len(h))
        <5>1. SubSeq(h, 1, Len(h)) = h
          OBVIOUS
        <5> QED BY <2>5, <5>1 DEF IsPrefix
      <4>2. SubSeq(s, 1, Len(h)) \o SubSeq(s, Len(h) + 1, Len(s)) = s
        <5>1. SubSeq(s, 1, Len(s)) = s
          OBVIOUS
        <5>2. SubSeq(s, 1, Len(h)) \o SubSeq(s, Len(h) + 1, Len(s)) = SubSeq(s, 1, Len(s))
          <6>1. 1 \in 1 .. Len(s) + 1 /\ Len(h) \in 1 - 1 .. Len(s) /\ Len(s) \in Len(h) .. Len(s)
            BY <4>1
          <6>2. s \in Seq(PathNames \ {".."})
            BY <1>5
          <6> QED BY <6>1, <6>2, ConcatAdjacentSubSeq
        <5> QED BY <5>1, <5>2
      <4> QED BY <4>1, <4>2
    <3>6. Resolve(home, shown) = Path(home.drive, Normal(s), "native")
      BY <1>6, <3>3, <3>5 DEF Resolve
    <3>7. Normal(s) = s
      BY CleanIsNormal
    <3>8. AbsolutePathFrom(cwd, root, shown) = at
      BY <1>3, <2>3, <2>5, <3>6, <3>7 DEF AbsolutePathFrom
    <3>9. shown = Slashes(Path(Relative, rest, "native"))
      <4> HIDE DEF rest
      <4> QED BY <3>2 DEF Slashes, Path
    <3> HIDE DEF Inside, rest
    <3> QED BY <2>5, <3>4, <3>8, <3>9
  <2>6. CASE ~Inside
    <3>1. ClimbsOut(way) \/ IsAbsolute(way)
      BY <1>6, <2>2, <2>3, <2>6, DrivesAssumption DEF IsAbsolute, Relative
    <3>2. shown = file
      BY <2>4, <3>1
    <3>3. DisplayPath(cwd, root, shown) = shown
      BY <1>7, <3>2
    <3>4. AbsolutePathFrom(cwd, root, shown) = at
      BY <1>3, <1>9, <2>3, <3>2 DEF AbsolutePathFrom, Resolve
    <3> QED BY <2>6, <3>2, <3>3, <3>4
  <2> QED BY <2>5, <2>6
<1>10. IsAbsolute(file) => s = Normal(file.segs)
  BY <1>5
<1> QED BY <1>1, <1>3, <1>6, <1>7, <1>8, <1>9, <1>10 DEF PublishedPathsAreFaithful

LEMMA GeneratedFilesKnown == PublicationInv => GeneratedFilesAreKnown
<1> SUFFICES ASSUME PublicationInv, published.of = "content" PROVE GeneratedFilesAreKnown
  BY DEF GeneratedFilesAreKnown
<1>1. PICK lines : lines = published.lines /\ \E n \in Nat : lines \in [1 .. n -> Lines]
  BY DEF PublicationInv
<1>2. PICK n \in Nat : lines \in [1 .. n -> Lines]
  BY <1>1
<1>5. lines \in Seq(Lines) /\ Len(lines) = n
  BY <1>2
<1>3. ASSUME NEW format \in {"ts", "markdown"}, Cardinality(Written(lines)) < MarkerLines
      PROVE  IsGeneratedFile(Append(lines, GeneratedBanner(format)))
  <2>1. PICK banner : banner = GeneratedBanner(format)
    OBVIOUS
  <2>2. OpensWithMarker(banner) /\ banner # "empty" /\ banner \in Lines
    <3>1. CASE format = "ts"
      <4>1. banner = "// marker"
        BY <2>1, <3>1 DEF GeneratedBanner
      <4> QED BY <4>1 DEF OpensWithMarker, Lines
    <3>2. CASE format = "markdown"
      <4>1. banner = "<!-- marker"
        BY <2>1, <3>2 DEF GeneratedBanner
      <4> QED BY <4>1 DEF OpensWithMarker, Lines
    <3> QED BY <3>1, <3>2
  <2>3. PICK below : below = Append(lines, banner)
    OBVIOUS
  <2>4. DOMAIN below = 1 .. n + 1 /\ below[n + 1] = banner /\ \A i \in 1 .. n : below[i] = lines[i]
    BY <1>5, <1>2, <2>2, <2>3
  <2>5. DOMAIN lines = 1 .. n
    BY <1>2
  <2>6. {j \in Written(below) : j < n + 1} = Written(lines)
    BY <2>4, <2>5 DEF Written
  <2>7. n + 1 \in Written(below)
    BY <2>2, <2>4 DEF Written
  <2>8. n + 1 \in Seen(below)
    BY <1>3, <2>6, <2>7 DEF Seen
  <2> QED BY <2>1, <2>2, <2>3, <2>4, <2>8 DEF IsGeneratedFile
<1>4. IsGeneratedFile(lines) => \E i \in DOMAIN lines : lines[i] \in {"// marker", "<!-- marker"}
  BY DEF IsGeneratedFile, Seen, Written, OpensWithMarker
<1> QED BY <1>1, <1>3, <1>4 DEF GeneratedFilesAreKnown

\* For any files, imports, edits, directories and lines: what a file or an import
\* is called is the same for every tool that asks.
THEOREM NamesTheorem ==
  /\ AliasInit /\ [][AliasNext]_aliasVars
  /\ PublicationInit /\ [][PublicationNext]_published
  => []NamesAreFaithful
<1>1. PublicationInv => PublishedPathsAreFaithful /\ GeneratedFilesAreKnown
  BY PathsPublished, GeneratedFilesKnown
<1>2. PublicationInit /\ [][PublicationNext]_published => [](PublishedPathsAreFaithful /\ GeneratedFilesAreKnown)
  BY <1>1, PublicationStarts, PublicationNextInv, PTL
<1> QED BY <1>2, AliasTheorem, PTL DEF NamesAreFaithful

(***************************************************************************)
(* Lint rules                                                              *)
(***************************************************************************)
Nodes == AroundUse \cup Around \cup Declared

\* What can stand around a declarator and around a statement.
Links(inner, outer) ==
  /\ inner.type \in Declarators => outer.type = "VariableDeclaration"
  /\ inner.type \in Statements =>
       \/ outer.type \in {"FunctionDeclaration", "FunctionExpression"}
       \/ outer.type = "Program" /\ inner.type # "ReturnStatement"

EscapeInv ==
  /\ above \in Seq(Nodes) /\ exports \subseteq Names /\ read \in {"fields", "getSnapshot"}
  /\ above # <<>> => above[1] \in AroundUse \cup Around
  /\ \A i \in 1 .. Len(above) - 1 : Links(above[i], above[i + 1])

LEMMA EscapeNextInv == EscapeInv /\ [Enclose]_escapeVars => EscapeInv'
<1> SUFFICES ASSUME EscapeInv, [Enclose]_escapeVars PROVE EscapeInv'
  OBVIOUS
<1>1. CASE UNCHANGED escapeVars
  BY <1>1 DEF escapeVars, EscapeInv
<1>2. CASE Enclose
  <2>1. PICK node \in Nodes : Fits(node) /\ above' = Append(above, node) /\ UNCHANGED <<read, exports>>
    BY <1>2 DEF Enclose, Nodes
  <2> HIDE DEF Nodes
  <2>2. /\ above \in Seq(Nodes) /\ above' \in Seq(Nodes) /\ Len(above') = Len(above) + 1 /\ Len(above) \in Nat
        /\ above'[Len(above) + 1] = node
        /\ \A i \in 1 .. Len(above) : above'[i] = above[i]
    BY <2>1 DEF EscapeInv
  <2>3. above'[1] \in AroundUse \cup Around
    <3>1. CASE above = <<>>
      BY <2>1, <2>2, <3>1 DEF Fits
    <3>2. CASE above # <<>>
      BY <2>2, <3>2 DEF EscapeInv
    <3> QED BY <3>1, <3>2
  <2>4. ASSUME NEW i \in 1 .. Len(above') - 1 PROVE Links(above'[i], above'[i + 1])
    <3>1. CASE i < Len(above)
      BY <2>2, <3>1 DEF EscapeInv
    <3>2. CASE i = Len(above)
      <4>1. above # <<>> /\ above'[i] = Outermost /\ above'[i + 1] = node
        BY <2>2, <3>2 DEF Outermost
      <4>2. Links(Outermost, node)
        BY <2>1, <4>1 DEF Fits, Links, Declarators, Statements
      <4> QED BY <4>1, <4>2
    <3> QED BY <2>2, <3>1, <3>2
  <2> QED BY <2>1, <2>2, <2>3, <2>4 DEF EscapeInv
<1> QED BY <1>1, <1>2

LEMMA NodeParts == \A type, is, x : x = Node(type, is) => x.type = type /\ x.is = is
BY DEF Node

LEMMA NodeAgain == \A type, is, x : x = Node(type, is) => x = Node(x.type, x.is)
BY NodeParts

\* The nodes there are, by their types.
LEMMA Positions ==
  ASSUME NEW x \in AroundUse \cup Around
  PROVE  /\ x = Node(x.type, x.is)
         /\ \/ x.type = "SpreadElement" /\ x.is \in {"object", "array"}
            \/ x.type \in {"CallExpression", "NewExpression"} /\ x.is \in {"argument", "callee"}
            \/ x.type \in {"JSXSpreadAttribute", "JSXAttribute", "JSXElement", "Wrapper", "ReturnStatement",
                           "ArrowFunctionExpression"} /\ x.is = ""
            \/ x.type = "MemberExpression" /\ x.is \in {"name", "literal", "computed", "index"}
            \/ x.type = "VariableDeclarator" /\ x.is \in Names \cup {"pattern", "rest"}
<1>1. ASSUME NEW of \in {"object", "array"}, x = Node("SpreadElement", of)
      PROVE  x.type = "SpreadElement" /\ x.is \in {"object", "array"}
  BY <1>1, NodeParts
<1>2. ASSUME NEW type \in {"CallExpression", "NewExpression"}, NEW is \in {"argument", "callee"}, x = Node(type, is)
      PROVE  x.type \in {"CallExpression", "NewExpression"} /\ x.is \in {"argument", "callee"}
  BY <1>2, NodeParts
<1>3. ASSUME NEW type \in {"JSXSpreadAttribute", "JSXAttribute", "JSXElement", "Wrapper", "ReturnStatement",
                           "ArrowFunctionExpression"}, x = Node(type, "")
      PROVE  x.type \in {"JSXSpreadAttribute", "JSXAttribute", "JSXElement", "Wrapper", "ReturnStatement",
                         "ArrowFunctionExpression"} /\ x.is = ""
  BY <1>3, NodeParts
<1>4. ASSUME NEW how \in {"name", "literal", "computed", "index"}, x = Node("MemberExpression", how)
      PROVE  x.type = "MemberExpression" /\ x.is \in {"name", "literal", "computed", "index"}
  BY <1>4, NodeParts
<1>5. ASSUME NEW id \in Names \cup {"pattern", "rest"}, x = Node("VariableDeclarator", id)
      PROVE  x.type = "VariableDeclarator" /\ x.is \in Names \cup {"pattern", "rest"}
  BY <1>5, NodeParts
<1>6. \/ \E of \in {"object", "array"} : x = Node("SpreadElement", of)
      \/ \E type \in {"CallExpression", "NewExpression"}, is \in {"argument", "callee"} : x = Node(type, is)
      \/ \E type \in {"JSXSpreadAttribute", "JSXAttribute", "JSXElement", "Wrapper", "ReturnStatement",
                       "ArrowFunctionExpression"} : x = Node(type, "")
      \/ \E how \in {"name", "literal", "computed", "index"} : x = Node("MemberExpression", how)
      \/ \E id \in Names \cup {"pattern", "rest"} : x = Node("VariableDeclarator", id)
  BY DEF AroundUse, Around, Calls
<1>7. x = Node(x.type, x.is)
  <2>1. \E type, is : x = Node(type, is)
    BY <1>6
  <2> QED BY <2>1, NodeAgain
<1> QED BY <1>1, <1>2, <1>3, <1>4, <1>5, <1>6, <1>7

LEMMA NotExported == \A x \in AroundUse \cup Around : ~x.exported
<1>1. \A type, is : ~Node(type, is).exported
  BY DEF Node
<1> QED BY <1>1, Positions

\* The rule's tests of a position, by its type.
LEMMA PositionTests ==
  ASSUME NEW x \in AroundUse \cup Around, x = above[1]
  PROVE  /\ IsSpread <=> x.type = "JSXSpreadAttribute" \/ (x.type = "SpreadElement" /\ x.is = "object")
         /\ IsDestructuredWithRest <=> x.type = "VariableDeclarator" /\ x.is = "rest"
         /\ IsCallArgument <=> x.type \in {"CallExpression", "NewExpression"} /\ x.is = "argument"
         /\ IsNamedJsxAttributeValue <=> x.type = "JSXAttribute"
         /\ x \in Calls("callee") <=> x.type \in {"CallExpression", "NewExpression"} /\ x.is = "callee"
<1>1. \A type, is : x = Node(type, is) <=> x.type = type /\ x.is = is
  <2> SUFFICES ASSUME NEW type, NEW is PROVE x = Node(type, is) <=> x.type = type /\ x.is = is
    OBVIOUS
  <2>1. x = Node(type, is) => x.type = type /\ x.is = is
    BY NodeParts
  <2>2. x = Node(x.type, x.is)
    BY Positions
  <2> QED BY <2>1, <2>2
<1>2. x.type = "JSXSpreadAttribute" => x.is = ""
  BY Positions
<1>3. \A is : x \in Calls(is) <=> \E type \in {"CallExpression", "NewExpression"} : x = Node(type, is)
  BY DEF Calls
<1>4. \A is : x \in Calls(is) <=> x.type \in {"CallExpression", "NewExpression"} /\ x.is = is
  BY <1>1, <1>3
<1> QED BY <1>1, <1>2, <1>4 DEF IsSpread, IsDestructuredWithRest, IsCallArgument, IsNamedJsxAttributeValue

LEMMA DeclaredTypes == \A x \in Declared : x.type # "VariableDeclarator"
<1> DEFINE variables == {Declaration("VariableDeclaration", "", e) : e \in BOOLEAN}
           functions == {Declaration("FunctionDeclaration", name, e) : name \in Names, e \in BOOLEAN}
<1>1. ASSUME NEW x \in variables PROVE x.type = "VariableDeclaration"
  <2>1. PICK e \in BOOLEAN : x = Declaration("VariableDeclaration", "", e)
    OBVIOUS
  <2> QED BY <2>1 DEF Declaration
<1>2. ASSUME NEW x \in functions PROVE x.type = "FunctionDeclaration"
  <2>1. PICK name \in Names, e \in BOOLEAN : x = Declaration("FunctionDeclaration", name, e)
    OBVIOUS
  <2> QED BY <2>1 DEF Declaration
<1>3. Node("FunctionExpression", "").type = "FunctionExpression" /\ Node("Program", "").type = "Program"
  BY NodeParts
<1>4. Declared = variables \cup functions \cup {Node("FunctionExpression", ""), Node("Program", "")}
  BY DEF Declared
<1> HIDE DEF variables, functions
<1> QED BY <1>1, <1>2, <1>3, <1>4

\* What the program is closed by, and what a value can be in when it is.
LEMMA ClosedMeans ==
  ASSUME EscapeInv, Closed
  PROVE  /\ Len(above) \in Nat /\ Len(above) >= 1 /\ above[1] \in AroundUse \cup Around
         /\ \A i \in 1 .. Len(above) : above[i].type \in Declarators => i < Len(above)
         /\ \A i \in 1 .. Len(above) : above[i].type \in Statements \cup Declarators /\ ~above[i].exported => i < Len(above)
<1>1. Len(above) \in Nat /\ Len(above) >= 1 /\ above[1] \in AroundUse \cup Around
  BY DEF EscapeInv, Closed
<1>2. ASSUME NEW i \in 1 .. Len(above), above[i].type \in Statements \cup Declarators, ~above[i].exported
      PROVE  i # Len(above)
  BY <1>2 DEF Closed, Outermost, Statements, Declarators
<1>3. ASSUME NEW i \in 1 .. Len(above), above[i].type \in Declarators
      PROVE  ~above[i].exported
  <2>1. above[i] \in Nodes
    BY DEF EscapeInv
  <2>2. above[i] \in Declared => above[i].type # "VariableDeclarator"
    BY DeclaredTypes
  <2> QED BY <1>3, <2>1, <2>2, NotExported DEF Nodes, Declarators
<1> QED BY <1>1, <1>2, <1>3

\* The declaration of a closed program is public if it is exported, unless it is
\* a local one.
LEMMA ExportedIsPublic ==
  ASSUME EscapeInv, Closed, NEW i \in 1 .. Len(above), above[i].type \in {"VariableDeclaration", "FunctionDeclaration"}, NEW name,
         \E k \in 1 .. i : above[k].is = name
  PROVE  /\ Public(i, name) => IsDeclarationExported(i, name)
         /\ IsDeclarationExported(i, name) => Public(i, name) \/ Shadows
<1>1. Public(i, name) => IsDeclarationExported(i, name)
  BY DEF Public, IsDeclarationExported, IsExportedName
<1>2. ASSUME IsDeclarationExported(i, name), ~above[i].exported PROVE Public(i, name) \/ Shadows
  <2>1. name \in exports /\ i < Len(above)
    BY <1>2, ClosedMeans DEF IsDeclarationExported, IsExportedName, Statements
  <2>2. Links(above[i], above[i + 1]) /\ i + 1 \in 1 .. Len(above)
    BY <2>1, ClosedMeans DEF EscapeInv
  <2>3. CASE above[i + 1].type = "Program"
    BY <2>1, <2>3 DEF Public
  <2>4. CASE above[i + 1].type \in Functions
    <3>1. PICK k \in 1 .. i : above[k].is = name
      OBVIOUS
    <3>2. k \in 1 .. Len(above) /\ i + 1 > k /\ DOMAIN above = 1 .. Len(above)
      BY <2>2, ClosedMeans DEF EscapeInv
    <3> QED BY <2>1, <2>2, <2>4, <3>1, <3>2 DEF Shadows
  <2> QED BY <2>2, <2>3, <2>4 DEF Links, Statements, Functions
<1> QED BY <1>1, <1>2 DEF Public

\* The same of what initializes a variable at i.
PublicVariable(i) ==
  /\ i <= Len(above) /\ above[i].type = "VariableDeclarator" /\ above[i].is \in Names
  /\ Public(i + 1, above[i].is)

LEMMA ExportedVariable ==
  ASSUME EscapeInv, Closed, NEW i \in Nat, i >= 1
  PROVE  /\ PublicVariable(i) => IsExportedVariableInit(i)
         /\ IsExportedVariableInit(i) => PublicVariable(i) \/ Shadows
<1> SUFFICES ASSUME i <= Len(above), above[i].type = "VariableDeclarator"
             PROVE  /\ Public(i + 1, above[i].is) => IsDeclarationExported(i + 1, above[i].is)
                    /\ IsDeclarationExported(i + 1, above[i].is) => Public(i + 1, above[i].is) \/ Shadows
  BY DEF PublicVariable, IsExportedVariableInit
<1>1. i < Len(above) /\ Len(above) \in Nat
  BY ClosedMeans DEF Declarators
<1>2. i + 1 \in 1 .. Len(above) /\ i \in 1 .. i + 1
  BY <1>1
<1>3. above[i + 1].type = "VariableDeclaration"
  BY <1>1 DEF EscapeInv, Links, Declarators
<1> QED BY <1>2, <1>3, ExportedIsPublic

LEMMA EnclosedBy ==
  ASSUME EscapeInv, Closed, above[1].type \in {"ReturnStatement", "ArrowFunctionExpression"}
  PROVE  /\ EnclosingFunction \in FunctionsAbove /\ \A f \in FunctionsAbove : (\A g \in FunctionsAbove : f <= g) <=> f = EnclosingFunction
         /\ EnclosingFunction \in 1 .. 2
<1>1. DOMAIN above = 1 .. Len(above) /\ Len(above) \in Nat /\ Len(above) >= 1 /\ FunctionsAbove \subseteq 1 .. Len(above)
  BY ClosedMeans DEF EscapeInv, FunctionsAbove
<1>2. \E f \in FunctionsAbove : f \in 1 .. 2 /\ \A g \in FunctionsAbove : f <= g
  <2>1. CASE above[1].type = "ArrowFunctionExpression"
    <3>1. 1 \in FunctionsAbove
      BY <1>1, <2>1 DEF FunctionsAbove, Functions
    <3> QED BY <1>1, <3>1
  <2>2. CASE above[1].type = "ReturnStatement"
    <3>1. ~above[1].exported
      BY NotExported, ClosedMeans
    <3>2. 1 < Len(above)
      BY <1>1, <2>2, <3>1, ClosedMeans DEF Statements
    <3>3. Links(above[1], above[2])
      <4>1. \A i \in 1 .. Len(above) - 1 : Links(above[i], above[i + 1])
        BY DEF EscapeInv
      <4>2. PICK i \in 1 .. Len(above) - 1 : i = 1 /\ i + 1 = 2
        BY <1>1, <3>2
      <4> QED BY <4>1, <4>2
    <3>4. 2 \in FunctionsAbove
      BY <1>1, <2>2, <3>2, <3>3 DEF FunctionsAbove, Functions, Links, Statements
    <3>5. 1 \notin FunctionsAbove
      BY <2>2 DEF FunctionsAbove, Functions
    <3> QED BY <1>1, <3>4, <3>5
  <2> QED BY <2>1, <2>2
<1>3. \A f, g \in FunctionsAbove : f <= g /\ g <= f => f = g
  BY <1>1
<1> QED BY <1>2, <1>3 DEF EnclosingFunction

\* The value is returned from a function that an importer can call.
ReturnedToPublic ==
  /\ above[1].type \in {"ReturnStatement", "ArrowFunctionExpression"}
  /\ \E f \in FunctionsAbove :
       /\ \A g \in FunctionsAbove : f <= g
       /\ IF above[f].type = "FunctionDeclaration" THEN Public(f, above[f].is) ELSE PublicVariable(f + 1)

LEMMA HandedOutIs == HandedOut <=> PublicVariable(1) \/ ReturnedToPublic
BY DEF HandedOut, PublicVariable, ReturnedToPublic

LEMMA ReturnedIs ==
  ASSUME EscapeInv, Closed
  PROVE  /\ ReturnedToPublic => IsReturnedFromExportedFunction
         /\ IsReturnedFromExportedFunction => ReturnedToPublic \/ Shadows
<1> SUFFICES ASSUME above[1].type \in {"ReturnStatement", "ArrowFunctionExpression"}
             PROVE  /\ ReturnedToPublic => IsReturnedFromExportedFunction
                    /\ IsReturnedFromExportedFunction => ReturnedToPublic \/ Shadows
  BY DEF ReturnedToPublic, IsReturnedFromExportedFunction
<1>1. PICK f \in FunctionsAbove : f = EnclosingFunction /\ f \in 1 .. Len(above) /\ f \in 1 .. 2
  BY EnclosedBy, ClosedMeans DEF FunctionsAbove, EscapeInv
<1>2. ReturnedToPublic <=> IF above[f].type = "FunctionDeclaration" THEN Public(f, above[f].is) ELSE PublicVariable(f + 1)
  BY <1>1, EnclosedBy DEF ReturnedToPublic
<1>3. IsReturnedFromExportedFunction <=>
        IF above[f].type = "FunctionDeclaration" THEN IsDeclarationExported(f, above[f].is) ELSE IsExportedVariableInit(f + 1)
  BY <1>1 DEF IsReturnedFromExportedFunction, IsFunctionExported
<1>4. CASE above[f].type = "FunctionDeclaration"
  <2>1. \E k \in 1 .. f : above[k].is = above[f].is
    BY <1>1
  <2> QED BY <1>1, <1>2, <1>3, <1>4, <2>1, ExportedIsPublic
<1>5. CASE above[f].type # "FunctionDeclaration"
  <2>1. f + 1 \in Nat /\ f + 1 >= 1
    BY <1>1
  <2> QED BY <1>2, <1>3, <1>5, <2>1, ExportedVariable
<1> QED BY <1>4, <1>5

\* The value's own position decides what else the rule can say.
LEMMA EscapeCases ==
  ASSUME EscapeInv, Closed
  PROVE  LET exported == IsExportedVariableInit(1) \/ IsReturnedFromExportedFunction
         IN  /\ exported => /\ above[1].type \in {"VariableDeclarator", "ReturnStatement", "ArrowFunctionExpression"}
                            /\ above[1] # Node("VariableDeclarator", "rest")
             /\ ClassifyEscape = "exported" <=> exported
             /\ ~exported /\ ClassifyEscape = "none" => ~(IsSpread \/ IsDestructuredWithRest \/ IsCallArgument \/ IsNamedJsxAttributeValue)
             /\ ~exported /\ ClassifyEscape # "none" => IsSpread \/ IsDestructuredWithRest \/ IsCallArgument \/ IsNamedJsxAttributeValue
<1> DEFINE exported == IsExportedVariableInit(1) \/ IsReturnedFromExportedFunction
<1>0. above[1] \in AroundUse \cup Around /\ above[1] = Node(above[1].type, above[1].is)
  BY ClosedMeans, Positions
<1>1. exported => /\ above[1].type \in {"VariableDeclarator", "ReturnStatement", "ArrowFunctionExpression"}
                  /\ above[1] # Node("VariableDeclarator", "rest")
  <2>1. IsExportedVariableInit(1) => above[1].type = "VariableDeclarator" /\ above[1].is \in Names
    BY DEF IsExportedVariableInit
  <2>2. IsReturnedFromExportedFunction => above[1].type \in {"ReturnStatement", "ArrowFunctionExpression"}
    BY DEF IsReturnedFromExportedFunction
  <2> QED BY <2>1, <2>2, NodeParts, NamesAssumption
<1>2. exported => ~IsSpread /\ ~IsDestructuredWithRest /\ ~IsCallArgument /\ ~IsNamedJsxAttributeValue
  BY <1>0, <1>1, NodeParts, PositionTests
<1>3. /\ ~(IsSpread /\ IsDestructuredWithRest) /\ ~(IsSpread /\ IsCallArgument) /\ ~(IsSpread /\ IsNamedJsxAttributeValue)
      /\ ~(IsDestructuredWithRest /\ IsCallArgument) /\ ~(IsDestructuredWithRest /\ IsNamedJsxAttributeValue)
      /\ ~(IsCallArgument /\ IsNamedJsxAttributeValue)
  BY <1>0, PositionTests
<1> HIDE DEF exported
<1>4. ClassifyEscape = CASE exported -> "exported"
                         [] IsSpread \/ IsDestructuredWithRest -> "spread"
                         [] IsCallArgument -> "argument"
                         [] IsNamedJsxAttributeValue -> "prop"
                         [] OTHER -> "none"
  BY DEF ClassifyEscape, exported
<1> QED BY <1>1, <1>2, <1>3, <1>4 DEF exported

LEMMA UsageOfPosition ==
  ASSUME EscapeInv, Closed
  PROVE  /\ above[1].type # "MemberExpression" => ClassifyUsage = "indeterminate"
         /\ ClassifyUsage = "indeterminate" => above[1] \notin {Node("MemberExpression", "name"), Node("MemberExpression", "index")}
BY NodeParts DEF ClassifyUsage, IsElementAccessIndex, EscapeInv

LEMMA EscapeInvImplies == EscapeInv => RuleAgreesWithScanner /\ ExportsAreExact
<1> SUFFICES ASSUME EscapeInv, Closed PROVE RuleAgreesWithScanner /\ ExportsAreExact
  BY DEF RuleAgreesWithScanner, ExportsAreExact
<1>1. RuleAgreesWithScanner
  <2>1. ClassifyEscape # "none" => above[1].type # "MemberExpression"
    BY EscapeCases, PositionTests, ClosedMeans
  <2>2. ASSUME ClassifyUsage = "indeterminate", ClassifyEscape = "none" PROVE LeftAlone
    <3>1. ~IsSpread /\ ~IsDestructuredWithRest /\ ~IsCallArgument /\ ~IsNamedJsxAttributeValue
      BY <2>2, EscapeCases
    <3>2. above[1] \in AroundUse \cup Around /\ above[1] \notin {Node("MemberExpression", "name"), Node("MemberExpression", "index")}
      BY <2>2, UsageOfPosition, ClosedMeans
    <3>3. PICK x \in AroundUse \cup Around : x = above[1]
      BY <3>2
    <3>4. \/ x.type \in {"VariableDeclarator", "Wrapper", "JSXElement", "ReturnStatement", "ArrowFunctionExpression"}
          \/ x.type = "MemberExpression" /\ x.is \in {"computed", "literal"}
          \/ x.type \in {"CallExpression", "NewExpression"} /\ x.is = "callee"
          \/ x = Node("SpreadElement", "array")
      BY <3>1, <3>2, <3>3, Positions, PositionTests
    <3>5. x \in Calls("callee") <=> x.type \in {"CallExpression", "NewExpression"} /\ x.is = "callee"
      BY <3>3, PositionTests
    <3> QED BY <3>3, <3>4, <3>5 DEF LeftAlone
  <2> QED BY <2>1, <2>2, UsageOfPosition DEF RuleAgreesWithScanner
<1>2. ExportsAreExact
  <2>1. /\ PublicVariable(1) => IsExportedVariableInit(1)
        /\ IsExportedVariableInit(1) => PublicVariable(1) \/ Shadows
    BY ExportedVariable
  <2> QED BY <2>1, ReturnedIs, HandedOutIs, EscapeCases DEF ExportsAreExact
<1> QED BY <1>1, <1>2

\* What surrounds a piece of code is what Surround puts there.
OperationInv == around \in Seq(Surroundings)

LEMMA OperationInvImplies == OperationInv => IoIsReportedOutsideOperations /\ AcceptedIsShared
<1> SUFFICES ASSUME OperationInv PROVE IoIsReportedOutsideOperations /\ AcceptedIsShared
  OBVIOUS
<1>1. DOMAIN around = 1 .. Len(around) /\ Len(around) \in Nat /\ \A i \in DOMAIN around : around[i] \in Surroundings
  BY DEF OperationInv
<1>2. IoIsReportedOutsideOperations
  <2>1. InOperation => IsInsideOperationBody
    <3> SUFFICES ASSUME InOperation PROVE IsInsideOperationBody
      OBVIOUS
    <3>1. PICK i \in DOMAIN around :
            /\ i + 3 <= Len(around) /\ around[i] = Property("execute", "function")
            /\ around[i + 2] = Property("getters", "object")
            /\ IsCapabilityCall(around[i + 3], {"createData", "buildData"})
      BY DEF InOperation
    <3>2. IsBodyProperty(around[i]) /\ IsOperationSectionKey(around[i + 2])
      BY <3>1 DEF IsBodyProperty, IsOperationBodyKey, IsOperationSectionKey, Property
    <3>3. i + 2 \in DOMAIN around /\ i + 3 \in DOMAIN around /\ i <= i + 2 /\ i + 2 <= i + 3
      BY <1>1, <3>1
    <3> QED BY <3>1, <3>2, <3>3 DEF IsInsideOperationBody
  <2>2. IsInsideOperationBody => \E i \in DOMAIN around : around[i] = Property("execute", "function")
    <3> SUFFICES ASSUME NEW i \in DOMAIN around, IsBodyProperty(around[i])
                 PROVE  around[i] = Property("execute", "function")
      BY DEF IsInsideOperationBody
    <3> QED BY <1>1 DEF IsBodyProperty, IsOperationBodyKey, Surroundings, Property, CallOf
  <2> QED BY <2>1, <2>2 DEF IoIsReportedOutsideOperations, NoRawExternalIo
<1>3. AcceptedIsShared
  <2> SUFFICES ASSUME InCreateData, IsOperationBodyKey(around[1]), ~StableOperationReference
               PROVE  /\ use # "inline function"
                      /\ use = "reference" /\ Resolved # 0 /\ ~RunsOnce =>
                           \E j \in Resolved .. Len(scopes) : scopes[j].type = "loop"
    BY DEF AcceptedIsShared
  <2>1. around # <<>>
    BY <1>1 DEF InCreateData
  <2>2. use # "inline function"
    BY <2>1 DEF StableOperationReference
  <2>3. ASSUME use = "reference", Resolved # 0, \A j \in Resolved .. Len(scopes) : scopes[j].type # "loop" PROVE RunsOnce
    <3>1. \A j \in Resolved .. Len(scopes) : scopes[j].type \notin {"function", "loop"}
      BY <2>1, <2>3 DEF StableOperationReference, IsDeclaredWithinFunctionScope
    <3>2. \A entered : Denoted(entered) = [j \in Resolved .. Len(scopes) |-> 1]
      BY <3>1 DEF Denoted
    <3> QED BY <3>2 DEF RunsOnce
  <2> QED BY <2>2, <2>3
<1> QED BY <1>2, <1>3

\* For chains of any length and any names: the lint rules agree with the scanner
\* and with what an operation is.
THEOREM RulesTheorem ==
  /\ EscapeInit /\ [][Enclose]_escapeVars
  /\ OperationInit /\ [][OperationNext]_operationVars
  => []RulesAgreeWithTheBuild
<1>1. EscapeInit => EscapeInv
  BY DEF EscapeInit, EscapeStart, EscapeInv
<1>2. OperationInit => OperationInv
  <2>1. OperationInit => around = <<>>
    BY DEF OperationInit, OperationStart
  <2> HIDE DEF Surroundings
  <2> QED BY <2>1 DEF OperationInv
<1>3. OperationInv /\ [OperationNext]_operationVars => OperationInv'
  <2> SUFFICES ASSUME OperationInv, [OperationNext]_operationVars PROVE OperationInv'
    OBVIOUS
  <2>1. UNCHANGED around \/ \E node \in Surroundings : around' = Append(around, node)
    BY DEF OperationNext, Surround, Widen, operationVars
  <2> HIDE DEF Surroundings
  <2> QED BY <2>1 DEF OperationInv
<1>4. EscapeInv /\ OperationInv => RulesAgreeWithTheBuild
  BY EscapeInvImplies, OperationInvImplies DEF RulesAgreeWithTheBuild
<1> QED BY <1>1, <1>2, <1>3, <1>4, EscapeNextInv, PTL

(***************************************************************************)
(* The command line                                                        *)
(***************************************************************************)
\* What parseArgs's variables hold after each turn.
IsParse(state, line) ==
  /\ state[0] = [parsed |-> NoArgs, resume |-> 1, threw |-> FALSE]
  /\ \A n \in 1 .. Len(line) : state[n] = Turn(line, state[n - 1], n)

LEMMA ParseArgsLoops ==
  ASSUME NEW S, NEW line \in Seq(S)
  PROVE  \E state : IsParse(state, line) /\ ParseArgs(line) = state[Len(line)]
<1> DEFINE start == [parsed |-> NoArgs, resume |-> 1, threw |-> FALSE]
           At(state, n) == IF n = 0 THEN start ELSE Turn(line, state[n - 1], n)
           Ran == {m \in Nat : \E state : state = [n \in 0 .. m |-> At(state, n)]}
           loop == CHOOSE state : state = [n \in 0 .. Len(line) |-> At(state, n)]
<1> HIDE DEF start
<1>1. 0 \in Ran
  <2> DEFINE state == [n \in 0 .. 0 |-> start]
  <2>1. state = [n \in 0 .. 0 |-> At(state, n)]
    OBVIOUS
  <2> QED BY <2>1
<1>2. ASSUME NEW m \in Nat, m \in Ran
      PROVE  m + 1 \in Ran
  <2>1. PICK state : state = [n \in 0 .. m |-> At(state, n)]
    BY <1>2
  <2> DEFINE next == [n \in 0 .. m + 1 |-> IF n = m + 1 THEN Turn(line, state[m], m + 1) ELSE state[n]]
  <2>2. \A n \in 0 .. m : next[n] = state[n]
    OBVIOUS
  <2>3. \A n \in 0 .. m + 1 : next[n] = At(next, n)
    <3> TAKE n \in 0 .. m + 1
    <3>1. CASE n = m + 1
      BY <3>1, <2>2
    <3>2. CASE n = 0
      BY <3>2, <2>1, <2>2
    <3>3. CASE n \in 1 .. m
      <4>1. next[n] = state[n] /\ next[n - 1] = state[n - 1]
        BY <3>3, <2>2
      <4>2. state[n] = At(state, n)
        <5> HIDE DEF At
        <5> QED BY <3>3, <2>1
      <4> QED BY <4>1, <4>2, <3>3
    <3> QED BY <3>1, <3>2, <3>3
  <2>4. next = [n \in 0 .. m + 1 |-> At(next, n)]
    <3> HIDE DEF At
    <3>1. next = [n \in 0 .. m + 1 |-> next[n]]
      OBVIOUS
    <3> HIDE DEF next
    <3> QED BY <3>1, <2>3
  <2> HIDE DEF next, At
  <2> QED BY <2>4
<1>3. Len(line) \in Ran
  <2> HIDE DEF Ran
  <2> QED BY <1>1, <1>2, SetInduction
<1>4. loop = [n \in 0 .. Len(line) |-> At(loop, n)]
  <2> HIDE DEF At
  <2> QED BY <1>3
<1>5. ParseArgs(line) = loop[Len(line)]
  BY DEF ParseArgs, start
<1>6. IsParse(loop, line)
  <2>1. Len(line) \in Nat /\ 0 \in 0 .. Len(line)
    OBVIOUS
  <2> HIDE DEF loop
  <2>2. loop[0] = start
    BY <1>4, <2>1
  <2>3. \A n \in 1 .. Len(line) : loop[n] = Turn(line, loop[n - 1], n)
    BY <1>4, <2>1
  <2> QED BY <2>2, <2>3 DEF IsParse, start
<1> QED BY <1>5, <1>6

\* There is one way to tell the flags of a command line from their values.
ArePositions(positions, n) ==
  \A i \in 1 .. n : i \in positions <=> i = 1 \/ ~(i - 1 \in positions /\ argv[i - 1] \in ValueFlags)

LEMMA PositionsTold ==
  ASSUME NEW S, argv \in Seq(S)
  PROVE  /\ FlagPositions \subseteq DOMAIN argv /\ ArePositions(FlagPositions, Len(argv))
         /\ DOMAIN argv = 1 .. Len(argv) /\ Len(argv) \in Nat
<1> DEFINE Told == {n \in Nat : \E positions \in SUBSET (1 .. n) : ArePositions(positions, n)}
<1>1. Len(argv) \in Nat /\ DOMAIN argv = 1 .. Len(argv)
  OBVIOUS
<1>2. 0 \in Told
  BY DEF ArePositions
<1>3. ASSUME NEW n \in Nat, n \in Told
      PROVE  n + 1 \in Told
  <2>1. PICK positions \in SUBSET (1 .. n) : ArePositions(positions, n)
    BY <1>3
  <2>2. PICK more \in SUBSET {n + 1} : n + 1 \in more <=> (n + 1 = 1 \/ ~(n \in positions /\ argv[n] \in ValueFlags))
    <3>1. CASE n + 1 = 1 \/ ~(n \in positions /\ argv[n] \in ValueFlags)
      <4>1. n + 1 \in {n + 1} /\ {n + 1} \in SUBSET {n + 1}
        OBVIOUS
      <4> QED BY <3>1, <4>1
    <3>2. CASE ~(n + 1 = 1 \/ ~(n \in positions /\ argv[n] \in ValueFlags))
      <4>1. n + 1 \notin {} /\ {} \in SUBSET {n + 1}
        OBVIOUS
      <4> QED BY <3>2, <4>1
    <3> QED BY <3>1, <3>2
  <2>3. /\ \A i \in 1 .. n : i \in positions \cup more <=> i \in positions
        /\ n + 1 \in positions \cup more <=> n + 1 \in more
        /\ positions \cup more \in SUBSET (1 .. n + 1)
    BY <2>1, <2>2
  <2>4. ASSUME NEW i \in 1 .. n + 1
        PROVE  i \in positions \cup more <=> i = 1 \/ ~(i - 1 \in positions \cup more /\ argv[i - 1] \in ValueFlags)
    <3>1. CASE i = n + 1
      <4>1. i - 1 = n /\ (n \in positions \cup more <=> n \in positions)
        BY <2>1, <2>2, <3>1
      <4> QED BY <2>2, <2>3, <3>1, <4>1
    <3>2. CASE i \in 1 .. n
      <4>1. i - 1 \in positions \cup more <=> i - 1 \in positions
        BY <2>1, <2>2, <3>2
      <4> QED BY <2>1, <2>3, <3>2, <4>1 DEF ArePositions
    <3> QED BY <3>1, <3>2
  <2>5. ArePositions(positions \cup more, n + 1)
    BY <2>4 DEF ArePositions
  <2> QED BY <2>3, <2>5
<1>4. \E positions \in SUBSET DOMAIN argv : ArePositions(positions, Len(argv))
  <2>1. Len(argv) \in Told
    <3> HIDE DEF Told
    <3> QED BY <1>1, <1>2, <1>3, SetInduction
  <2> QED BY <1>1, <2>1
<1>5. FlagPositions = CHOOSE positions \in SUBSET DOMAIN argv : ArePositions(positions, Len(argv))
  BY <1>1 DEF FlagPositions, ArePositions
<1> QED BY <1>1, <1>4, <1>5

\* What the grammar asks of the flag at a position.
Good(j) ==
  /\ argv[j] \in ValueFlags \cup BoolFlags
  /\ argv[j] \in ValueFlags => ValueAt(j) \notin {"undefined", ""}
  /\ argv[j] = "--expiring-within-days" => ValueAt(j) \in Days

\* The flags of a kind among the first n arguments, and the last of them.
Upto(flags, n)  == {j \in FlagPositions : j <= n /\ argv[j] \in flags}
IsLast(j, said) == j \in said /\ \A k \in said : k <= j

Switches == {"--tsconfig", "--no-tsconfig"}
SaysTsconfig(j) == IF argv[j] = "--tsconfig" THEN ValueAt(j) ELSE "false"

\* What the first n arguments say of each field.
ReadsOnce(once, n) ==
  /\ DOMAIN once = Once
  /\ \A flag \in Once \ {"--tsconfig"} :
       \/ Upto({flag}, n) = {} /\ once[flag] = "undefined"
       \/ \E j : IsLast(j, Upto({flag}, n)) /\ once[flag] = ValueAt(j)
  /\ \/ Upto(Switches, n) = {} /\ once["--tsconfig"] = "undefined"
     \/ \E j : IsLast(j, Upto(Switches, n)) /\ once["--tsconfig"] = SaysTsconfig(j)

ReadsEach(each, n) ==
  /\ DOMAIN each = Each
  /\ \A flag \in Each : each[flag] \in Seq(STRING) /\ Range(each[flag]) = {ValueAt(j) : j \in Upto({flag}, n)}

ReadsToggles(on, n) == on = {Field(argv[j]) : j \in Upto(Toggles, n)}

Reads(parsed, n) ==
  /\ DOMAIN parsed = {"once", "each", "on"}
  /\ ReadsOnce(parsed.once, n) /\ ReadsEach(parsed.each, n) /\ ReadsToggles(parsed.on, n)

\* What holds of the loop's variables after n turns.
Parsed(x, n) ==
  /\ DOMAIN x = {"parsed", "resume", "threw"}
  /\ x.threw <=> \E j \in FlagPositions : j <= n /\ ~Good(j)
  /\ ~x.threw =>
       /\ x.resume \in Nat /\ x.resume <= n + 2
       /\ n + 1 \in DOMAIN argv => (n + 1 \in FlagPositions <=> x.resume <= n + 1)
       /\ Reads(x.parsed, n)

ArgvOK == argv \in Seq(STRING) /\ Range(argv) \cap Harmless = {}

LEMMA ParsedAtFirst ==
  ASSUME ArgvOK PROVE Parsed([parsed |-> NoArgs, resume |-> 1, threw |-> FALSE], 0)
<1>1. \A j \in FlagPositions : ~(j <= 0)
  BY PositionsTold DEF ArgvOK
<1>2. \A flags : Upto(flags, 0) = {}
  BY <1>1 DEF Upto
<1>3. 1 \in DOMAIN argv => 1 \in FlagPositions
  BY PositionsTold DEF ArgvOK, ArePositions
<1>4. ReadsOnce(NoArgs.once, 0)
  BY <1>2 DEF ReadsOnce, NoArgs, Once
<1>5. ReadsEach(NoArgs.each, 0)
  <2>1. <<>> \in Seq(STRING) /\ Range(<<>>) = {}
    BY DEF Range
  <2> QED BY <1>2, <2>1 DEF ReadsEach, NoArgs
<1>6. ReadsToggles(NoArgs.on, 0)
  BY <1>2 DEF ReadsToggles, NoArgs
<1>7. Reads(NoArgs, 0)
  <2>1. DOMAIN NoArgs = {"once", "each", "on"}
    BY DEF NoArgs
  <2> QED BY <1>4, <1>5, <1>6, <2>1 DEF Reads
<1> QED BY <1>1, <1>3, <1>7 DEF Parsed

\* The next flag is one more of its kind, and the last.
LEMMA OneMore ==
  ASSUME ArgvOK, NEW n \in Nat, n + 1 \in DOMAIN argv
  PROVE  /\ n + 1 \notin FlagPositions => \A flags : Upto(flags, n + 1) = Upto(flags, n)
         /\ n + 1 \in FlagPositions =>
              \A flags : /\ argv[n + 1] \notin flags => Upto(flags, n + 1) = Upto(flags, n)
                         /\ argv[n + 1] \in flags =>
                              Upto(flags, n + 1) = Upto(flags, n) \cup {n + 1} /\ IsLast(n + 1, Upto(flags, n + 1))
<1>1. FlagPositions \subseteq Nat
  BY PositionsTold DEF ArgvOK
<1>2. \A j \in Nat : j <= n + 1 <=> j <= n \/ j = n + 1
  OBVIOUS
<1> QED BY <1>1, <1>2 DEF Upto, IsLast

LEMMA ReadsOn1 ==
  ASSUME NEW n, NEW m, \A flags : Upto(flags, m) = Upto(flags, n), NEW parsed, Reads(parsed, n)
  PROVE  Reads(parsed, m)
BY DEF Reads, ReadsOnce, ReadsEach, ReadsToggles

LEMMA FlagsDiffer ==
  /\ Once \cap Each = {} /\ Once \cap Toggles = {} /\ Each \cap Toggles = {}
  /\ Switches \cap Each = {} /\ Switches \cap Toggles = {} /\ ValueFlags \cap BoolFlags = {}
  /\ Inherited \cap ValueFlags = {} /\ Inherited \cap BoolFlags = {}
  /\ "--tsconfig" \in Once /\ "--no-tsconfig" \notin Once \cup Toggles
  /\ Once \cap Switches = {"--tsconfig"}
BY DEF Once, Each, Toggles, Switches, ValueFlags, BoolFlags, Inherited, Harmless

LEMMA SetsOnce ==
  ASSUME ArgvOK, NEW n \in Nat, n + 1 \in DOMAIN argv, n + 1 \in FlagPositions, NEW once, ReadsOnce(once, n),
         NEW name, NEW value,
         \/ name = argv[n + 1] /\ name \in Once /\ value = ValueAt(n + 1)
         \/ argv[n + 1] = "--no-tsconfig" /\ name = "--tsconfig" /\ value = "false"
  PROVE  ReadsOnce([once EXCEPT ![name] = value], n + 1)
<1> DEFINE arg == argv[n + 1]
           next == [once EXCEPT ![name] = value]
<1>1. /\ \A flags : arg \notin flags => Upto(flags, n + 1) = Upto(flags, n)
      /\ \A flags : arg \in flags => IsLast(n + 1, Upto(flags, n + 1))
  BY OneMore
<1>2. name \in Once /\ DOMAIN once = Once
  BY FlagsDiffer DEF ReadsOnce
<1>3. DOMAIN next = Once /\ next[name] = value /\ \A flag \in Once \ {name} : next[flag] = once[flag]
  BY <1>2
<1> HIDE DEF next
<1>4. ASSUME NEW flag \in Once \ {"--tsconfig"}
      PROVE  \/ Upto({flag}, n + 1) = {} /\ next[flag] = "undefined"
             \/ \E j : IsLast(j, Upto({flag}, n + 1)) /\ next[flag] = ValueAt(j)
  <2>1. CASE flag = arg
    <3>1. flag = name /\ value = ValueAt(n + 1)
      BY <1>4, <2>1, FlagsDiffer
    <3>2. IsLast(n + 1, Upto({flag}, n + 1))
      BY <1>1, <2>1
    <3> QED BY <1>3, <3>1, <3>2
  <2>2. CASE flag # arg
    <3>1. flag # name
      BY <1>4, <2>2
    <3>2. Upto({flag}, n + 1) = Upto({flag}, n)
      BY <1>1, <2>2
    <3>3. next[flag] = once[flag]
      BY <1>3, <3>1
    <3> QED BY <3>2, <3>3 DEF ReadsOnce
  <2> QED BY <2>1, <2>2
<1>5. \/ Upto(Switches, n + 1) = {} /\ next["--tsconfig"] = "undefined"
      \/ \E j : IsLast(j, Upto(Switches, n + 1)) /\ next["--tsconfig"] = SaysTsconfig(j)
  <2>1. CASE arg \in Switches
    <3>1. name = "--tsconfig" /\ value = SaysTsconfig(n + 1)
      BY <2>1, FlagsDiffer DEF SaysTsconfig, Switches
    <3>2. IsLast(n + 1, Upto(Switches, n + 1))
      BY <1>1, <2>1
    <3> QED BY <1>3, <3>1, <3>2
  <2>2. CASE arg \notin Switches
    <3>1. name # "--tsconfig"
      BY <2>2 DEF Switches
    <3>2. Upto(Switches, n + 1) = Upto(Switches, n)
      BY <1>1, <2>2
    <3>3. next["--tsconfig"] = once["--tsconfig"]
      BY <1>3, <3>1, FlagsDiffer
    <3> QED BY <3>2, <3>3 DEF ReadsOnce
  <2> QED BY <2>1, <2>2
<1> QED BY <1>3, <1>4, <1>5 DEF ReadsOnce, next

LEMMA KeepsOnce ==
  ASSUME ArgvOK, NEW n \in Nat, n + 1 \in DOMAIN argv, n + 1 \in FlagPositions, NEW once, ReadsOnce(once, n),
         argv[n + 1] \notin Once \cup Switches
  PROVE  ReadsOnce(once, n + 1)
<1>1. \A flag \in Once : Upto({flag}, n + 1) = Upto({flag}, n)
  <2>1. \A flag \in Once : argv[n + 1] \notin {flag}
    OBVIOUS
  <2> QED BY <2>1, OneMore
<1>2. Upto(Switches, n + 1) = Upto(Switches, n)
  BY OneMore
<1> QED BY <1>1, <1>2 DEF ReadsOnce

LEMMA RangeAfter ==
  ASSUME NEW S, NEW s \in Seq(S), NEW v \in S
  PROVE  Append(s, v) \in Seq(S) /\ Range(Append(s, v)) = Range(s) \cup {v}
<1>1. /\ Append(s, v) \in Seq(S) /\ DOMAIN Append(s, v) = DOMAIN s \cup {Len(s) + 1}
      /\ \A i \in DOMAIN s : Append(s, v)[i] = s[i]
      /\ Append(s, v)[Len(s) + 1] = v
  OBVIOUS
<1>2. \A w \in Range(Append(s, v)) : w \in Range(s) \cup {v}
  BY <1>1 DEF Range
<1>3. \A w \in Range(s) \cup {v} : w \in Range(Append(s, v))
  BY <1>1 DEF Range
<1> QED BY <1>1, <1>2, <1>3

LEMMA SetsEach ==
  ASSUME ArgvOK, NEW n \in Nat, n + 1 \in DOMAIN argv, n + 1 \in FlagPositions, NEW each, ReadsEach(each, n),
         argv[n + 1] \in Each, ValueAt(n + 1) # "undefined"
  PROVE  ReadsEach([each EXCEPT ![argv[n + 1]] = Append(@, ValueAt(n + 1))], n + 1)
<1>1. PICK arg, value : arg = argv[n + 1] /\ value = ValueAt(n + 1) /\ value \in STRING
  <2>1. ValueAt(n + 1) \in STRING
    <3>1. PICK line : line = argv
      OBVIOUS
    <3>2. line \in Seq(STRING)
      BY <3>1 DEF ArgvOK
    <3>3. n + 1 < Len(line) => line[(n + 1) + 1] \in STRING
      BY <3>2
    <3> QED BY <3>1, <3>3 DEF ValueAt
  <2> QED BY <2>1
<1> DEFINE next == [each EXCEPT ![arg] = Append(@, value)]
<1>2. DOMAIN next = Each /\ next[arg] = Append(each[arg], value) /\ \A flag \in Each \ {arg} : next[flag] = each[flag]
  BY <1>1 DEF ReadsEach
<1> HIDE DEF next
<1>3. ASSUME NEW flag \in Each
      PROVE  next[flag] \in Seq(STRING) /\ Range(next[flag]) = {ValueAt(j) : j \in Upto({flag}, n + 1)}
  <2>1. each[flag] \in Seq(STRING) /\ Range(each[flag]) = {ValueAt(j) : j \in Upto({flag}, n)}
    BY DEF ReadsEach
  <2>2. CASE flag = arg
    <3>1. Upto({flag}, n + 1) = Upto({flag}, n) \cup {n + 1}
      BY <1>1, <2>2, OneMore
    <3>2. next[flag] = Append(each[flag], value)
      BY <1>2, <2>2
    <3>3. next[flag] \in Seq(STRING) /\ Range(next[flag]) = Range(each[flag]) \cup {value}
      <4>1. PICK past : past = each[flag] /\ past \in Seq(STRING)
        BY <2>1
      <4>2. Append(past, value) \in Seq(STRING) /\ Range(Append(past, value)) = Range(past) \cup {value}
        BY <1>1, <4>1, RangeAfter
      <4> QED BY <3>2, <4>1, <4>2
    <3> QED BY <1>1, <2>1, <3>1, <3>3
  <2>3. CASE flag # arg
    <3>1. Upto({flag}, n + 1) = Upto({flag}, n)
      BY <1>1, <2>3, OneMore
    <3> QED BY <1>2, <2>1, <2>3, <3>1
  <2> QED BY <2>2, <2>3
<1>4. ReadsEach(next, n + 1)
  BY <1>2, <1>3 DEF ReadsEach
<1> QED BY <1>1, <1>4 DEF next

LEMMA KeepsEach ==
  ASSUME ArgvOK, NEW n \in Nat, n + 1 \in DOMAIN argv, n + 1 \in FlagPositions, NEW each, ReadsEach(each, n),
         argv[n + 1] \notin Each
  PROVE  ReadsEach(each, n + 1)
<1>1. \A flag \in Each : Upto({flag}, n + 1) = Upto({flag}, n)
  <2>1. \A flag \in Each : argv[n + 1] \notin {flag}
    OBVIOUS
  <2> QED BY <2>1, OneMore
<1> QED BY <1>1 DEF ReadsEach

\* A turn at a flag that takes a value.
LEMMA SetsValue ==
  ASSUME ArgvOK, NEW n \in Nat, n + 1 \in DOMAIN argv, n + 1 \in FlagPositions, NEW parsed, Reads(parsed, n),
         argv[n + 1] \in ValueFlags, ValueAt(n + 1) # "undefined"
  PROVE  Reads(SetValue(parsed, argv[n + 1], ValueAt(n + 1)), n + 1)
<1> DEFINE flag == argv[n + 1]
           value == ValueAt(n + 1)
           next == SetValue(parsed, flag, value)
<1>1. /\ DOMAIN parsed = {"once", "each", "on"}
      /\ ReadsOnce(parsed.once, n) /\ ReadsEach(parsed.each, n) /\ ReadsToggles(parsed.on, n)
  BY DEF Reads
<1>2. ReadsToggles(parsed.on, n + 1)
  <2>1. flag \notin Toggles
    BY FlagsDiffer DEF ValueFlags
  <2>2. Upto(Toggles, n + 1) = Upto(Toggles, n)
    BY <2>1, OneMore
  <2> QED BY <1>1, <2>2 DEF ReadsToggles
<1>3. CASE flag \in Once
  <2>1. next = [parsed EXCEPT !.once = [parsed.once EXCEPT ![flag] = value]]
    BY <1>1, <1>3, FlagsDiffer DEF SetValue
  <2>2. DOMAIN next = DOMAIN parsed /\ next.once = [parsed.once EXCEPT ![flag] = value]
        /\ next.each = parsed.each /\ next.on = parsed.on
    BY <1>1, <2>1
  <2>3. ReadsOnce([parsed.once EXCEPT ![flag] = value], n + 1)
    BY <1>1, <1>3, SetsOnce
  <2>4. ReadsEach(parsed.each, n + 1)
    <3>1. flag \notin Each
      BY <1>3, FlagsDiffer
    <3> QED BY <1>1, <3>1, KeepsEach
  <2> HIDE DEF next
  <2>5. Reads(next, n + 1)
    BY <1>1, <1>2, <2>2, <2>3, <2>4 DEF Reads
  <2> QED BY <2>5 DEF next
<1>4. CASE flag \in Each
  <2>1. next = [parsed EXCEPT !.each = [parsed.each EXCEPT ![flag] = Append(@, value)]]
    BY <1>1, <1>4, FlagsDiffer DEF SetValue
  <2>2. DOMAIN next = DOMAIN parsed /\ next.each = [parsed.each EXCEPT ![flag] = Append(@, value)]
        /\ next.once = parsed.once /\ next.on = parsed.on
    BY <1>1, <2>1
  <2>3. ReadsEach([parsed.each EXCEPT ![flag] = Append(@, value)], n + 1)
    BY <1>1, <1>4, SetsEach
  <2>4. ReadsOnce(parsed.once, n + 1)
    <3>1. flag \notin Once \cup Switches
      BY <1>4, FlagsDiffer
    <3> QED BY <1>1, <3>1, KeepsOnce
  <2> HIDE DEF next
  <2>5. Reads(next, n + 1)
    BY <1>1, <1>2, <2>2, <2>3, <2>4 DEF Reads
  <2> QED BY <2>5 DEF next
<1> QED BY <1>3, <1>4 DEF ValueFlags

\* A turn at one that takes none.
LEMMA SetsFlag ==
  ASSUME ArgvOK, NEW n \in Nat, n + 1 \in DOMAIN argv, n + 1 \in FlagPositions, NEW parsed, Reads(parsed, n),
         argv[n + 1] \in BoolFlags
  PROVE  Reads(SetFlag(parsed, argv[n + 1]), n + 1)
<1> DEFINE flag == argv[n + 1]
           next == SetFlag(parsed, flag)
<1>1. /\ DOMAIN parsed = {"once", "each", "on"}
      /\ ReadsOnce(parsed.once, n) /\ ReadsEach(parsed.each, n) /\ ReadsToggles(parsed.on, n)
  BY DEF Reads
<1>2. ReadsEach(parsed.each, n + 1)
  <2>1. flag \notin Each
    BY FlagsDiffer DEF ValueFlags, BoolFlags
  <2> QED BY <1>1, <2>1, KeepsEach
<1>3. CASE flag = "--no-tsconfig"
  <2>1. PICK name, value : name = "--tsconfig" /\ value = "false"
    OBVIOUS
  <2>2. next = [parsed EXCEPT !.once = [parsed.once EXCEPT ![name] = value]]
    BY <1>1, <1>3, <2>1 DEF SetFlag
  <2>3. DOMAIN next = DOMAIN parsed /\ next.once = [parsed.once EXCEPT ![name] = value]
        /\ next.each = parsed.each /\ next.on = parsed.on
    BY <1>1, <2>2
  <2>4. ReadsOnce([parsed.once EXCEPT ![name] = value], n + 1)
    BY <1>1, <1>3, <2>1, SetsOnce
  <2>5. ReadsToggles(parsed.on, n + 1)
    <3>1. Upto(Toggles, n + 1) = Upto(Toggles, n)
      BY <1>3, FlagsDiffer, OneMore
    <3> QED BY <1>1, <3>1 DEF ReadsToggles
  <2> HIDE DEF next
  <2>6. Reads(next, n + 1)
    BY <1>1, <1>2, <2>3, <2>4, <2>5 DEF Reads
  <2> QED BY <2>6 DEF next
<1>4. CASE flag # "--no-tsconfig"
  <2>1. flag \in Toggles
    BY <1>4 DEF BoolFlags
  <2>2. next = [parsed EXCEPT !.on = @ \cup {Field(flag)}]
    BY <1>4 DEF SetFlag
  <2>3. DOMAIN next = DOMAIN parsed /\ next.on = parsed.on \cup {Field(flag)}
        /\ next.each = parsed.each /\ next.once = parsed.once
    BY <1>1, <2>2
  <2>4. ReadsOnce(parsed.once, n + 1)
    <3>1. flag \notin Once \cup Switches
      BY <2>1, FlagsDiffer
    <3> QED BY <1>1, <3>1, KeepsOnce
  <2>5. ReadsToggles(parsed.on \cup {Field(flag)}, n + 1)
    <3>1. Upto(Toggles, n + 1) = Upto(Toggles, n) \cup {n + 1}
      BY <2>1, OneMore
    <3> QED BY <1>1, <3>1 DEF ReadsToggles
  <2> HIDE DEF next
  <2>6. Reads(next, n + 1)
    BY <1>1, <1>2, <2>3, <2>4, <2>5 DEF Reads
  <2> QED BY <2>6 DEF next
<1> QED BY <1>3, <1>4

\* One turn of the loop.
LEMMA OneTurn ==
  ASSUME ArgvOK, NEW n \in Nat, n + 1 \in DOMAIN argv, NEW x, Parsed(x, n)
  PROVE  Parsed(Turn(argv, x, n + 1), n + 1)
<1> DEFINE i == n + 1
           arg == argv[i]
           y == Turn(argv, x, i)
<1>1. /\ DOMAIN x = {"parsed", "resume", "threw"}
      /\ x.threw <=> \E j \in FlagPositions : j <= n /\ ~Good(j)
  BY DEF Parsed
<1>2. /\ FlagPositions \subseteq Nat
      /\ i + 1 \in DOMAIN argv => (i + 1 \in FlagPositions <=> ~(i \in FlagPositions /\ arg \in ValueFlags))
      /\ \A j \in Nat : j <= i <=> j <= n \/ j = i
  <2>1. FlagPositions \subseteq Nat
    BY PositionsTold DEF ArgvOK
  <2>2. i + 1 \in DOMAIN argv => i + 1 \in 1 .. Len(argv) /\ (i + 1) - 1 = i /\ i + 1 # 1
    BY PositionsTold DEF ArgvOK
  <2>3. ArePositions(FlagPositions, Len(argv))
    BY PositionsTold DEF ArgvOK
  <2> QED BY <2>1, <2>2, <2>3 DEF ArePositions
<1>3. CASE x.threw
  <2>1. y = x
    BY <1>3 DEF Turn
  <2>2. \E j \in FlagPositions : j <= i /\ ~Good(j)
    BY <1>1, <1>2, <1>3
  <2> HIDE DEF y
  <2>3. Parsed(y, i)
    BY <1>1, <1>3, <2>1, <2>2 DEF Parsed
  <2> QED BY <2>3 DEF y
<1>4. ASSUME ~x.threw
      PROVE  /\ x.resume \in Nat /\ x.resume <= n + 2 /\ (i \in FlagPositions <=> x.resume <= i)
             /\ Reads(x.parsed, n) /\ \A j \in FlagPositions : j <= n => Good(j)
  BY <1>1, <1>4 DEF Parsed
<1>5. CASE ~x.threw /\ i \notin FlagPositions
  <2>1. y = x
    <3>1. i < x.resume
      BY <1>4, <1>5
    <3> QED BY <3>1 DEF Turn
  <2>2. \A j \in FlagPositions : j <= i => Good(j)
    BY <1>2, <1>4, <1>5
  <2>3. Reads(x.parsed, i)
    BY <1>4, <1>5, OneMore, ReadsOn1
  <2>4. x.resume \in Nat /\ x.resume <= i + 1 /\ x.resume <= i + 2
    BY <1>4, <1>5
  <2> HIDE DEF y
  <2>5. Parsed(y, i)
    BY <1>1, <1>2, <1>5, <2>1, <2>2, <2>3, <2>4 DEF Parsed
  <2> QED BY <2>5 DEF y
<1>6. ASSUME ~x.threw, i \in FlagPositions
      PROVE  /\ y = CASE arg \in ValueFlags \cup Inherited ->
                            IF Refuses(arg, ValueAt(i)) THEN [x EXCEPT !.threw = TRUE]
                            ELSE [x EXCEPT !.parsed = SetValue(@, arg, ValueAt(i)), !.resume = ResumeAfter(i)]
                       [] arg \in BoolFlags -> [x EXCEPT !.parsed = SetFlag(@, arg)]
                       [] OTHER             -> [x EXCEPT !.threw = TRUE]
             /\ x.resume <= i + 1 /\ x.resume <= i + 2
  <2>1. ~(x.threw \/ i < x.resume) /\ x.resume <= i + 1 /\ x.resume <= i + 2
    BY <1>4, <1>6
  <2> QED BY <2>1 DEF Turn, ValueAt
<1>7. CASE ~x.threw /\ i \in FlagPositions /\ ~Good(i)
  <2>1. y = [x EXCEPT !.threw = TRUE]
    <3>1. CASE arg \in ValueFlags
      <4>1. Refuses(arg, ValueAt(i))
        BY <1>7, <3>1 DEF Good, Refuses
      <4> QED BY <1>6, <1>7, <3>1, <4>1, FlagsDiffer
    <3>2. CASE arg \in Inherited
      <4>1. arg \notin Harmless
        BY DEF ArgvOK, Range
      <4>2. Refuses(arg, ValueAt(i)) /\ arg \notin BoolFlags
        BY <3>2, <4>1, FlagsDiffer DEF Refuses
      <4> QED BY <1>6, <1>7, <3>2, <4>2
    <3>3. CASE arg \notin ValueFlags \cup Inherited
      <4>1. arg \notin BoolFlags
        BY <1>7, <3>3 DEF Good, ValueFlags, Once
      <4> QED BY <1>6, <1>7, <3>3, <4>1
    <3> QED BY <3>1, <3>2, <3>3
  <2> HIDE DEF y
  <2>2. DOMAIN y = DOMAIN x /\ y.threw
    BY <1>1, <2>1
  <2>3. \E j \in FlagPositions : j <= i /\ ~Good(j)
    BY <1>2, <1>7
  <2>4. Parsed(y, i)
    BY <1>1, <2>2, <2>3 DEF Parsed
  <2> QED BY <2>4 DEF y
<1>8. ASSUME ~x.threw, i \in FlagPositions, Good(i)
      PROVE  \A j \in FlagPositions : j <= i => Good(j)
  BY <1>2, <1>4, <1>8
<1>9. CASE ~x.threw /\ i \in FlagPositions /\ Good(i) /\ arg \in ValueFlags
  <2>1. ~Refuses(arg, ValueAt(i)) /\ ValueAt(i) # "undefined"
    BY <1>9, FlagsDiffer DEF Good, Refuses
  <2>2. y = [x EXCEPT !.parsed = SetValue(x.parsed, arg, ValueAt(i)), !.resume = i + 2]
    BY <1>1, <1>6, <1>9, <2>1, FlagsDiffer DEF ResumeAfter
  <2>3. Reads(SetValue(x.parsed, arg, ValueAt(i)), i)
    BY <1>4, <1>9, <2>1, SetsValue
  <2> HIDE DEF y
  <2>4. DOMAIN y = DOMAIN x /\ ~y.threw /\ y.resume = i + 2 /\ y.parsed = SetValue(x.parsed, arg, ValueAt(i))
    BY <1>1, <1>9, <2>2
  <2>5. i + 2 \in Nat /\ i + 2 <= i + 2 /\ ~(i + 2 <= i + 1)
    OBVIOUS
  <2>6. Reads(y.parsed, i)
    BY <2>3, <2>4
  <2>7. Parsed(y, i)
    BY <1>1, <1>2, <1>8, <1>9, <2>4, <2>5, <2>6 DEF Parsed
  <2> QED BY <2>7 DEF y
<1>10. CASE ~x.threw /\ i \in FlagPositions /\ Good(i) /\ arg \notin ValueFlags
  <2>1. arg \in BoolFlags /\ arg \notin ValueFlags \cup Inherited
    BY <1>10, FlagsDiffer DEF Good
  <2>2. y = [x EXCEPT !.parsed = SetFlag(x.parsed, arg)]
    BY <1>1, <1>6, <1>10, <2>1
  <2>3. Reads(SetFlag(x.parsed, arg), i)
    BY <1>4, <1>10, <2>1, SetsFlag
  <2> HIDE DEF y
  <2>4. DOMAIN y = DOMAIN x /\ ~y.threw /\ y.resume = x.resume /\ y.parsed = SetFlag(x.parsed, arg)
    BY <1>1, <1>10, <2>2
  <2>5. x.resume \in Nat /\ x.resume <= i + 1 /\ x.resume <= i + 2
    BY <1>4, <1>6, <1>10
  <2>6. Reads(y.parsed, i)
    BY <2>3, <2>4
  <2>7. Parsed(y, i)
    BY <1>1, <1>2, <1>8, <1>10, <2>4, <2>5, <2>6 DEF Parsed
  <2> QED BY <2>7 DEF y
<1> QED BY <1>3, <1>5, <1>7, <1>9, <1>10

LEMMA ParsedThroughout ==
  ASSUME ArgvOK PROVE Parsed(ParseArgs(argv), Len(argv))
<1>1. PICK line : line = argv /\ line \in Seq(STRING)
  BY DEF ArgvOK
<1>2. PICK state : IsParse(state, line) /\ ParseArgs(line) = state[Len(line)]
  BY <1>1, ParseArgsLoops
<1> DEFINE Fine == {n \in Nat : n <= Len(line) => Parsed(state[n], n)}
<1>3. Len(line) \in Nat /\ DOMAIN argv = 1 .. Len(line)
  BY <1>1
<1>4. 0 \in Fine
  BY <1>2, ParsedAtFirst DEF IsParse
<1>5. ASSUME NEW n \in Nat, n \in Fine PROVE n + 1 \in Fine
  <2> SUFFICES ASSUME n + 1 <= Len(line) PROVE Parsed(state[n + 1], n + 1)
    OBVIOUS
  <2>1. n + 1 \in 1 .. Len(line) /\ (n + 1) - 1 = n /\ Parsed(state[n], n)
    BY <1>3, <1>5
  <2>2. state[n + 1] = Turn(argv, state[n], n + 1)
    BY <1>1, <1>2, <2>1 DEF IsParse
  <2>3. Parsed(Turn(argv, state[n], n + 1), n + 1)
    BY <1>3, <2>1, OneTurn
  <2> QED BY <2>2, <2>3
<1>6. Len(line) \in Fine
  <2> HIDE DEF Fine
  <2> QED BY <1>3, <1>4, <1>5, SetInduction
<1> QED BY <1>1, <1>2, <1>3, <1>6

LEMMA MaxIsLast ==
  ASSUME NEW S, S \subseteq Nat, NEW j, IsLast(j, S) PROVE Max(S) = j /\ S # {}
<1>1. j \in S /\ \A k \in S : j >= k
  BY DEF IsLast
<1>2. Max(S) \in S /\ \A k \in S : Max(S) >= k
  BY <1>1 DEF Max
<1>3. Max(S) \in Nat /\ j \in Nat /\ Max(S) >= j /\ j >= Max(S)
  BY <1>1, <1>2
<1> QED BY <1>1, <1>3

\* What parseArgs makes of a command line is what the grammar says of it.
LEMMA ReadRightly ==
  ASSUME ArgvOK
  PROVE  /\ ParseArgs(argv).threw <=> ~WellFormed
         /\ WellFormed => AsWritten(ParseArgs(argv).parsed)
<1> DEFINE n == Len(argv)
<1>1. PICK result : result = ParseArgs(argv)
  OBVIOUS
<1>2. Parsed(result, n)
  BY <1>1, ParsedThroughout
<1>3. FlagPositions \subseteq Nat /\ \A j \in FlagPositions : j \in DOMAIN argv /\ j <= n
  BY PositionsTold DEF ArgvOK
<1>4. result.threw <=> ~WellFormed
  BY <1>2, <1>3 DEF Parsed, WellFormed, Good
<1>5. ASSUME WellFormed PROVE AsWritten(result.parsed)
  <2>1. PICK parsed : parsed = result.parsed
    OBVIOUS
  <2>2. ReadsOnce(parsed.once, n) /\ ReadsEach(parsed.each, n) /\ ReadsToggles(parsed.on, n)
    BY <1>2, <1>4, <1>5, <2>1 DEF Parsed, Reads
  <2>3. \A flag : Occurrences(flag) = Upto({flag}, n)
    BY <1>3 DEF Occurrences, Upto
  <2>4. \A flags : Upto(flags, n) \subseteq Nat
    BY <1>3 DEF Upto
  <2>5. parsed.on = {Field(flag) : flag \in {f \in Toggles : Given(f)}}
    <3>1. {argv[j] : j \in Upto(Toggles, n)} = {f \in Toggles : Given(f)}
      BY <2>3 DEF Given, Upto
    <3>2. \A x \in parsed.on : \E f \in {argv[j] : j \in Upto(Toggles, n)} : x = Field(f)
      BY <2>2 DEF ReadsToggles
    <3>3. \A f \in {argv[j] : j \in Upto(Toggles, n)} : Field(f) \in parsed.on
      BY <2>2 DEF ReadsToggles
    <3> QED BY <3>1, <3>2, <3>3
  <2> DEFINE said == Occurrences("--tsconfig") \cup Occurrences("--no-tsconfig")
  <2>6. parsed.once["--tsconfig"] = CASE said = {} -> "undefined"
                                      [] said # {} /\ argv[Max(said)] = "--tsconfig" -> ValueAt(Max(said))
                                      [] OTHER -> "false"
    <3>1. said = Upto(Switches, n)
      BY <2>3 DEF Upto, Switches
    <3> HIDE DEF said
    <3>2. CASE said = {}
      <4>1. ~ \E j : IsLast(j, said)
        BY <3>2 DEF IsLast
      <4> QED BY <2>2, <3>1, <3>2, <4>1 DEF ReadsOnce
    <3>3. CASE said # {}
      <4>1. PICK j : IsLast(j, said) /\ parsed.once["--tsconfig"] = SaysTsconfig(j)
        BY <2>2, <3>1, <3>3 DEF ReadsOnce
      <4>2. Max(said) = j
        BY <2>4, <3>1, <4>1, MaxIsLast
      <4> QED BY <3>3, <4>1, <4>2 DEF SaysTsconfig
    <3> QED BY <3>2, <3>3
  <2>7. ASSUME NEW flag \in Once \ {"--tsconfig"}
        PROVE  parsed.once[flag] = IF Given(flag) THEN ValueAt(Max(Occurrences(flag))) ELSE "undefined"
    <3>1. CASE Occurrences(flag) = {}
      <4>1. ~ \E j : IsLast(j, Occurrences(flag))
        BY <3>1 DEF IsLast
      <4> QED BY <2>2, <2>3, <3>1, <4>1 DEF Given, ReadsOnce
    <3>2. CASE Occurrences(flag) # {}
      <4>1. PICK j : IsLast(j, Occurrences(flag)) /\ parsed.once[flag] = ValueAt(j)
        BY <2>2, <2>3, <3>2 DEF ReadsOnce
      <4>2. Max(Occurrences(flag)) = j
        BY <2>3, <2>4, <4>1, MaxIsLast
      <4> QED BY <3>2, <4>1, <4>2 DEF Given
    <3> QED BY <3>1, <3>2
  <2>8. \A flag \in Each : Range(parsed.each[flag]) = {ValueAt(i) : i \in Occurrences(flag)}
    BY <2>2, <2>3 DEF ReadsEach
  <2> QED BY <2>1, <2>5, <2>6, <2>7, <2>8 DEF AsWritten
<1> QED BY <1>1, <1>4, <1>5

Result == ParseArgs(argv)

\* What a run that got past its arguments leaves.
Told ==
  /\ stderr => Writes
  /\ wrote => Generates
  /\ Is("--json") /\ ~Is("--help") =>
       Len(stdout) = 1 /\ stdout[1].kind = "json" /\ ~stderr /\ (exitCode = 0 => stdout[1].ok)
  /\ exitCode = 0 /\ ~Is("--help") => onDisk = AllCurrent

CommandInv ==
  /\ argv \in Argvs /\ mode \in {"main", "parsed", "done"}
  /\ mode = "main" => args = NoArgs /\ stdout = <<>> /\ ~stderr /\ ~wrote
  /\ mode = "parsed" => ~IsInit /\ ~Result.threw /\ args = Result.parsed /\ stdout = <<>> /\ ~stderr /\ ~wrote
  /\ mode = "done" /\ IsInit => ~wrote
  /\ mode = "done" /\ ~IsInit =>
       \/ Result.threw /\ stderr /\ args = NoArgs /\ ~wrote /\ exitCode = 1
       \/ ~Result.threw /\ args = Result.parsed /\ Told

LEMMA CommandStarts == CommandInit => CommandInv
  BY DEF CommandInit, CommandStart, CommandInv

\* A step after the arguments were accepted ends the run.
LEMMA EndsTold ==
  ASSUME CommandInv, mode = "parsed", mode' = "done", UNCHANGED <<argv, args>>, Told' PROVE CommandInv'
<1>1. argv' = argv /\ Result' = Result /\ (IsInit' <=> IsInit)
  BY DEF Result, IsInit
<1> QED BY <1>1 DEF CommandInv

LEMMA OnePrint == ASSUME NEW e PROVE LET s == <<>> \o <<e>> IN Len(s) = 1 /\ s[1] = e
  OBVIOUS

LEMMA FailsTold ==
  ASSUME CommandInv, mode = "parsed", Fails, Writes, UNCHANGED args, wrote' => Generates PROVE CommandInv'
<1>1. Is("--json")' = Is("--json") /\ Is("--help")' = Is("--help") /\ (Writes' <=> Writes) /\ (Generates' <=> Generates)
  BY DEF Is, Writes, Generates
<1>2. stdout = <<>> /\ ~stderr
  BY DEF CommandInv
<1>3. CASE Is("--json")
  <2>1. PICK envelope : envelope = Envelope(FALSE)
    OBVIOUS
  <2>2. mode' = "done" /\ stdout' = <<>> \o <<envelope>> /\ exitCode' = 1 /\ argv' = argv /\ ~stderr'
    BY <1>2, <1>3, <2>1 DEF Fails, Exit
  <2>3. Len(stdout') = 1 /\ stdout'[1].kind = "json"
    BY <2>1, <2>2, OnePrint DEF Envelope
  <2>4. Told'
    BY <1>1, <1>3, <2>2, <2>3 DEF Told
  <2> QED BY <2>2, <2>4, EndsTold
<1>4. CASE ~Is("--json")
  <2>1. mode' = "done" /\ exitCode' = 1 /\ argv' = argv
    BY <1>4 DEF Fails, Throw
  <2>2. Told'
    BY <1>1, <1>4, <2>1 DEF Told
  <2> QED BY <2>1, <2>2, EndsTold
<1> QED BY <1>3, <1>4

LEMMA ExitsTold ==
  ASSUME CommandInv, mode = "parsed", NEW e, NEW code, Exit(<<e>>, code), UNCHANGED args, wrote' => Generates,
         Is("--json") /\ ~Is("--help") => e.kind = "json" /\ (code = 0 => e.ok),
         code = 0 /\ ~Is("--help") => onDisk' = AllCurrent
  PROVE  CommandInv'
<1>1. Is("--json")' = Is("--json") /\ Is("--help")' = Is("--help") /\ (Generates' <=> Generates)
  BY DEF Is, Writes, Generates
<1>2. mode' = "done" /\ stdout' = <<>> \o <<e>> /\ exitCode' = code /\ argv' = argv /\ ~stderr'
  BY DEF CommandInv, Exit
<1>3. Len(stdout') = 1 /\ stdout'[1] = e
  BY <1>2, OnePrint
<1>4. Told'
  BY <1>1, <1>2, <1>3 DEF Told
<1> QED BY <1>2, <1>4, EndsTold

LEMMA CommandNextInv == CommandInv /\ [CommandNext]_commandVars => CommandInv'
<1> SUFFICES ASSUME CommandInv, [CommandNext]_commandVars PROVE CommandInv'
  OBVIOUS
<1>1. CASE UNCHANGED commandVars
  <2>1. Told' <=> Told
    BY <1>1 DEF commandVars, Told, Writes, Generates, Is
  <2> QED BY <1>1, <2>1 DEF commandVars, CommandInv, Result, IsInit
<1>2. CASE RunInit
  <2>1. argv' = argv /\ (IsInit' <=> IsInit) /\ IsInit /\ mode' = "done" /\ ~wrote'
    BY <1>2 DEF RunInit, Exit, Throw, IsInit, CommandInv
  <2> QED BY <2>1 DEF CommandInv
<1>3. CASE Parse
  <2>1. argv' = argv /\ (IsInit' <=> IsInit) /\ Result' = Result /\ ~IsInit /\ wrote' = wrote
        /\ mode = "main"
    BY <1>3 DEF Parse, Throw, IsInit, Result
  <2>2. CASE Result.threw
    <3>1. mode' = "done" /\ stderr' /\ exitCode' = 1 /\ args' = args
      BY <1>3, <2>2 DEF Parse, Throw, Result
    <3> QED BY <2>1, <2>2, <3>1 DEF CommandInv
  <2>3. CASE ~Result.threw
    <3>1. mode' = "parsed" /\ args' = Result.parsed /\ UNCHANGED <<stdout, stderr>>
      BY <1>3, <2>3 DEF Parse, Result
    <3> QED BY <2>1, <2>3, <3>1 DEF CommandInv
  <2> QED BY <2>2, <2>3
<1>4. CASE PrintHelp
  <2>1. mode = "parsed" /\ Is("--help") /\ Exit(<<Text>>, 0) /\ args' = args /\ ~wrote'
    BY <1>4 DEF PrintHelp, CommandInv
  <2>2. PICK e, code : e = Text /\ code = 0
    OBVIOUS
  <2> QED BY <2>1, <2>2, ExitsTold
<1>5. CASE EvidenceRequired
  <2>1. PICK e, code : e = (IF Is("--json") THEN Envelope(FALSE) ELSE Text) /\ code = 1
    OBVIOUS
  <2>2. mode = "parsed" /\ Exit(<<e>>, code) /\ args' = args /\ ~wrote'
    <3>1. <<e>> = IF Is("--json") THEN <<Envelope(FALSE)>> ELSE <<Text>>
      BY <2>1
    <3> QED BY <1>5, <2>1, <3>1 DEF EvidenceRequired, CommandInv
  <2>3. Is("--json") => e.kind = "json"
    BY <2>1 DEF Envelope
  <2>4. ~(code = 0)
    BY <2>1
  <2>5. Is("--json") /\ ~Is("--help") => e.kind = "json" /\ (code = 0 => e.ok)
    BY <2>3, <2>4
  <2>6. code = 0 /\ ~Is("--help") => onDisk' = AllCurrent
    BY <2>4
  <2>7. wrote' => Generates
    BY <2>2
  <2>8. mode = "parsed" /\ Exit(<<e>>, code) /\ UNCHANGED args
    BY <2>2
  <2> QED BY <2>5, <2>6, <2>7, <2>8, ExitsTold
<1>6. CASE RunCheck
  <2>1. mode = "parsed" /\ Writes /\ args' = args /\ onDisk' = onDisk /\ ~wrote'
    BY <1>6 DEF RunCheck, CommandInv
  <2>2. CASE Fails
    BY <2>1, <2>2, FailsTold
  <2>3. CASE Exit(<<IF Is("--json") THEN Envelope(TRUE) ELSE Text>>, StaleCode)
    <3>1. PICK e, code : e = (IF Is("--json") THEN Envelope(TRUE) ELSE Text) /\ code = StaleCode
      OBVIOUS
    <3>2. Is("--json") => e.kind = "json" /\ e.ok
      BY <3>1 DEF Envelope
    <3>3. AllCurrent' = AllCurrent
      BY DEF AllCurrent
    <3>4. code = 0 => onDisk' = AllCurrent'
      BY <2>1, <3>1, <3>3 DEF StaleCode
    <3> QED BY <2>1, <2>3, <3>1, <3>2, <3>4, ExitsTold
  <2> QED BY <1>6, <2>2, <2>3 DEF RunCheck
<1>7. CASE RunGenerate
  <2>1. mode = "parsed" /\ Generates /\ Writes /\ args' = args
    BY <1>7 DEF RunGenerate, Generates
  <2>2. CASE Fails
    BY <2>1, <2>2, FailsTold
  <2>3. CASE Exit(<<IF Is("--json") THEN Envelope(TRUE) ELSE Text>>, 0) /\ onDisk' = AllCurrent
    <3>1. PICK e, code : e = (IF Is("--json") THEN Envelope(TRUE) ELSE Text) /\ code = 0
      OBVIOUS
    <3>2. Is("--json") => e.kind = "json" /\ e.ok
      BY <3>1 DEF Envelope
    <3> QED BY <2>1, <2>3, <3>1, <3>2, ExitsTold
  <2> QED BY <1>7, <2>2, <2>3 DEF RunGenerate
<1> QED BY <1>1, <1>2, <1>3, <1>4, <1>5, <1>6, <1>7 DEF CommandNext

\* For every command line of no inherited names: it is read as the help text says,
\* a check writes nothing, whoever asked for JSON gets one envelope, and an exit
\* code of 0 means that the files it compares or writes are up to date.
THEOREM CommandTheorem ==
  ASSUME \A line \in Argvs : Range(line) \cap Harmless = {}
  PROVE  CommandInit /\ [][CommandNext]_commandVars => []CommandsAreHonest
<1>1. CommandInv => CommandsAreHonest
  <2> SUFFICES ASSUME CommandInv PROVE CommandsAreHonest
    OBVIOUS
  <2>1. ArgvOK
    <3>1. argv \in Seq(STRING \ {"undefined", "false"}) /\ Range(argv) \cap Harmless = {}
      BY ArgvsAssumption DEF CommandInv
    <3>2. PICK line : line = argv /\ line \in Seq(STRING \ {"undefined", "false"})
      BY <3>1
    <3>3. line \in Seq(STRING)
      BY <3>2
    <3> QED BY <3>1, <3>2, <3>3 DEF ArgvOK
  <2>2. (Result.threw <=> ~WellFormed) /\ (WellFormed => AsWritten(Result.parsed))
    BY <2>1, ReadRightly DEF Result
  <2>3. ArgumentsReadAsWritten
    <3>1. NoArgs.once["--evidence"] = "undefined"
      BY DEF NoArgs, Once
    <3>2. stderr /\ args = NoArgs => ~Writes
      BY <3>1 DEF Writes
    <3>3. CASE mode = "parsed"
      BY <2>2, <3>3 DEF CommandInv, ArgumentsReadAsWritten
    <3>4. CASE mode = "done"
      BY <2>2, <3>2, <3>4 DEF CommandInv, Told, ArgumentsReadAsWritten
    <3> QED BY <3>3, <3>4 DEF CommandInv, ArgumentsReadAsWritten
  <2>4. AsWritten(args) =>
          /\ Given("--check") => Is("--check")
          /\ Given("--help") => Is("--help")
          /\ Given("--json") => Is("--json")
          /\ Writes => Given("--evidence")
    <3>1. ASSUME AsWritten(args), NEW flag \in {"--check", "--help", "--json"}, Given(flag) PROVE Is(flag)
      <4>1. flag \in Toggles /\ Field(flag) = flag
        BY DEF Toggles, Field
      <4> QED BY <3>1, <4>1 DEF AsWritten, Is
    <3>2. ASSUME AsWritten(args), Writes PROVE Given("--evidence")
      <4>1. "--evidence" \in Once \ {"--tsconfig"}
        BY DEF Once
      <4> QED BY <3>2, <4>1 DEF AsWritten, Writes
    <3> QED BY <3>1, <3>2
  <2>5. CheckWritesNothing
    BY <2>2, <2>4 DEF CommandInv, Told, CheckWritesNothing, Generates
  <2>6. OneEnvelopePerRun
    BY <2>2, <2>4 DEF CommandInv, Told, OneEnvelopePerRun
  <2>7. ZeroMeansCurrent
    BY DEF CommandInv, Told, ZeroMeansCurrent
  <2> QED BY <2>3, <2>5, <2>6, <2>7 DEF CommandsAreHonest
<1> QED BY <1>1, CommandStarts, CommandNextInv, PTL

=============================================================================
