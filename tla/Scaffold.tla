------------------------------ MODULE Scaffold ------------------------------
(***************************************************************************)
(* data-cap init (src/cli/init.ts): two files are created where there is   *)
(* none.  Each synchronous call is one step, so that a second init, a      *)
(* crash and the user come between any two of them.                        *)
(***************************************************************************)
EXTENDS FiniteSets, Naturals, Sequences

CONSTANTS Inits,        \* runs of the command
          MaxDisturbed  \* bound: how often the user changes the project

VARIABLES entry,      \* path -> what is there
          before,     \* the project as it was (history)
          process,    \* run -> the calls it has to make and what it has found
          disturbed   \* the user's changes so far

scaffoldVars == <<entry, before, process, disturbed>>

Absent == [kind |-> "absent"]
Dir    == [kind |-> "directory"]
File(by, content) == [kind |-> "file", by |-> by, content |-> content]
Theirs == File("user", "sound")

Generator == "scripts/generate-data.mjs"
Places     == {"package.json", "src", "data.ts", "src/data.ts", "scripts", Generator}
Parent(path) ==
  CASE path = "src/data.ts" -> "src" [] path = Generator -> "scripts" [] OTHER -> "."
Reachable(entries, path) == Parent(path) # "." => entries[Parent(path)] = Dir

Do(op, path) == [op |-> op, path |-> path]

\* assertIsProject and capabilityDirectory.
Preflight == << Do("parse", "package.json"), Do("seek", "src"), Do("choose", "src") >>

\* Mutant: each target is checked when its turn has come.
PlanInTurn(capability) ==
  << Do("exists", capability), Do("isFile", capability),
     Do("mkdir", capability), Do("create", capability), Do("fill", capability),
     Do("exists", Generator), Do("isFile", Generator), Do("exists", "scripts"), Do("isDirectory", "scripts"),
     Do("mkdir", Generator), Do("create", Generator), Do("fill", Generator) >>

\* planTargets, then writeIfAbsent of each target.
Plan(capability) ==
  << Do("exists", capability), Do("isFile", capability), Do("exists", Generator), Do("isFile", Generator),
     Do("exists", "scripts"), Do("isDirectory", "scripts"),
     Do("mkdir", capability), Do("create", capability), Do("fill", capability),
     Do("mkdir", Generator), Do("create", Generator), Do("fill", Generator) >>

\* A project: a package.json, and anything at the other paths.
Projects ==
  {e \in [Places -> {Absent, Dir, Theirs}] :
     e["package.json"] = Theirs /\ \A path \in Places : ~Reachable(e, path) => e[path] = Absent}

ScaffoldStart(project) ==
  /\ entry = project /\ before = project
  /\ process = [p \in Inits |-> [todo |-> Preflight, end |-> "none", created |-> {}, skipped |-> {}]]
  /\ disturbed = 0

ScaffoldInit == \E project \in Projects : ScaffoldStart(project)

Step(p)   == Head(process[p].todo)
Running(p) == process[p].end = "none" /\ process[p].todo # <<>>
Reaches(p, op) == Running(p) /\ Step(p).op = op
There(p)   == entry[Step(p).path]

Goes(p, todo) == process' = [process EXCEPT ![p].todo = todo]
Continue(p)   == Goes(p, Tail(process[p].todo))
SkipNext(p)   == Goes(p, Tail(Tail(process[p].todo)))
Ends(p, how)  == process' = [process EXCEPT ![p].end = how]

AssertIsProject(p) ==
  /\ Reaches(p, "parse")
  /\ IF There(p) = Theirs THEN Continue(p) ELSE Ends(p, "failed")
  /\ UNCHANGED <<entry, before, disturbed>>

Seek(p) ==
  /\ Reaches(p, "seek")
  /\ IF There(p) = Absent THEN Goes(p, Plan("data.ts")) ELSE Continue(p)
  /\ UNCHANGED <<entry, before, disturbed>>

\* statSync throws for what has vanished since existsSync saw it.
ChooseDirectory(p) ==
  /\ Reaches(p, "choose")
  /\ CASE There(p) = Absent -> Ends(p, "failed")
       [] There(p) = Dir    -> Goes(p, Plan("src/data.ts"))
       [] OTHER             -> Goes(p, Plan("data.ts"))
  /\ UNCHANGED <<entry, before, disturbed>>

Exists(p) ==
  /\ Reaches(p, "exists")
  /\ IF There(p) = Absent THEN SkipNext(p) ELSE Continue(p)
  /\ UNCHANGED <<entry, before, disturbed>>

CheckKind(p) ==
  /\ Reaches(p, "isFile") \/ Reaches(p, "isDirectory")
  /\ IF There(p) # Absent /\ (There(p) = Dir <=> Step(p).op = "isDirectory")
     THEN Continue(p) ELSE Ends(p, "failed")
  /\ UNCHANGED <<entry, before, disturbed>>

Mkdir(p) ==
  /\ Reaches(p, "mkdir")
  /\ LET dir == Parent(Step(p).path)
     IN CASE dir = "."                  -> Continue(p) /\ UNCHANGED entry
          [] dir # "." /\ entry[dir] = Absent -> Continue(p) /\ entry' = [entry EXCEPT ![dir] = Dir]
          [] dir # "." /\ entry[dir] = Dir    -> Continue(p) /\ UNCHANGED entry
          [] OTHER                      -> Ends(p, "failed") /\ UNCHANGED entry
  /\ UNCHANGED <<before, disturbed>>

Skip(p) ==
  process' = [process EXCEPT ![p].todo = Tail(Tail(@)), ![p].skipped = @ \cup {Step(p).path}]

\* Mutant: a file that is there is written over.
TakenByDirectory(p) == entry[Step(p).path] = Dir

\* writeFileSync with "wx": an entry that is there, a directory too, is EEXIST.
Taken(p) == entry[Step(p).path] # Absent

Create(p) ==
  /\ Reaches(p, "create")
  /\ CASE ~Reachable(entry, Step(p).path) -> Ends(p, "failed") /\ UNCHANGED entry
       [] Taken(p) /\ Reachable(entry, Step(p).path) -> Skip(p) /\ UNCHANGED entry
       [] OTHER -> Continue(p) /\ entry' = [entry EXCEPT ![Step(p).path] = File(p, "empty")]
  /\ UNCHANGED <<before, disturbed>>

\* The content goes to the file that was opened, wherever that is by now.
Fill(p) ==
  /\ Reaches(p, "fill")
  /\ LET path == Step(p).path
     IN  /\ entry' = IF There(p) = File(p, "empty") THEN [entry EXCEPT ![path] = File(p, "sound")] ELSE entry
         /\ process' = [process EXCEPT ![p].todo = Tail(@), ![p].created = @ \cup {path}]
  /\ UNCHANGED <<before, disturbed>>

\* The process dies, or a call fails for want of space or of rights.
Die(p) ==
  /\ Running(p) /\ Ends(p, "broke")
  /\ UNCHANGED <<entry, before, disturbed>>

Report(p) ==
  /\ process[p].end = "none" /\ process[p].todo = <<>>
  /\ Ends(p, "done")
  /\ UNCHANGED <<entry, before, disturbed>>

\* The user creates, replaces or removes something, a directory with what it holds.
Disturb ==
  \E path \in Places, e \in {Absent, Dir, Theirs, File("user", "malformed")} :
    /\ disturbed < MaxDisturbed
    /\ Reachable(entry, path) /\ e # entry[path]
    /\ entry' = [q \in Places |-> IF q = path THEN e
                                 ELSE IF Parent(q) = path /\ e # Dir THEN Absent ELSE entry[q]]
    /\ disturbed' = disturbed + 1
    /\ UNCHANGED <<before, process>>

ScaffoldNext ==
  \/ \E p \in Inits :
       \/ AssertIsProject(p) \/ Seek(p) \/ ChooseDirectory(p) \/ Exists(p) \/ CheckKind(p) \/ Mkdir(p)
       \/ Create(p) \/ Fill(p) \/ Die(p) \/ Report(p)
  \/ Disturb

-----------------------------------------------------------------------------
\* An init never touches an entry that was there when it came to it: only the
\* user changes one, or the run that has just created it and fills it
\* (writeIfAbsent, "An existing file is never touched").
NeverOverwrites ==
  [][\A path \in Places :
       entry[path] # Absent /\ entry'[path] # entry[path] =>
         \/ disturbed' # disturbed
         \/ \E p \in Inits : entry[path] = File(p, "empty") /\ entry'[path] = File(p, "sound")]_scaffoldVars

\* Left alone, and unless a run dies, runs that overlap agree: either every one
\* of them was refused and the project is as it was, or every one succeeded and
\* each target is there and complete (planTargets, "A failure here means zero writes").
AllOrNothing ==
  (disturbed = 0 /\ \A p \in Inits : process[p].end \in {"done", "failed"}) =>
    \/ entry = before /\ \A p \in Inits : process[p].end = "failed"
    \/ /\ \A p \in Inits : process[p].end = "done"
       /\ \A p \in Inits : \A path \in process[p].created \cup process[p].skipped :
            entry[path].kind = "file" /\ entry[path].content = "sound"
       /\ \A p \in Inits : Cardinality(process[p].created \cup process[p].skipped) = 2

\* However two runs race, a file is reported as created by one of them, by both
\* only if the user removed it in between; a run reports each target once
\* (writeIfAbsent and the report).
CreatedOnce ==
  /\ disturbed = 0 => \A p, q \in Inits : p # q => process[p].created \cap process[q].created = {}
  /\ \A p \in Inits : process[p].created \cap process[p].skipped = {}

\* All of these: nothing of the user's is lost, nothing is left half done, and
\* nobody is told that he made what somebody else did.
ScaffoldIsSafe == NeverOverwrites /\ [](AllOrNothing /\ CreatedOnce)
=============================================================================
