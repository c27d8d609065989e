--------------------------- MODULE TsconfigPaths ---------------------------
(***************************************************************************)
(* One run of a generator, as far as the compiler and the aliases of a     *)
(* project go: the compiler is picked when the module is imported          *)
(* (src/_ipc/typescript.ts), the tsconfig is looked for, read and parsed   *)
(* (src/_ipc/resolve-tsconfig-paths.ts), and imports are resolved one by   *)
(* one through a cache while the user edits the project.                   *)
(***************************************************************************)
EXTENDS Naturals, FiniteSets

CONSTANTS Importers,    \* files
          Specifiers,   \* aliased imports
          MaxEdits      \* bound: the user's edits during a run

VARIABLES installed,    \* module -> what loading it does
          option,       \* the tsconfig option
          config,       \* what is at the path of the tsconfig
          target,       \* specifier -> what the compiler finds for it on disk (external)
          phase,        \* import, stat, read, resolving, failed
          loaded,       \* what loadTsconfigPaths returned
          cache,        \* importer and specifier -> what was resolved
          answers,      \* every answer given in the run (history)
          edits

aliasVars == <<installed, option, config, target, phase, loaded, cache, answers, edits>>

\* Loading a module returns the module, with the classic API or without, or throws:
\* that it is not installed, that something it needs is not, or anything else.
Outcomes == {"classic", "native", "absent", "lacks dependency", "broken"}
Configs  == {"missing", "directory", "unreadable", "malformed", "plain", "paths", "paths and problems"}
Found    == {"nothing", "source", "javascript", "package source"}

NotLoaded == [resolution |-> "undefined", warning |-> "undefined"]

AliasStart(installs, given, file, sources) ==
  /\ installed = installs
  /\ option = given
  /\ config = file
  /\ target = sources
  /\ phase = "import"
  /\ loaded = NotLoaded
  /\ cache = [key \in {} |-> "undefined"]
  /\ answers = {}
  /\ edits = 0

Installs == [{"typescript", "@typescript/typescript6"} -> Outcomes]

AliasInit ==
  \E installs \in Installs, given \in {"off", "default", "explicit"}, file \in Configs, sources \in [Specifiers -> Found] :
    AliasStart(installs, given, file, sources)

\* Mutant: any module that is not found is taken for the one asked for.
IsNotFoundCode(outcome) == outcome \in {"absent", "lacks dependency"}

IsModuleNotFound(outcome) == outcome = "absent"

HasClassicApi(module) == module = "classic"

TryLoad(id) ==
  CASE IsModuleNotFound(installed[id])        -> "undefined"
    [] installed[id] \in {"classic", "native"} -> installed[id]
    [] OTHER                                   -> "throws"

\* The bundled compiler is loaded only if the consumer's has no classic API.
PickCompiler ==
  LET consumer == TryLoad("typescript")
      bundled  == TryLoad("@typescript/typescript6")
  IN  IF HasClassicApi(consumer) \/ consumer = "throws" THEN consumer
      ELSE IF HasClassicApi(bundled) \/ bundled = "throws" THEN bundled
      ELSE consumer

Import ==
  /\ phase = "import"
  /\ phase' = IF PickCompiler = "throws" THEN "failed" ELSE "stat"
  /\ UNCHANGED <<installed, option, config, target, loaded, cache, answers, edits>>

\* Each return of loadTsconfigPaths.
Load(resolution, warning) ==
  /\ phase' = "resolving"
  /\ loaded' = [resolution |-> resolution, warning |-> warning]

IsFile == config \notin {"missing", "directory"}

\* Mutant: a file the option names may be missing too.
MissingIsFine == TRUE

MissingIsSilent == option = "default"

Stat ==
  /\ phase = "stat"
  /\ CASE option = "off"                      -> Load("undefined", "undefined")
       [] option # "off" /\ ~IsFile           -> Load("undefined", IF MissingIsSilent THEN "undefined" ELSE "no file")
       [] OTHER -> phase' = (IF HasClassicApi(PickCompiler) THEN "read" ELSE "failed") /\ UNCHANGED loaded
  /\ UNCHANGED <<installed, option, config, target, cache, answers, edits>>

\* The text is read once and parsed; what did parse is used whatever the compiler reports.
Read ==
  /\ phase = "read"
  /\ CASE config \in {"missing", "directory", "unreadable"} -> Load("undefined", "not read")
       [] config = "malformed"          -> Load("undefined", "not parsed")
       [] config = "plain"              -> Load("undefined", "undefined")
       [] config = "paths"              -> Load("paths", "undefined")
       [] config = "paths and problems" -> Load("paths", "problems")
  /\ UNCHANGED <<installed, option, config, target, cache, answers, edits>>

IsLocalSource(found) == found = "source"

\* Mutant: nothing is remembered.
NoKeys == {}

CachedKeys == DOMAIN cache

\* resolveAliasImport; each edit leaves another file behind a specifier.
ResolveAliasImport(file, specifier) ==
  LET key      == <<file, specifier>>
      fresh    == IF IsLocalSource(target[specifier]) THEN <<target[specifier], edits>> ELSE <<"undefined">>
      resolved == IF key \in CachedKeys THEN cache[key] ELSE fresh
  IN  /\ phase = "resolving" /\ loaded.resolution # "undefined"
      /\ cache' = [k \in DOMAIN cache \cup {key} |-> IF k = key THEN resolved ELSE cache[k]]
      /\ answers' = answers \cup {[key |-> key, to |-> resolved]}
      /\ UNCHANGED <<installed, option, config, target, phase, loaded, edits>>

\* The user edits the project while the run is on.
Edit ==
  /\ edits < MaxEdits /\ phase \notin {"import", "failed"}
  /\ edits' = edits + 1
  /\ \/ config' \in Configs /\ UNCHANGED target
     \/ \E s \in Specifiers, f \in Found : target' = [target EXCEPT ![s] = f] /\ UNCHANGED config
  /\ UNCHANGED <<installed, option, phase, loaded, cache, answers>>

AliasNext ==
  \/ Import \/ Stat \/ Read \/ Edit
  \/ \E file \in Importers, specifier \in Specifiers : ResolveAliasImport(file, specifier)

-----------------------------------------------------------------------------
\* The program runs with a compiler other than the user's only because the user's
\* is not there or cannot do the work, never because it is damaged, and parses
\* nothing without the classic API (pickCompiler, tryLoad, assertCompilerApi).
DamageIsNeverHidden ==
  /\ phase \notin {"import", "failed"} => installed["typescript"] \notin {"broken", "lacks dependency"}
  /\ phase = "read" => "classic" \in {installed[id] : id \in DOMAIN installed}

\* A tsconfig the user names is never ignored in silence: either its aliases are
\* used, or it has none, or there is a warning, whatever happens to the file while
\* it is being read; one nobody named and that is not there is not worth a warning,
\* nor a compiler (loadTsconfigPaths).
NamedConfigIsNotIgnored ==
  /\ phase = "resolving" /\ option = "explicit" /\ edits = 0 /\ config # "plain" =>
       loaded.resolution # "undefined" \/ loaded.warning # "undefined"
  /\ option # "explicit" /\ config = "missing" /\ edits = 0 =>
       loaded = NotLoaded /\ (phase = "failed" => PickCompiler = "throws")

\* Whatever is edited meanwhile, one file's import of one name goes to one place
\* in a run, and each file of the project sees the project's own sources only
\* (resolveAliasImport and its cache).
OneAnswerPerImport ==
  \A a, b \in answers :
    /\ a.key = b.key => a.to = b.to
    /\ a.to[1] \in {"source", "undefined"}
=============================================================================
