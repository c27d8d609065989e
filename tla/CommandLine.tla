---------------------------- MODULE CommandLine ----------------------------
(***************************************************************************)
(* The data-cap command (src/cli/index.ts, src/cli/json.ts): the loop of   *)
(* parseArgs, the dispatch of main, and what a check and a generation      *)
(* print, write and exit with.  The build the command calls is external:   *)
(* it fails, or reports, or writes.  An argument is a token.               *)
(***************************************************************************)
EXTENDS SequencesExt, Naturals

CONSTANTS Argvs,  \* the command lines to read
          Days    \* the tokens Number() reads as a whole number of days

VARIABLES argv,
          mode,      \* where main() is
          args,      \* what parseArgs returned
          stdout,    \* what was printed, in order
          stderr,    \* an error was printed there
          exitCode,
          onDisk,    \* the files the run writes: what it would write, or something else
          wrote      \* this run wrote one

commandVars == <<argv, mode, args, stdout, stderr, exitCode, onDisk, wrote>>

\* What a run with --evidence writes and a check compares, in this order; a file
\* that is missing or unreadable is stale too.
Artifacts  == {"snapshot", "evidence"}
AllCurrent == [a \in Artifacts |-> "current"]

\* Arguments are strings, other than those that stand for undefined and false.
ASSUME ArgvsAssumption == \A line \in Argvs : line \in Seq(STRING \ {"undefined", "false"})

\* The flags, by what they set: a field goes by the name of its flag, and those
\* that are true or false are a set of the true ones.
Once    == {"--root", "--tsconfig", "--evidence", "--expiring-within-days"}
Each    == {"--include", "--exclude", "--package"}
Toggles == {"--strict", "--strict-docs", "--strict-ownership", "--strict-flow", "--json", "--check",
            "--help", "-h"}

ValueFlags == Once \cup Each
BoolFlags  == Toggles \cup {"--no-tsconfig"}

\* What every object inherits, and the flag tables too: functions that return
\* when called, and those (and the prototype) that throw.
Harmless  == {"toString", "constructor"}
Inherited == Harmless \cup {"valueOf", "__proto__"}

NoArgs ==
  [once |-> [flag \in Once |-> "undefined"], each |-> [flag \in Each |-> <<>>], on |-> {}]

Field(toggle) == IF toggle = "-h" THEN "--help" ELSE toggle

SetFlag(parsed, flag) ==
  IF flag = "--no-tsconfig" THEN [parsed EXCEPT !.once["--tsconfig"] = "false"]
  ELSE [parsed EXCEPT !.on = @ \cup {Field(flag)}]

SetValue(parsed, flag, value) ==
  CASE flag \in Once -> [parsed EXCEPT !.once[flag] = value]
    [] flag \in Each -> [parsed EXCEPT !.each[flag] = Append(@, value)]
    [] OTHER         -> parsed

\* nonEmpty and positiveInteger; an inherited function may itself throw.
Refuses(flag, value) ==
  \/ value \in {"undefined", ""}
  \/ flag = "--expiring-within-days" /\ value \notin Days
  \/ flag \in Inherited \ Harmless

\* Mutant: the argument a value flag consumed is read again.
ResumeAtValue(i) == i + 1

ResumeAfter(i) == i + 2

\* One turn of the loop of parseArgs.
Turn(line, state, i) ==
  LET arg   == line[i]
      value == IF i < Len(line) THEN line[i + 1] ELSE "undefined"
  IN  IF state.threw \/ i < state.resume THEN state
      ELSE CASE arg \in ValueFlags \cup Inherited ->
                  IF Refuses(arg, value) THEN [state EXCEPT !.threw = TRUE]
                  ELSE [state EXCEPT !.parsed = SetValue(@, arg, value), !.resume = ResumeAfter(i)]
             [] arg \in BoolFlags -> [state EXCEPT !.parsed = SetFlag(@, arg)]
             [] OTHER             -> [state EXCEPT !.threw = TRUE]

ParseArgs(line) ==
  LET state[i \in 0 .. Len(line)] ==
        IF i = 0 THEN [parsed |-> NoArgs, resume |-> 1, threw |-> FALSE] ELSE Turn(line, state[i - 1], i)
  IN  state[Len(line)]

-----------------------------------------------------------------------------
CommandStart(line, disk) ==
  /\ argv = line
  /\ mode = "main"
  /\ args = NoArgs
  /\ stdout = <<>> /\ stderr = FALSE /\ exitCode = 0
  /\ onDisk = disk /\ wrote = FALSE

CommandInit ==
  \E line \in Argvs, disk \in [Artifacts -> {"stale", "current"}] : CommandStart(line, disk)

\* What is printed: the text for a reader, or one envelope for a program.
Text         == [kind |-> "text"]
Envelope(ok) == [kind |-> "json", ok |-> ok]

Exit(prints, code) ==
  /\ mode' = "done"
  /\ stdout' = stdout \o prints
  /\ exitCode' = code
  /\ UNCHANGED <<argv, stderr>>

\* The rejection handler of main().
Throw ==
  /\ mode' = "done" /\ stderr' = TRUE /\ exitCode' = 1
  /\ UNCHANGED <<argv, stdout>>

IsInit == argv # <<>> /\ Head(argv) = "init"
Asks   == Range(argv) \cap {"--help", "-h"} # {}

\* runInitCommand; runInit itself succeeds or throws (Scaffold.tla).
RunInit ==
  /\ mode = "main" /\ IsInit
  /\ \/ (Asks \/ Len(argv) = 1) /\ Exit(<<Text>>, 0)
     \/ ~Asks /\ Throw
  /\ UNCHANGED <<args, onDisk, wrote>>

Parse ==
  /\ mode = "main" /\ ~IsInit
  /\ LET result == ParseArgs(argv)
     IN  IF result.threw THEN Throw /\ UNCHANGED args
         ELSE mode' = "parsed" /\ args' = result.parsed /\ UNCHANGED <<argv, stdout, stderr, exitCode>>
  /\ UNCHANGED <<onDisk, wrote>>

\* What was asked for.
Is(toggle) == toggle \in args.on
Writes     == args.once["--evidence"] # "undefined"

PrintHelp ==
  /\ mode = "parsed" /\ Is("--help")
  /\ Exit(<<Text>>, 0)
  /\ UNCHANGED <<args, onDisk, wrote>>

EvidenceRequired ==
  /\ mode = "parsed" /\ ~Is("--help") /\ ~Writes
  /\ Exit(IF Is("--json") THEN <<Envelope(FALSE)>> ELSE <<Text>>, 1)
  /\ UNCHANGED <<args, onDisk, wrote>>

\* Mutant: the failure is printed and the run goes on to its own summary.
FallThrough == IF Is("--json") THEN Exit(<<Envelope(FALSE), Envelope(TRUE)>>, 1) ELSE Throw

\* The build threw.
Fails == IF Is("--json") THEN Exit(<<Envelope(FALSE)>>, 1) ELSE Throw

\* Mutant: a check asks for the evidence only.
WantsGenerate == ~Is("--help") /\ Writes /\ (~Is("--check") \/ Is("--json"))

Generates == ~Is("--help") /\ Writes /\ ~Is("--check")

\* Mutant: the exit code of a check is that of a generation.
CheckedCode == 0

\* checkArtifacts: one stale file is enough.
StaleCode == IF onDisk = AllCurrent THEN 0 ELSE 1

\* runCheck: nothing is written, whatever is stale.
RunCheck ==
  /\ mode = "parsed" /\ ~Is("--help") /\ Writes /\ Is("--check")
  /\ \/ Fails
     \/ Exit(<<IF Is("--json") THEN Envelope(TRUE) ELSE Text>>, StaleCode)
  /\ UNCHANGED <<args, onDisk, wrote>>

\* runGenerate: an error may come before anything is written, between the two
\* files, or after them (the fingerprint, which no check looks at).
RunGenerate ==
  /\ mode = "parsed" /\ Generates
  /\ \/ Fails /\ UNCHANGED <<onDisk, wrote>>
     \/ Fails /\ onDisk' = [onDisk EXCEPT !["snapshot"] = "current"] /\ wrote' = TRUE
     \/ Fails /\ onDisk' = AllCurrent /\ wrote' = TRUE
     \/ Exit(<<IF Is("--json") THEN Envelope(TRUE) ELSE Text>>, 0) /\ onDisk' = AllCurrent /\ wrote' = TRUE
  /\ UNCHANGED args

CommandNext == RunInit \/ Parse \/ PrintHelp \/ EvidenceRequired \/ RunCheck \/ RunGenerate

-----------------------------------------------------------------------------
\* The grammar of the help text, said without a loop: the first position holds a
\* flag, and every other one but those that hold the value of the flag before.
FlagPositions ==
  CHOOSE positions \in SUBSET DOMAIN argv :
    \A i \in DOMAIN argv :
      i \in positions <=> i = 1 \/ ~(i - 1 \in positions /\ argv[i - 1] \in ValueFlags)

Occurrences(flag) == {i \in FlagPositions : argv[i] = flag}
Given(flag) == Occurrences(flag) # {}
ValueAt(i) == IF i < Len(argv) THEN argv[i + 1] ELSE "undefined"

WellFormed ==
  \A i \in FlagPositions :
    /\ argv[i] \in ValueFlags \cup BoolFlags
    /\ argv[i] \in ValueFlags => ValueAt(i) \notin {"undefined", ""}
    /\ argv[i] = "--expiring-within-days" => ValueAt(i) \in Days

\* Every flag counts once, the last value of a single flag stands and those of a
\* repeatable one add up.
AsWritten(parsed) ==
  /\ parsed.on = {Field(flag) : flag \in {f \in Toggles : Given(f)}}
  /\ LET said == Occurrences("--tsconfig") \cup Occurrences("--no-tsconfig")
     IN  parsed.once["--tsconfig"] = CASE said = {} -> "undefined"
                                       [] said # {} /\ argv[Max(said)] = "--tsconfig" -> ValueAt(Max(said))
                                       [] OTHER -> "false"
  /\ \A flag \in Once \ {"--tsconfig"} :
       parsed.once[flag] = IF Given(flag) THEN ValueAt(Max(Occurrences(flag))) ELSE "undefined"
  /\ \A flag \in Each : Range(parsed.each[flag]) = {ValueAt(i) : i \in Occurrences(flag)}

\* The command line is read as the help text says: it is refused iff it is
\* ill-formed, and what is accepted is what is written (parseArgs).
ArgumentsReadAsWritten ==
  mode # "main" /\ ~IsInit =>
    /\ ~WellFormed <=> (stderr /\ args = NoArgs)
    /\ WellFormed => AsWritten(args)

\* A run asked to check, in whatever company and order of flags, writes nothing
\* (the promise of --check in the help text, for main and runCheck).
CheckWritesNothing == wrote => ~Given("--check") /\ ~Given("--help") /\ Given("--evidence")

\* A program that asked for JSON and whose arguments were accepted reads exactly
\* one envelope and nothing on the error stream, however the build fails, and the
\* exit code is 0 only if the envelope tells of a success (runCheck, runGenerate).
OneEnvelopePerRun ==
  mode = "done" /\ ~IsInit /\ WellFormed /\ Given("--json") /\ ~Is("--help") =>
    /\ Len(stdout) = 1 /\ stdout[1].kind = "json" /\ ~stderr
    /\ exitCode = 0 => stdout[1].ok

\* A run that exits with 0 leaves every file it is answerable for as it computed
\* it, the snapshot no less than the evidence, unless it was only asked for help
\* or to scaffold: neither a build that failed between the two nor a stale check
\* passes (the exit codes of main, runCheck and runGenerate).
ZeroMeansCurrent == mode = "done" /\ exitCode = 0 /\ ~IsInit /\ ~Is("--help") => onDisk = AllCurrent

\* All of these: what is asked for is what is done, and what is done is what a
\* script that started the command is told.
CommandsAreHonest ==
  ArgumentsReadAsWritten /\ CheckWritesNothing /\ OneEnvelopePerRun /\ ZeroMeansCurrent
=============================================================================
