----------------------------- MODULE Publishing -----------------------------
(***************************************************************************)
(* What a generated file says of paths and of itself: displayPath and its  *)
(* inverse (src/_ipc/display-path.ts), and the marker that tells a         *)
(* generated file from a written one (src/_ipc/generated-banner.ts).  A    *)
(* path is a drive, or none for a relative one, and segments, written with *)
(* the platform's separator or with slashes.  What the tools call things   *)
(* is told here as a whole, the imports of TsconfigPaths included.         *)
(***************************************************************************)
EXTENDS TsconfigPaths, SequencesExt

CONSTANTS Drives,
          Segs,         \* names of directories and files
          MaxDepth,     \* bound: the segments of a path
          MarkerLines,  \* how many lines that are not empty are looked at: 20
          MaxPreamble   \* bound: the lines before the marker

\* A relative path is on no drive.
ASSUME DrivesAssumption == "relative" \notin Drives
ASSUME BoundsAssumption == MaxPreamble \in Nat /\ MaxDepth \in Nat

VARIABLE published

NoPublication == [of |-> "nothing"]

Relative == "relative"
Path(drive, segs, sep) == [drive |-> drive, segs |-> segs, sep |-> sep]
PathsOn(drives, depth) ==
  {Path(d, s, "native") : d \in drives, s \in UNION {[1 .. n -> Segs \cup {".."}] : n \in 0 .. depth}}
IsAbsolute(p) == p.drive # Relative
Slashes(p)    == [p EXCEPT !.sep = "/"]

\* A line, its indentation left out: empty, the marker as a comment of either
\* syntax, a line that quotes it, or any other.
Lines == {"empty", "// marker", "<!-- marker", "quotes it", "other"}

PublicationInit == published = NoPublication

AskPath ==
  \E cwd \in PathsOn(Drives, 1) : \E root \in PathsOn(Drives \cup {Relative}, 2), file \in PathsOn(Drives \cup {Relative}, MaxDepth) :
    published' = [of |-> "path", cwd |-> cwd, root |-> root, file |-> file]
AskGenerated ==
  \E n \in 0 .. MaxPreamble : \E content \in [1 .. n -> Lines] :
    published' = [of |-> "content", lines |-> content]
PublicationNext == published = NoPublication /\ (AskPath \/ AskGenerated)

-----------------------------------------------------------------------------
\* node:path (external): normalization, resolve and relative.
Walk(at, seg) ==
  IF seg # ".." THEN Append(at, seg) ELSE IF at = <<>> THEN at ELSE Front(at)

Normal(segs) ==
  LET at[i \in 0 .. Len(segs)] == IF i = 0 THEN <<>> ELSE Walk(at[i - 1], segs[i])
  IN  at[Len(segs)]

Resolve(base, p) ==
  IF IsAbsolute(p) THEN Path(p.drive, Normal(p.segs), "native")
  ELSE Path(base.drive, Normal(base.segs \o p.segs), "native")

RelativeTo(from, to) ==
  IF from.drive # to.drive THEN to
  ELSE LET shared == Len(LongestCommonPrefix({from.segs, to.segs}))
       IN  Path(Relative, [i \in 1 .. Len(from.segs) - shared |-> ".."] \o SubSeq(to.segs, shared + 1, Len(to.segs)), "native")

ClimbsOut(p) == p.segs # <<>> /\ p.segs[1] = ".."

DisplayPath(cwd, root, file) ==
  LET relative == RelativeTo(Resolve(cwd, root), Resolve(cwd, file))
  IN  CASE ~IsAbsolute(file)                             -> Slashes(file)
        [] IsAbsolute(file) /\ (ClimbsOut(relative) \/ IsAbsolute(relative)) -> file
        [] OTHER                                         -> Slashes(relative)

AbsolutePathFrom(cwd, root, file) == Resolve(Resolve(cwd, root), file)

-----------------------------------------------------------------------------
Written(lines) == {i \in DOMAIN lines : lines[i] # "empty"}

\* The lines the scan of isGeneratedFile gets to.
Seen(lines) == {i \in Written(lines) : Cardinality({j \in Written(lines) : j < i}) < MarkerLines}

OpensWithMarker(line) == line \in {"// marker", "<!-- marker"}

IsGeneratedFile(lines) == \E i \in Seen(lines) : OpensWithMarker(lines[i])

\* The first line of every file a generator writes.
GeneratedBanner(format) == [ts |-> "// marker", markdown |-> "<!-- marker"][format]

-----------------------------------------------------------------------------
\* A published path names the file it was made from, wherever the working
\* directory is; publishing it again changes nothing; and a file inside the root
\* is published alike from every checkout, one outside by the path it was found
\* at (displayPath and absolutePathFrom, "idempotent", "the inverse of").
PublishedPathsAreFaithful ==
  published.of = "path" =>
    LET p == published
        shown == DisplayPath(p.cwd, p.root, p.file)
        home  == Resolve(p.cwd, p.root)
    IN  /\ IsAbsolute(p.file) => AbsolutePathFrom(p.cwd, p.root, shown) = Resolve(p.cwd, p.file)
        /\ DisplayPath(p.cwd, p.root, shown) = shown
        /\ IsAbsolute(p.file) =>
             (IF home.drive = p.file.drive /\ IsPrefix(home.segs, Normal(p.file.segs))
              THEN shown = Slashes(Path(Relative, SubSeq(Normal(p.file.segs), Len(home.segs) + 1, Len(Normal(p.file.segs))), "native"))
              ELSE shown = p.file)

\* A generated file is known as such whatever preamble is put above it, of fewer
\* lines than are looked at; a file that only quotes the marker never is, so that
\* what it imports counts as used (isGeneratedFile, generatedBanner).
GeneratedFilesAreKnown ==
  published.of = "content" =>
    LET below(format) == Append(published.lines, GeneratedBanner(format))
    IN  /\ \A format \in {"ts", "markdown"} :
             Cardinality(Written(published.lines)) < MarkerLines => IsGeneratedFile(below(format))
        /\ IsGeneratedFile(published.lines) => \E i \in DOMAIN published.lines : published.lines[i] \in {"// marker", "<!-- marker"}

\* What a file or an import is called is the same for every tool that asks: a
\* damaged or missing tsconfig is never taken for one without aliases, an import
\* has one answer per run, a published path and a generated file are recognised
\* again (module resolution, display-path.ts, generated-banner.ts).
NamesAreFaithful ==
  /\ DamageIsNeverHidden /\ NamedConfigIsNotIgnored /\ OneAnswerPerImport
  /\ PublishedPathsAreFaithful /\ GeneratedFilesAreKnown
=============================================================================
