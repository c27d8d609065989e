----------------------------- MODULE GlobRules -----------------------------
(***************************************************************************)
(* globToRegExp and the allow list of a lint rule (src/_ipc/glob.ts), and  *)
(* the rule that uses it, no-node-fs (src/_ipc/no-node-fs.ts).  Patterns   *)
(* and names are sequences of characters, an expression is a sequence of   *)
(* terms.  A behaviour chooses one question.                               *)
(***************************************************************************)
EXTENDS SequencesExt, Naturals

CONSTANTS Patterns,     \* globs
          AllowPatterns, \* those of an allow list
          FileNames,    \* names relative to a working directory
          Cwds          \* working directories

\* Paths and patterns are text; names are written with slashes.
ASSUME TextAssumption ==
  /\ Patterns \cup AllowPatterns \cup FileNames \cup Cwds \subseteq Seq(STRING)
  /\ \A name \in FileNames : \A i \in DOMAIN name : name[i] # "\\"
  /\ <<>> \notin Cwds

VARIABLE lint

NoLint == [of |-> "nothing"]

\* A file lies in or next to the working directory, named as the platform does.
Separators == {"/", "\\"}

\* A filesystem root already ends in its separator; anything else is followed by one.
Base(cwd) == IF cwd # <<>> /\ Last(cwd) \in Separators THEN Front(cwd) ELSE cwd

CharAt(s, i) == IF i \in DOMAIN s THEN s[i] ELSE ""

\* One directory is the other, or holds it.
Within(cwd, dir) ==
  IsPrefix(Base(cwd), dir) /\ (dir = Base(cwd) \/ CharAt(dir, Len(Base(cwd)) + 1) \in Separators)

\* A callee as it is written: a name, o.p, o["p"], or something else that is
\* called, such as createRequire(url).
Callee(shape, object, property) == [shape |-> shape, object |-> object, property |-> property]
Callees ==
  {Callee("name", "none", "require"), Callee("name", "none", "r"), Callee("other", "none", "none"),
   Callee("member", "process", "getBuiltinModule"), Callee("member", "process", "exit"),
   Callee("member", "other", "getBuiltinModule"), Callee("member", "module", "require"),
   Callee("computed", "process", "getBuiltinModule")}

\* The statements of a program that may load a module: with `type`, one that is
\* gone when the program runs; `loader`, whether what is called is a function
\* that loads modules, whatever its name; `spelled`, how the module is named.
Declarations == {"import", "export", "export all", "import equals"}
Spelled      == {"literal", "template", "template with value", "variable", "none"}
Modules      == {"fs", "node:fs", "fs/promises", "node:fs/promises", "fs-extra", "path"}
LoadStatements ==
  [form : Declarations, typeOnly : BOOLEAN, loader : {TRUE}, callee : {"none"}, spelled : {"literal", "none"}]
  \cup [form : {"import()"}, typeOnly : {FALSE}, loader : {TRUE}, callee : {"none"}, spelled : Spelled \ {"none"}]
  \cup [form : {"call"}, typeOnly : {FALSE}, loader : BOOLEAN, callee : Callees, spelled : Spelled]

LintInit == lint = NoLint

AskMatch == lint' \in {[of |-> "match", pattern |-> p, name |-> n] : p \in Patterns, n \in FileNames}
AskAllow ==
  \E cwd, other \in Cwds, sep \in Separators :
    /\ cwd = other \/ ~(Within(cwd, other) \/ Within(other, cwd))
    /\ lint' \in {[of |-> "allow", pattern |-> p, name |-> n, cwd |-> cwd, file |-> other, sep |-> sep] :
                    p \in AllowPatterns, n \in FileNames}
AskLoad ==
  lint' \in {[of |-> "load", statement |-> s, names |-> m, allowed |-> a] :
               s \in LoadStatements, m \in Modules, a \in BOOLEAN}

LintNext == lint = NoLint /\ (AskMatch \/ AskAllow \/ AskLoad)

-----------------------------------------------------------------------------
\* Terms of an expression: a character, [^/]*, .*, (?:.*/)? and [^/].
Lit(c) == [term |-> "char", char |-> c]
Term(t) == [term |-> t]

IsDirectories(pattern, i) ==
  /\ i = 1 \/ CharAt(pattern, i - 1) = "/"
  /\ CharAt(pattern, i + 2) = "/"

\* One turn of the loop: out so far, and the first index not yet consumed.
GlobTurn(pattern, i, acc) ==
  IF i < acc.resume THEN acc
  ELSE IF pattern[i] = "*" /\ CharAt(pattern, i + 1) = "*" THEN
    IF IsDirectories(pattern, i)
    THEN [out |-> Append(acc.out, Term("dirs")), resume |-> i + 3]
    ELSE [out |-> Append(acc.out, Term("any")), resume |-> i + 2]
  ELSE [out    |-> Append(acc.out, IF pattern[i] = "*" THEN Term("star")
                                   ELSE IF pattern[i] = "?" THEN Term("one") ELSE Lit(pattern[i])),
        resume |-> i + 1]

GlobToRegExp(pattern) ==
  LET after[i \in 0 .. Len(pattern)] ==
        IF i = 0 THEN [out |-> <<>>, resume |-> 1] ELSE GlobTurn(pattern, i, after[i - 1])
  IN  after[Len(pattern)].out

\* The engine (external): where in the name a term can lead from a place in it,
\* and where a whole expression can lead from its beginning.  No name has a line
\* end, the one character . does not match.
NoSlash(name, i, j) == \A k \in i + 1 .. j : name[k] # "/"

Leads(name, t, i, j) ==
  IF t.term = "char" THEN j = i + 1 /\ name[j] = t.char
  ELSE IF t.term = "one" THEN j = i + 1 /\ name[j] # "/"
  ELSE IF t.term = "star" THEN NoSlash(name, i, j)
  ELSE t.term = "any" \/ j = i \/ name[j] = "/"

LedTo(name, from, t) == {j \in 0 .. Len(name) : \E i \in from : i <= j /\ Leads(name, t, i, j)}

Reached(name, terms) ==
  LET from[k \in 0 .. Len(terms)] == IF k = 0 THEN {0} ELSE LedTo(name, from[k - 1], terms[k])
  IN  from[Len(terms)]

Test(pattern, name) == Len(name) \in Reached(name, GlobToRegExp(pattern))

\* Mutant: whatever starts as the working directory does is inside it.
StartsLike(cwd, filename) == IsPrefix(cwd, filename)

IsUnder(cwd, filename) ==
  IsPrefix(cwd, filename) /\ CharAt(filename, Len(cwd) + 1) \in Separators

Slashed(c) == IF c = "\\" THEN "/" ELSE c

MatchesAllowList(patterns, filename, cwd) ==
  LET base  == Base(cwd)
      local == SubSeq(filename, Len(base) + 2, Len(filename))
      names == {filename}
               \cup (IF IsUnder(base, filename) THEN {[i \in DOMAIN local |-> Slashed(local[i])]} ELSE {})
  IN  \E p \in patterns, n \in names : Test(p, n)

-----------------------------------------------------------------------------
FsSpecifiers == {"fs", "node:fs", "fs/promises", "node:fs/promises"}

\* The module a statement names, when that can be read; a declaration has a
\* literal or names none.
StaticValue(load) ==
  IF load.statement.spelled \in {"literal", "template"} THEN load.names ELSE "undefined"

LoadsModule(callee) ==
  \/ callee.shape = "name" /\ callee.property = "require"
  \/ callee.shape = "member" /\ callee.object = "process" /\ callee.property = "getBuiltinModule"

\* The handlers of no-node-fs.
NoNodeFs(load) ==
  /\ ~load.allowed
  /\ StaticValue(load) \in FsSpecifiers
  /\ load.statement.form = "call" => LoadsModule(load.statement.callee)

-----------------------------------------------------------------------------
\* What a glob means, said with segments: split("/").
WithChar(parts, c) ==
  IF c = "/" THEN Append(parts, <<>>) ELSE [parts EXCEPT ![Len(parts)] = Append(@, c)]

Segments(name) ==
  LET upTo[i \in 0 .. Len(name)] == IF i = 0 THEN << <<>> >> ELSE WithChar(upTo[i - 1], name[i])
  IN  upTo[Len(name)]

\* How much of the segment s the first x characters of p can stand for.
SegmentFits(p, s) ==
  LET upTo[x \in 0 .. Len(p)] ==
        IF x = 0 THEN {0}
        ELSE IF p[x] = "*" THEN {y \in 0 .. Len(s) : \E z \in upTo[x - 1] : z <= y}
        ELSE {y \in 1 .. Len(s) : y - 1 \in upTo[x - 1] /\ p[x] \in {"?", s[y]}}
  IN  upTo

SegmentMatches(p, s) == Len(s) \in SegmentFits(p, s)[Len(p)]

\* How many of the segments ns the first k segments of a pattern can stand for.
Ways(ps, ns) ==
  LET upTo[k \in 0 .. Len(ps)] ==
        IF k = 0 THEN {0}
        ELSE IF ps[k] = <<"*", "*">>
             THEN {n \in 0 .. Len(ns) : \E w \in upTo[k - 1] : IF k = Len(ps) THEN w < n ELSE w <= n}
        ELSE {n \in 1 .. Len(ns) : n - 1 \in upTo[k - 1] /\ SegmentMatches(ps[k], ns[n])}
  IN  upTo

PathMatches(ps, ns) == Len(ns) \in Ways(ps, ns)[Len(ps)]

\* ** stands alone in its segment.
Proper(pattern) ==
  \A k \in DOMAIN Segments(pattern) :
    LET s == Segments(pattern)[k]
    IN  s = <<"*", "*">> \/ \A i \in 1 .. Len(s) - 1 : <<s[i], s[i + 1]>> # <<"*", "*">>

\* A glob is read by segments: `**` stands for any number of them, none too, and
\* `*` and `?` never reach across a slash (globToRegExp).
GlobsMatchBySegment ==
  lint.of = "match" /\ Proper(lint.pattern) =>
    (Test(lint.pattern, lint.name) <=> PathMatches(Segments(lint.pattern), Segments(lint.name)))

Joined(dir, sep, name) ==
  (IF Last(dir) \in Separators THEN dir ELSE Append(dir, sep)) \o [i \in DOMAIN name |-> IF name[i] = "/" THEN sep ELSE name[i]]

\* A relative pattern: it does not begin as the name of the working directory does.
IsRelative(pattern, cwd) ==
  pattern # <<>> /\ pattern[1] \notin Separators \cup {"*", "?", cwd[1]}

\* A relative pattern allows the same files wherever the project is checked out and
\* however the platform writes paths: those in the working directory that it
\* matches, and none of a directory next to it (matchesAllowList).
AllowedWhereverCheckedOut ==
  lint.of = "allow" /\ IsRelative(lint.pattern, lint.file) /\ lint.name # <<>> /\ lint.name[1] # "/" =>
    (MatchesAllowList({lint.pattern}, Joined(lint.file, lint.sep, lint.name), lint.cwd)
       <=> lint.file = lint.cwd /\ Test(lint.pattern, lint.name))

\* When this statement runs, the program gets hold of the file system.
LoadsFs(load) ==
  LET s == load.statement
  IN  s.spelled # "none" /\ load.names \in FsSpecifiers /\ ~s.typeOnly /\ s.loader

\* The rule cannot see this load: which module it is is only known when it runs,
\* or the function that loads it goes by another name than the two the rule knows.
Unseen(load) ==
  LET s == load.statement
  IN  \/ s.spelled \in {"template with value", "variable"}
      \/ /\ s.form = "call"
         /\ s.callee \notin {Callee("name", "none", "require"), Callee("member", "process", "getBuiltinModule")}

\* Whoever gets hold of the file system outside the files that may is reported,
\* unless the load is one that cannot be seen: through module.require, a
\* require of createRequire or under another name, process["getBuiltinModule"].
\* And who is reported does get hold of it, unless the statement is gone when
\* the program runs (import type) or `require` is a function of the program's
\* own (createNoNodeFs).
LoadsAreReported ==
  lint.of = "load" =>
    /\ LoadsFs(lint) => (NoNodeFs(lint) <=> ~lint.allowed /\ ~Unseen(lint))
    /\ NoNodeFs(lint) =>
         LoadsFs(lint) \/ lint.statement.typeOnly \/ (lint.statement.form = "call" /\ ~lint.statement.loader)

\* A file is exempt by its place in the repository alone: globs match segment by
\* segment, wherever the repository was checked out; and outside the exempt ones
\* the loads that can be seen are reported (glob.ts, no-node-fs.ts).
ExemptionsAreByPlace ==
  GlobsMatchBySegment /\ AllowedWhereverCheckedOut /\ LoadsAreReported
=============================================================================
