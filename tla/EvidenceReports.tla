--------------------------- MODULE EvidenceReports ---------------------------
(***************************************************************************)
(* What is declared, what is proven and what is reported of a capability:  *)
(* its documentation (src/core/document.ts), the findings derived from it, *)
(* from the scanned accesses and from the citations (src/build), and the   *)
(* two reports of the enterprise example (reports/litigation-evidence.ts,  *)
(* audit-prep.ts), written, committed and checked.                         *)
(***************************************************************************)
EXTENDS FiniteSets, Naturals, Sequences

CONSTANTS DataFields, Operations,
          SourceFiles,     \* files that consume the capability, or are cited
          Worlds,          \* the source trees a behaviour may start from
          MaxSourceEdits   \* bound: how often a file is changed

VARIABLES world,      \* the source tree: declarations, scanned edges, files
          snapshot,   \* the sidecar: field -> cited file -> the hash of the last generation
          evidence,   \* the cached Evidence Model
          committed,  \* the two files of a report
          job,        \* the report command: what it has computed and has to do
          sourceEdits

reportVars == <<world, snapshot, evidence, committed, job, sourceEdits>>

Undeclared == "undeclared"
Documented == {Undeclared, "declared"}
Gone == 0

(***************************************************************************)
(* Documentation (core/document.ts)                                        *)
(***************************************************************************)
DataFlowEndpoint ==
  [direction : {"input", "output"}, name : {"api", "database"}, handling : {Undeclared, "plaintext", "encrypted"}]

\* What a field declares for itself; each property overrides its capability's.
FieldDocs ==
  [owner : Documented, sensitivity : Documented, protections : Documented, retention : Documented, purpose : Documented,
   legalBasis : Documented, dataResidency : Documented, auditRequired : {Undeclared, "yes", "no"}]

EvidenceFieldDocs == SUBSET SourceFiles
OperationDocs == [writes : SUBSET DataFields, endpoints : SUBSET DataFlowEndpoint]

CapabilityDocs ==
  [owner : Documented, sensitivity : Documented, protections : Documented, retention : Documented, purpose : Documented,
   legalBasis : Documented, dataResidency : Documented, auditRequired : {Undeclared, "yes", "no"},
   fields : [DataFields -> FieldDocs], evidence : [DataFields -> EvidenceFieldDocs],
   operations : [Operations -> OperationDocs]]

\* Mutant: what the capability declares wins over the field.
CapabilityWins(docs, f, property) ==
  IF docs[property] # Undeclared THEN docs[property] ELSE docs.fields[f][property]

\* The value in force for a field, its own or its capability's.
InForce(docs, f, property) ==
  IF docs.fields[f][property] # Undeclared THEN docs.fields[f][property] ELSE docs[property]

Writers(docs, f) == {op \in Operations : f \in docs.operations[op].writes}

(***************************************************************************)
(* Findings (build/static-rules.ts, usage-report.ts, citation-verification)*)
(***************************************************************************)
Finding(code, f, sites) == [code |-> code, field |-> f, sites |-> sites]

Gap(missing, code, f) == IF missing THEN {Finding(code, f, {})} ELSE {}

\* checkOwnershipAndSensitivity: off a field's own sensitivity, so that what a
\* capability declares for all of its fields is reported once.
GovernanceFindings(docs) ==
  Gap(docs.owner = Undeclared, "CAPABILITY_MISSING_OWNER", "none")
  \cup Gap(docs.sensitivity # Undeclared /\ docs.protections = Undeclared, "SENSITIVE_CAPABILITY_MISSING_PROTECTIONS", "none")
  \cup Gap(docs.auditRequired = "yes" /\ docs.owner = Undeclared, "AUDIT_REQUIRED_WITHOUT_OWNER", "none")
  \cup UNION {
    LET field == docs.fields[f]
        own == field.sensitivity # Undeclared
    IN  Gap(own /\ field.protections = Undeclared, "SENSITIVE_FIELD_MISSING_PROTECTIONS", f)
        \cup Gap(own /\ InForce(docs, f, "purpose") = Undeclared, "SENSITIVE_FIELD_MISSING_PURPOSE", f)
        \cup Gap(own /\ InForce(docs, f, "legalBasis") = Undeclared, "SENSITIVE_FIELD_MISSING_LEGAL_BASIS", f)
        \cup Gap(InForce(docs, f, "auditRequired") = "yes" /\ InForce(docs, f, "owner") = Undeclared,
                 "AUDIT_REQUIRED_WITHOUT_OWNER", f)
    : f \in DataFields}

\* A DependencyEdge: a consumer's import, or its read of one field or of "none"
\* that could be told; a bare import has no position.
Edge(relationship, f, resolution, from) ==
  [relationship |-> relationship, field |-> f, resolution |-> resolution, from |-> from,
   placed |-> relationship = "reads-field" \/ resolution = "indeterminate"]

\* A source tree declares a documentation, and its edges are those of its consumers.
ASSUME WorldsAssumption ==
  /\ "none" \notin DataFields
  /\ \A w \in Worlds :
       /\ DOMAIN w = {"docs", "edges", "files"} /\ w.docs \in CapabilityDocs
       /\ \A e \in w.edges : e = Edge(e.relationship, e.field, e.resolution, e.from)

\* Mutant: a read of any field proves them all.
IsAnyRead(edges, f) == \E e \in edges : e.relationship = "reads-field"

IsFieldProvenRead(edges, f) == \E e \in edges : e.relationship = "reads-field" /\ e.field = f

CollectIndeterminateSites(edges) ==
  {e.from : e \in {x \in edges : x.resolution = "indeterminate" /\ x.field = "none" /\ x.placed}}

\* Proven, or cited, or undecided, or unconsumed.
UsageOf(docs, edges, f) ==
  LET undecided == CollectIndeterminateSites(edges)
  IN  CASE IsFieldProvenRead(edges, f) -> {}
        [] ~IsFieldProvenRead(edges, f) /\ docs.evidence[f] # {} ->
             {Finding("FIELD_DYNAMIC_ACCESS_DECLARED", f, {c}) : c \in docs.evidence[f]}
        [] ~IsFieldProvenRead(edges, f) /\ docs.evidence[f] = {} /\ undecided # {} ->
             {Finding("FIELD_ACCESS_INDETERMINATE", f, undecided)}
        [] OTHER -> {Finding("UNCONSUMED_FIELD", f, {})}

DeriveUsageFindings(docs, edges) ==
  IF edges = {} THEN {Finding("ABANDONED_CAPABILITY", "none", {})}
  ELSE {Finding("UNRESOLVED_CONSUMER", "none", {e.from}) : e \in {x \in edges : x.resolution = "unresolved-consumer"}}
       \cup {Finding("INDETERMINATE_CONSUMER", "none", {e.from}) : e \in {x \in edges : x.resolution = "indeterminate"}}
       \cup UNION {UsageOf(docs, edges, f) : f \in {g \in DataFields : Writers(docs, g) # {}}}

\* This run's baseline: the hash of each cited file that there is.
BuildCitationSnapshots(w) ==
  [f \in DataFields |-> [s \in {c \in w.docs.evidence[f] : w.files[c] # Gone} |-> w.files[s]]]

VerifyDynamicAccessCitations(w, previous) ==
  UNION {LET cited == w.docs.evidence[f]
         IN  {Finding("MISSING_DYNAMIC_ACCESS_CITATION", f, {c}) : c \in {s \in cited : w.files[s] = Gone}}
             \cup {Finding("STALE_DYNAMIC_ACCESS_CITATION", f, {c}) :
                     c \in {s \in cited : w.files[s] # Gone /\ s \in DOMAIN previous[f] /\ previous[f][s] # w.files[s]}}
         : f \in DataFields}

\* computeDataArtifacts: what a run knows of a source tree.
Compute(w, previous) ==
  [of |-> w, findings |-> GovernanceFindings(w.docs) \cup DeriveUsageFindings(w.docs, w.edges)
                          \cup VerifyDynamicAccessCitations(w, previous)]

(***************************************************************************)
(* The reports                                                             *)
(***************************************************************************)
CITATION_INTEGRITY_CODES == {"MISSING_DYNAMIC_ACCESS_CITATION", "STALE_DYNAMIC_ACCESS_CITATION"}

AccessSitesFor(edges, f) ==
  {e.from : e \in {x \in edges : x.relationship = "reads-field" /\ x.field = f /\ x.placed}}

HandlingStagesFor(docs, f) == UNION {{<<op, e>> : e \in docs.operations[op].endpoints} : op \in Writers(docs, f)}

\* "declared/all" of the endpoints that write a field.
HandlingCompletenessFor(docs, f) ==
  LET ends == UNION {{<<op, e>> : e \in docs.operations[op].endpoints} : op \in {o \in Operations : f \in docs.operations[o].writes}}
  IN  [declared |-> Cardinality({s \in ends : s[2].handling # Undeclared}), all |-> Cardinality(ends)]

FindingsByField(findings, f) == {x \in findings : x.field = f}
Codes(findings) == {x.code : x \in findings}

StatusOf(codes) ==
  IF codes \cap CITATION_INTEGRITY_CODES # {} THEN "stale-declaration"
  ELSE IF "FIELD_DYNAMIC_ACCESS_DECLARED" \in codes THEN "declared-dynamic"
  ELSE IF "FIELD_ACCESS_INDETERMINATE" \in codes THEN "indeterminate"
  ELSE IF "UNCONSUMED_FIELD" \in codes THEN "unconsumed" ELSE "proven"

Sensitive(docs) == {f \in DataFields : InForce(docs, f, "sensitivity") # Undeclared}

FieldEvidenceEntry(model, f) ==
  LET own == FindingsByField(model.findings, f)
      docs == model.of.docs
  IN  [declared |-> [property \in {"owner", "sensitivity", "purpose", "legalBasis", "dataResidency", "auditRequired"}
                       |-> InForce(docs, f, property)],
       own |-> [property \in {"protections", "retention"} |-> docs.fields[f][property]],
       consumptionStatus |-> StatusOf(Codes(own)),
       provenAccessSites |-> AccessSitesFor(model.of.edges, f),
       indeterminateSites |-> UNION {x.sites : x \in {y \in own : y.code = "FIELD_ACCESS_INDETERMINATE"}},
       dynamicAccessCitations |-> docs.evidence[f],
       citationIntegrityFindings |-> {x \in own : x.code \in CITATION_INTEGRITY_CODES},
       handlingByOperation |-> HandlingStagesFor(docs, f)]

Litigation(model) == [f \in Sensitive(model.of.docs) |-> FieldEvidenceEntry(model, f)]

\* audit-prep's matrix: what is declared, of the capability and of its sensitive fields.
BuildReport(model) ==
  LET docs == model.of.docs
  IN  [capability |-> [property \in {"owner", "sensitivity", "purpose", "legalBasis", "dataResidency", "auditRequired"}
                         |-> docs[property] # Undeclared],
       sensitiveFields |->
         [f \in Sensitive(docs) |->
            [declared |-> [property \in {"owner", "purpose", "legalBasis", "dataResidency", "auditRequired"}
                             |-> InForce(docs, f, property) # Undeclared],
             own |-> [property \in {"protections", "retention"} |-> docs.fields[f][property] # Undeclared],
             handling |-> HandlingCompletenessFor(docs, f)]],
       findings |-> model.findings]

\* The Markdown's sections of a field: those that have something to say.
RenderMarkdown(entries) ==
  [f \in DOMAIN entries |->
     [declared |-> [property \in DOMAIN entries[f].declared |->
                      IF property = "auditRequired" /\ entries[f].declared[property] = "no" THEN Undeclared
                      ELSE entries[f].declared[property]],
      own |-> entries[f].own, status |-> entries[f].consumptionStatus,
      sections |-> {section \in {"provenAccessSites", "indeterminateSites", "dynamicAccessCitations",
                                 "citationIntegrityFindings", "handlingByOperation"} : entries[f][section] # {}}]]

\* Where audit-prep's Markdown says a finding is.
DescribeLocation(x) ==
  [code |-> x.code, field |-> x.field,
   from |-> IF x.code \in {"UNRESOLVED_CONSUMER", "INDETERMINATE_CONSUMER"} THEN x.sites ELSE {}]

AuditMarkdown(report) == [report EXCEPT !.findings = {DescribeLocation(x) : x \in @}]

(***************************************************************************)
(* Generation, the two report commands, their checks                       *)
(***************************************************************************)
Render(kind, report) == IF kind = "litigation" THEN RenderMarkdown(report) ELSE AuditMarkdown(report)

\* A behaviour follows one of the two reports.
NoJob(kind) == [kind |-> kind, todo |-> <<>>, report |-> <<>>, verdict |-> "none"]

ReportStart(w, kind) ==
  /\ world = w
  /\ snapshot = [f \in DataFields |-> <<>>]
  /\ evidence = Compute(w, [f \in DataFields |-> <<>>])
  /\ committed = [json |-> <<>>, md |-> <<>>]
  /\ job = NoJob(kind) /\ sourceEdits = 0

ReportInit == \E w \in Worlds, kind \in {"litigation", "audit"} : ReportStart(w, kind)

\* A file is changed, removed or put back.
EditSource ==
  \E s \in SourceFiles, version \in {Gone, 1, 2} :
    /\ sourceEdits < MaxSourceEdits /\ version # world.files[s]
    /\ world' = [world EXCEPT !.files[s] = version]
    /\ sourceEdits' = sourceEdits + 1
    /\ UNCHANGED <<snapshot, evidence, committed, job>>

\* Mutant: the citations are compared with what has just been recorded.
BaselineNew(w, previous) == BuildCitationSnapshots(w)

\* The baseline of a run is what the run before it recorded.
Baseline(w, previous) == previous

\* data-cap --evidence: the model is computed, then the new baseline is recorded.
GenerateEvidence ==
  /\ evidence' = Compute(world, Baseline(world, snapshot))
  /\ snapshot' = BuildCitationSnapshots(world)
  /\ UNCHANGED <<world, committed, job, sourceEdits>>

\* getEvidence: the cached model if the sources are the ones it was made of.
GetEvidence == IF evidence.of = world THEN evidence ELSE Compute(world, snapshot)

StartJob ==
  \E mode \in {"write", "check"} :
    /\ job.todo = <<>>
    /\ job' = [job EXCEPT !.todo = IF mode = "write" THEN <<"json", "md">> ELSE <<"check">>,
                       !.report = IF job.kind = "litigation" THEN Litigation(GetEvidence) ELSE BuildReport(GetEvidence),
                       !.verdict = "none"]
    /\ UNCHANGED <<world, snapshot, evidence, committed, sourceEdits>>

WriteReport ==
  /\ job.todo # <<>> /\ Head(job.todo) \in {"json", "md"}
  /\ committed' = [committed EXCEPT ![Head(job.todo)] =
                     IF Head(job.todo) = "json" THEN job.report ELSE Render(job.kind, job.report)]
  /\ job' = [job EXCEPT !.todo = Tail(@)]
  /\ UNCHANGED <<world, snapshot, evidence, sourceEdits>>

CheckReport ==
  /\ job.todo = <<"check">>
  /\ job' = [job EXCEPT !.todo = <<>>,
                        !.verdict = IF committed = [json |-> job.report, md |-> Render(job.kind, job.report)]
                                    THEN "up to date" ELSE "stale"]
  /\ UNCHANGED <<world, snapshot, evidence, committed, sourceEdits>>

\* The process is killed between its two files.
KillJob ==
  /\ job.todo # <<>> /\ job' = NoJob(job.kind)
  /\ UNCHANGED <<world, snapshot, evidence, committed, sourceEdits>>

ReportNext == EditSource \/ GenerateEvidence \/ StartJob \/ WriteReport \/ CheckReport \/ KillJob

-----------------------------------------------------------------------------
\* Every status a report claims has the evidence it means behind it, and a field
\* that is read, cited or possibly read is never called unconsumed (the asserts
\* of main-headless.ts, which no run of it reaches for every status).  "proven"
\* without a site is left to a capability nobody imports and a field nobody writes.
StatusIsBacked ==
  job.kind = "litigation" => \A f \in DOMAIN job.report :
    LET entry == job.report[f]
    IN  CASE entry.consumptionStatus = "unconsumed" ->
               entry.provenAccessSites = {} /\ entry.indeterminateSites = {} /\ entry.dynamicAccessCitations = {}
          [] entry.consumptionStatus = "indeterminate"     -> entry.indeterminateSites # {} /\ entry.dynamicAccessCitations = {}
          [] entry.consumptionStatus = "declared-dynamic"  -> entry.dynamicAccessCitations # {}
          [] entry.consumptionStatus = "stale-declaration" -> entry.citationIntegrityFindings # {}
          [] OTHER -> entry.provenAccessSites # {} \/ world.edges = {} \/ Writers(world.docs, f) = {}

\* The two reports are about the same fields; what is documented for the
\* capability holds for each of them unless the field says otherwise, in both,
\* and a gap in the matrix of a field that is sensitive by its own word is a
\* finding (audit-prep.ts, litigation-evidence.ts, static-rules.ts).
ReportsAgreeOn(model) ==
  LET audit == BuildReport(model)
  IN  /\ DOMAIN audit.sensitiveFields = DOMAIN Litigation(model)
      /\ \A f \in DOMAIN audit.sensitiveFields :
           LET entry == Litigation(model)[f]
               row == audit.sensitiveFields[f]
           IN  \A property \in DOMAIN row.declared :
                 /\ audit.capability[property] => row.declared[property]
                 /\ property \in {"purpose", "legalBasis"} /\ world.docs.fields[f].sensitivity # Undeclared =>
                      (~row.declared[property] <=>
                         Finding(IF property = "purpose" THEN "SENSITIVE_FIELD_MISSING_PURPOSE"
                                 ELSE "SENSITIVE_FIELD_MISSING_LEGAL_BASIS", f, {}) \in audit.findings)
                 /\ world.docs.fields[f][property] # Undeclared =>
                      entry.declared[property] = world.docs.fields[f][property]

\* Whenever a model is asked for, the declarations are what they may be and the
\* two reports of it agree.
ReportsAgree ==
  job.todo # <<>> => world.docs \in CapabilityDocs /\ ReportsAgreeOn(GetEvidence)

\* Both: what a report claims of a field is backed, and the two reports and the
\* findings tell the same story.
ReportsAreBacked == StatusIsBacked /\ ReportsAgree

\* A cited file that has changed since the last generation is reported by the
\* next one (citation-verification.ts, "Re-verifies every run").
ChangedCitationsAreReported ==
  [][evidence' # evidence =>
       \A f \in DataFields : \A s \in world.docs.evidence[f] \cap DOMAIN snapshot[f] :
         world.files[s] # snapshot[f][s] =>
           \E x \in evidence'.findings : x.field = f /\ x.sites = {s} /\ x.code \in CITATION_INTEGRITY_CODES]_reportVars
=============================================================================
