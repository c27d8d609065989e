--------------------------- MODULE OperationRules ---------------------------
(***************************************************************************)
(* The lint rules about where an operation's function stands and where it  *)
(* comes from: no-raw-external-io and stable-operation-reference           *)
(* (src/eslint-plugin/).  A piece of code is seen from inside out: the     *)
(* properties and calls around it, up to the program.  What these rules    *)
(* and no-fields-escape (FieldsEscape) come to together is said at the end.*)
(***************************************************************************)
EXTENDS FieldsEscape

CONSTANTS MaxAround,    \* bound: how many of them
          MaxScopes     \* bound: the scopes around a declaration

VARIABLES around,       \* properties and calls, innermost first
          scopes,       \* the scopes from which the name is resolved, innermost first
          use           \* what stands there: an I/O call, or the value of the innermost property

operationVars == <<around, scopes, use>>

\* value: what the property holds; a computed key has no static name.
Property(key, value) == [type |-> "Property", key |-> key, value |-> value]
CallOf(name)         == [type |-> "CallExpression", key |-> name, value |-> "arguments"]

Surroundings ==
  {Property("execute", "function"), Property("execute", "object"), Property("processor", "function"),
   Property("getters", "object"), Property("getUser", "object"), Property("computed", "function"),
   CallOf("createData"), CallOf("buildData"), CallOf("useData")}

\* capability-call.ts
IsCapabilityCall(node, names) == node.type = "CallExpression" /\ node.key \in names
IsOperationSectionKey(node)   == node.type = "Property" /\ node.key = "getters"
IsOperationBodyKey(node)      == node.type = "Property" /\ node.key = "execute"

\* Scopes: each may declare the name, list it without a definition (the global
\* scope, for what the environment provides), or not know it.
ScopeTypes == {"block", "loop", "function", "module"}

OperationStart(code) == use = code /\ around = <<>> /\ scopes = <<>>

OperationInit ==
  \E code \in {"io call", "inline function", "reference", "call"} : OperationStart(code)

Surround ==
  /\ Len(around) < MaxAround /\ scopes = <<>>
  /\ \E node \in Surroundings : around' = Append(around, node)
  /\ UNCHANGED <<scopes, use>>

\* The scope outside the last one; the module's is the last but for the global one.
Widen ==
  /\ use \in {"io call", "reference"} /\ Len(scopes) < MaxScopes
  /\ around # <<>> /\ IsCapabilityCall(around[Len(around)], {"createData"})
  /\ scopes # <<>> => scopes[Len(scopes)].type # "global"
  /\ \E type \in ScopeTypes \cup {"global"}, knows \in {"declares", "lists", "unknown"} :
       /\ knows = "lists" => type = "global"
       /\ scopes # <<>> /\ scopes[Len(scopes)].type = "module" => type = "global"
       /\ scopes' = Append(scopes, [type |-> type, knows |-> knows])
  /\ UNCHANGED <<around, use>>

OperationNext == Surround \/ Widen

-----------------------------------------------------------------------------
\* The innermost scope that knows the name, 0 if none does.
Resolved ==
  IF \A i \in DOMAIN scopes : scopes[i].knows = "unknown" THEN 0
  ELSE CHOOSE i \in DOMAIN scopes :
         scopes[i].knows # "unknown" /\ \A j \in 1 .. i - 1 : scopes[j].knows = "unknown"

IsBareGlobal == Resolved = 0 \/ scopes[Resolved].knows = "lists"

\* Mutant: any property of an operation's section is a body.
IsSectionProperty(node) == node.type = "Property" /\ node.value = "function"

IsBodyProperty(node) == IsOperationBodyKey(node) /\ node.value = "function"

\* The walk outward: a body, at or above it a section, at or above it the call.
IsInsideOperationBody ==
  \E body, section, call \in DOMAIN around :
    /\ body <= section /\ section <= call
    /\ IsBodyProperty(around[body])
    /\ IsOperationSectionKey(around[section])
    /\ IsCapabilityCall(around[call], {"createData", "buildData"})

NoRawExternalIo == use = "io call" /\ IsBareGlobal /\ ~IsInsideOperationBody

\* stable-operation-reference: the property is the innermost one around the value.
InCreateData == \E i \in DOMAIN around : IsCapabilityCall(around[i], {"createData"})

\* Mutant: only the scope of the declaration itself is looked at.
IsDeclaredInFunction(i) == scopes[i].type = "function"

IsDeclaredWithinFunctionScope(i) == \E j \in i .. Len(scopes) : scopes[j].type = "function"

StableOperationReference ==
  /\ InCreateData /\ around # <<>> /\ IsOperationBodyKey(around[1])
  /\ \/ use = "inline function"
     \/ use = "reference" /\ Resolved # 0 /\ IsDeclaredWithinFunctionScope(Resolved)

-----------------------------------------------------------------------------
\* The call is in the body of an operation: the function of an execute or
\* subscribe, of an entry, of a section, of a capability, one right in the other.
InOperation ==
  \E i \in DOMAIN around :
    /\ i + 3 <= Len(around)
    /\ around[i] = Property("execute", "function")
    /\ around[i + 1].type = "Property" /\ around[i + 1].value = "object"
    /\ around[i + 2] = Property("getters", "object")
    /\ IsCapabilityCall(around[i + 3], {"createData", "buildData"})

\* I/O in an operation's own body is never reported, and any other use of the
\* environment's function is, unless a function called execute stands around it
\* somewhere below a section of a capability (isInsideOperationBody, isBareGlobal).
IoIsReportedOutsideOperations ==
  /\ InOperation => ~NoRawExternalIo
  /\ use = "io call" /\ IsBareGlobal /\ ~NoRawExternalIo =>
       \E i \in DOMAIN around : around[i] = Property("execute", "function")

\* A processor, and any other property of an operation, may do no I/O
\* (isInsideOperationBody, "keeps a fetch in a processor ... from being silently exempted").
ProcessorsDoNoIo ==
  use = "io call" /\ IsBareGlobal /\ ~NoRawExternalIo => InOperation

\* Which function the name denotes, given how often the bodies around its
\* declaration have been entered: a loop and a function run again and again.
Denoted(entered) ==
  [j \in Resolved .. Len(scopes) |-> IF scopes[j].type \in {"function", "loop"} THEN entered[j] ELSE 1]

RunsOnce ==
  \A entered, again \in [DOMAIN scopes -> {1, 2}] : Denoted(entered) = Denoted(again)

\* The value of an execute that the rule accepts is one function however often
\* the code around it runs, so that calls of the operation can be shared, unless
\* the rule cannot see where the value comes from or a loop makes it anew
\* (stableOperationReference, isRecreatedPerCall).
AcceptedIsShared ==
  InCreateData /\ IsOperationBodyKey(around[1]) /\ ~StableOperationReference =>
    /\ use # "inline function"
    /\ use = "reference" /\ Resolved # 0 /\ ~RunsOnce => \E j \in Resolved .. Len(scopes) : scopes[j].type = "loop"

\* The lint rules agree with the build, rule by rule: a field's value that leaves
\* its module is reported exactly where the scanner loses sight of it, input and
\* output only within operations, a shared operation only by a stable reference
\* (no-fields-escape.ts, no-raw-external-io.ts, stable-operation-reference.ts).
RulesAgreeWithTheBuild ==
  /\ RuleAgreesWithScanner /\ ExportsAreExact
  /\ IoIsReportedOutsideOperations /\ AcceptedIsShared
=============================================================================
