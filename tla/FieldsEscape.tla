---------------------------- MODULE FieldsEscape ----------------------------
(***************************************************************************)
(* Two readings of one use of a capability's whole `fields` or snapshot:   *)
(* the lint rule no-fields-escape (src/eslint-plugin/no-fields-escape.ts)  *)
(* and the scanner (src/build/dependency-graph.ts, classifyUsage).  The    *)
(* program around the use is the chain of its ancestors, innermost first,  *)
(* which grows until the program is closed; a JSX expression container, a  *)
(* block and an object literal are part of the node next to them.          *)
(***************************************************************************)
EXTENDS Sequences, FiniteSets, Naturals

CONSTANTS MaxAncestors, \* bound: the length of the chain
          Names         \* what declarations may be called

\* No variable is called as a pattern is written.
ASSUME NamesAssumption == Names \cap {"pattern", "rest"} = {}

VARIABLES read,         \* the use: "fields" or "getSnapshot"
          above,        \* its ancestors
          exports       \* the names of `export { ... }` without a source

escapeVars == <<read, above, exports>>

\* An ancestor, and what matters of it; a declaration is exported or not.
Node(type, is)           == [type |-> type, is |-> is, exported |-> FALSE]
Declaration(type, is, e) == [type |-> type, is |-> is, exported |-> e]

Calls(is) == {Node(type, is) : type \in {"CallExpression", "NewExpression"}}

\* What can stand directly around an expression, and what more of it the rule looks at.
AroundUse ==
  {Node("SpreadElement", of) : of \in {"object", "array"}} \cup Calls("argument") \cup Calls("callee")
  \cup {Node(type, "") : type \in {"JSXSpreadAttribute", "JSXAttribute", "JSXElement", "Wrapper"}}
  \cup {Node("MemberExpression", how) : how \in {"name", "literal", "computed", "index"}}
  \cup {Node("VariableDeclarator", id) : id \in {"pattern", "rest"}}
Around ==
  {Node("VariableDeclarator", id) : id \in Names} \cup {Node("Wrapper", "")}
  \cup {Node("ReturnStatement", ""), Node("ArrowFunctionExpression", "")}

Outermost   == above[Len(above)]
Declarators == {"VariableDeclarator"}
Statements  == {"ReturnStatement", "VariableDeclaration", "FunctionDeclaration"}
Functions   == {"FunctionDeclaration", "FunctionExpression", "ArrowFunctionExpression"}
Closed      == above # <<>> /\ (Outermost.type = "Program" \/ Outermost.exported)

EscapeStart(what, names) == read = what /\ above = <<>> /\ exports = names

EscapeInit ==
  \E what \in {"fields", "getSnapshot"}, names \in SUBSET Names : EscapeStart(what, names)

\* An export specifier names what is not exported by its declaration.
Fits(node) ==
  CASE above = <<>> -> node \in AroundUse \cup Around
    [] above # <<>> /\ Outermost.type \in Declarators -> node.type = "VariableDeclaration"
    [] above # <<>> /\ Outermost.type \in Statements ->
         \/ node.type \in {"FunctionDeclaration", "FunctionExpression"}
         \/ node.type = "Program" /\ Outermost.type # "ReturnStatement"
    [] OTHER -> node \in Around

Declared ==
  {Declaration("VariableDeclaration", "", e) : e \in BOOLEAN}
  \cup {Declaration("FunctionDeclaration", name, e) : name \in Names, e \in BOOLEAN}
  \cup {Node("FunctionExpression", ""), Node("Program", "")}

Enclose ==
  /\ ~Closed /\ Len(above) < MaxAncestors
  /\ \E node \in AroundUse \cup Around \cup Declared :
       /\ Fits(node)
       /\ node.exported => (IF node.type = "FunctionDeclaration" THEN node.is ELSE Outermost.is) \notin exports
       /\ above' = Append(above, node)
  /\ UNCHANGED <<read, exports>>

-----------------------------------------------------------------------------
\* The rule.
IsExportedName(name) == name \in exports

\* The declaration is at i.
IsDeclarationExported(i, name) == above[i].exported \/ IsExportedName(name)

\* What is directly inside above[i] is the initializer of an exported variable.
IsExportedVariableInit(i) ==
  /\ i <= Len(above) /\ above[i].type = "VariableDeclarator"
  /\ above[i].is \in Names
  /\ IsDeclarationExported(i + 1, above[i].is)

FunctionsAbove == {i \in DOMAIN above : above[i].type \in Functions}

\* Mutant: the outermost function answers for a return in an inner one.
OutermostFunction == CHOOSE i \in FunctionsAbove : \A j \in FunctionsAbove : j <= i

EnclosingFunction == CHOOSE i \in FunctionsAbove : \A j \in FunctionsAbove : i <= j

IsFunctionExported(i) ==
  IF above[i].type = "FunctionDeclaration" THEN IsDeclarationExported(i, above[i].is)
  ELSE IsExportedVariableInit(i + 1)

IsReturnedFromExportedFunction ==
  /\ above[1].type \in {"ReturnStatement", "ArrowFunctionExpression"}
  /\ IsFunctionExported(EnclosingFunction)

\* Mutant: a spread in an object literal is not one in JSX.
IsJsxSpread == above[1].type = "JSXSpreadAttribute"

IsSpread ==
  above[1] \in {Node("JSXSpreadAttribute", ""), Node("SpreadElement", "object")}

IsDestructuredWithRest   == above[1] = Node("VariableDeclarator", "rest")
IsCallArgument           == above[1] \in Calls("argument")
IsNamedJsxAttributeValue == above[1].type = "JSXAttribute"

ClassifyEscape ==
  CASE IsExportedVariableInit(1) \/ IsReturnedFromExportedFunction -> "exported"
    [] IsSpread \/ IsDestructuredWithRest -> "spread"
    [] IsCallArgument                     -> "argument"
    [] IsNamedJsxAttributeValue           -> "prop"
    [] OTHER                              -> "none"

-----------------------------------------------------------------------------
\* The scanner: the field it proves to be read, nothing, or that it cannot tell.
IsElementAccessIndex == above[1] = Node("MemberExpression", "index")

ClassifyUsage ==
  CASE above[1] = Node("MemberExpression", "name") ->
         IF read = "fields" THEN "field" ELSE "other property"
    [] above[1] = Node("MemberExpression", "literal") /\ read = "fields" -> "field"
    [] IsElementAccessIndex -> "nothing"
    [] OTHER -> "indeterminate"

-----------------------------------------------------------------------------
\* What the documentation of the rule leaves alone although the scanner is blind
\* to it: an alias, a wrapper, an index nobody can read, and positions that name
\* no boundary.
LeftAlone ==
  \/ above[1].type \in {"VariableDeclarator", "Wrapper", "JSXElement", "ReturnStatement", "ArrowFunctionExpression"}
  \/ above[1] \in Calls("callee") \cup {Node("SpreadElement", "array")}
  \/ above[1].type = "MemberExpression" /\ above[1].is \in {"computed", "literal"}

\* The rule and the scanner tell the same story: what the rule reports is what
\* the scanner cannot attribute to a field, and whatever else it cannot
\* attribute is one of the shapes the rule says it leaves alone
\* (classifyEscape against classifyUsage, the messages of the rule).
RuleAgreesWithScanner ==
  Closed =>
    /\ ClassifyEscape # "none" => ClassifyUsage = "indeterminate"
    /\ ClassifyUsage = "indeterminate" /\ ClassifyEscape = "none" => LeftAlone

\* Top-level and exported, said of the declaration at i with scopes resolved.
Public(i, name) ==
  \/ above[i].exported
  \/ i < Len(above) /\ above[i + 1].type = "Program" /\ name \in exports

\* An importer of the module receives the value, or receives it from a call.
HandedOut ==
  LET InPublicVariable(i) ==
        /\ i <= Len(above) /\ above[i].type = "VariableDeclarator" /\ above[i].is \in Names
        /\ Public(i + 1, above[i].is)
  IN  \/ InPublicVariable(1)
      \/ /\ above[1].type \in {"ReturnStatement", "ArrowFunctionExpression"}
         /\ \E f \in FunctionsAbove :
              /\ \A g \in FunctionsAbove : f <= g
              /\ IF above[f].type = "FunctionDeclaration" THEN Public(f, above[f].is)
                 ELSE InPublicVariable(f + 1)

\* A local declaration has the name of an export.
Shadows ==
  \E i \in DOMAIN above : above[i].is \in exports /\ \E j \in DOMAIN above : j > i /\ above[j].type \in Functions

\* "Exported" is reported for every value that an importer receives, directly or
\* from a call, and for no other, as long as no local declaration has the name of
\* an export (isExportedVariableInit, isReturnedFromExportedFunction).
ExportsAreExact ==
  Closed =>
    /\ HandedOut => ClassifyEscape = "exported"
    /\ ClassifyEscape = "exported" => HandedOut \/ Shadows

\* A local that only shares its name with an export is not reported as exported.
LocalsAreNotExported == Closed /\ ClassifyEscape = "exported" => HandedOut
=============================================================================
