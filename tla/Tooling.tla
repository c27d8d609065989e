------------------------------ MODULE Tooling ------------------------------
(***************************************************************************)
(* The tools around the library: the command line, the lint rules, what    *)
(* they share with the build (src/cli, src/eslint-plugin, src/_ipc), and   *)
(* the reports and the platform of the enterprise example: machines that   *)
(* have nothing to do with each other, each in behaviours of its own.      *)
(***************************************************************************)
EXTENDS CommandLine, Scaffold, FieldsEscape, OperationRules, GlobRules, Publishing,
        InvoicePlatform, EvidenceReports

VARIABLE tool

vars == <<tool, commandVars, scaffoldVars, escapeVars, operationVars, lint, aliasVars, published,
          platformVars, reportVars>>

\* A machine that does not run stands still at one of its starts.
Init ==
  /\ tool \in {"command line", "init", "fields", "operations", "globs", "aliases", "publishing",
              "platform", "reports"}
  /\ IF tool = "command line" THEN CommandInit ELSE CommandStart(<<>>, "missing")
  /\ IF tool = "init" THEN ScaffoldInit ELSE ScaffoldStart([path \in Places |-> Absent])
  /\ IF tool = "fields" THEN EscapeInit ELSE EscapeStart("fields", {})
  /\ IF tool = "operations" THEN OperationInit ELSE OperationStart("call")
  /\ IF tool = "aliases" THEN AliasInit
     ELSE AliasStart([id \in {"typescript", "@typescript/typescript6"} |-> "absent"], "off", "missing", [s \in Specifiers |-> "nothing"])
  /\ IF tool = "platform" THEN PlatformInit ELSE PlatformStart(<<>>)
  /\ IF tool = "reports" THEN ReportInit ELSE ReportStart(CHOOSE w \in Worlds : TRUE, "audit")
  /\ LintInit /\ PublicationInit

Next ==
  \/ /\ tool = "command line" /\ CommandNext
     /\ UNCHANGED <<tool, scaffoldVars, escapeVars, operationVars, lint, aliasVars, published,
                    platformVars, reportVars>>
  \/ /\ tool = "init" /\ ScaffoldNext
     /\ UNCHANGED <<tool, commandVars, escapeVars, operationVars, lint, aliasVars, published,
                    platformVars, reportVars>>
  \/ /\ tool = "fields" /\ Enclose
     /\ UNCHANGED <<tool, commandVars, scaffoldVars, operationVars, lint, aliasVars,
                    published, platformVars, reportVars>>
  \/ /\ tool = "operations" /\ OperationNext
     /\ UNCHANGED <<tool, commandVars, scaffoldVars, escapeVars, lint, aliasVars, published,
                    platformVars, reportVars>>
  \/ /\ tool = "globs" /\ LintNext
     /\ UNCHANGED <<tool, commandVars, scaffoldVars, escapeVars, operationVars, aliasVars,
                    published, platformVars, reportVars>>
  \/ /\ tool = "aliases" /\ AliasNext
     /\ UNCHANGED <<tool, commandVars, scaffoldVars, escapeVars, operationVars, lint,
                    published, platformVars, reportVars>>
  \/ /\ tool = "publishing" /\ PublicationNext
     /\ UNCHANGED <<tool, commandVars, scaffoldVars, escapeVars, operationVars, lint,
                    aliasVars, platformVars, reportVars>>
  \/ /\ tool = "platform" /\ PlatformNext
     /\ UNCHANGED <<tool, commandVars, scaffoldVars, escapeVars, operationVars, lint,
                    aliasVars, published, reportVars>>
  \/ /\ tool = "reports" /\ ReportNext
     /\ UNCHANGED <<tool, commandVars, scaffoldVars, escapeVars, operationVars, lint,
                    aliasVars, published, platformVars>>

Spec == Init /\ [][Next]_vars
=============================================================================
