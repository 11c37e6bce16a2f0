----------------------------- MODULE Permissions -----------------------------
(***************************************************************************)
(* The decision of PermissionChecker::evaluate_with_base (oh-permissions): *)
(* whether a tool may run at once, may run if the user confirms, or may    *)
(* not run.                                                                *)
(*                                                                         *)
(* Paths stand for the canonical form a request's path resolves to, and    *)
(* commands for what their tokenization tells: which globs match a path or *)
(* a command, and whether argv[0] is a high-risk verb, are data.           *)
(***************************************************************************)
EXTENDS Naturals, Sequences

CONSTANTS
  Tools,       \* names of tools
  Paths,       \* canonical paths
  Commands,    \* command lines
  Sensitive,   \* paths on the hardcoded blocklist
  Rooted,      \* paths inside an allowed root
  HighRisk,    \* commands whose argv[0] is a high-risk verb
  Unparsable,  \* commands that do not tokenize
  NoArg        \* the tool has no such argument

ASSUME PermissionsAssumption ==
  /\ NoArg \notin Paths \cup Commands
  /\ Sensitive \subseteq Paths /\ Rooted \subseteq Paths
  /\ HighRisk \subseteq Commands /\ Unparsable \subseteq Commands

Modes == {"default", "plan", "full_auto"}
Decisions == {"allow", "confirm", "deny"}

PathRules == [allow : BOOLEAN, valid : BOOLEAN, paths : SUBSET Paths]
Patterns == [valid : BOOLEAN, commands : SUBSET Commands]

Settings ==
  [mode : Modes,
   denied_tools : SUBSET Tools, allowed_tools : SUBSET Tools,
   override : SUBSET Paths, path_rules : Seq(PathRules), default_deny_paths : BOOLEAN,
   denied_commands : SUBSET Patterns,
   default_deny_high_risk : BOOLEAN, command_allowlist : SUBSET Commands]

\* What execute_tool_call asks about; no tool has more than one path argument.
Queries ==
  [tool : Tools, read_only : BOOLEAN,
   path : Paths \cup {NoArg}, command : Commands \cup {NoArg}]

\* A glob that does not parse matches everything: it fails closed.
PathRuleMatches(rule, path) == ~rule.valid \/ path \in rule.paths
CommandMatchesDeny(pattern, command) == ~pattern.valid \/ command \in pattern.commands

IsSensitive(s, path) == path \in Sensitive \ s.override

\* The first rule that matches decides.
RuleDecides(s, path, i) ==
  /\ PathRuleMatches(s.path_rules[i], path)
  /\ \A j \in 1..(i - 1) : ~PathRuleMatches(s.path_rules[j], path)

AllowedByRule(s, path) ==
  \E i \in DOMAIN s.path_rules : RuleDecides(s, path, i) /\ s.path_rules[i].allow

DeniedByRule(s, path) ==
  \/ \E i \in DOMAIN s.path_rules : RuleDecides(s, path, i) /\ ~s.path_rules[i].allow
  \/ s.default_deny_paths /\ ~AllowedByRule(s, path)

CommandDenied(s, command) ==
  \/ \E pattern \in s.denied_commands : CommandMatchesDeny(pattern, command)
  \/ /\ s.default_deny_high_risk
     /\ command \in Unparsable \cup (HighRisk \ s.command_allowlist)

\* What the mode alone says of a tool.
ByMode(mode, read_only) ==
  IF mode = "full_auto" \/ read_only THEN "allow"
  ELSE IF mode = "plan" THEN "deny"
  ELSE "confirm"

\* Mutant: the list of allowed tools is asked before the list of denied ones.
EvaluateAllowFirst(s, q) ==
  IF q.path # NoArg /\ (IsSensitive(s, q.path) \/ q.path \notin Rooted) THEN "deny"
  ELSE IF q.tool \in s.allowed_tools THEN "allow"
  ELSE IF q.tool \in s.denied_tools THEN "deny"
  ELSE IF q.path # NoArg /\ AllowedByRule(s, q.path) THEN "allow"
  ELSE IF q.path # NoArg /\ DeniedByRule(s, q.path) THEN "deny"
  ELSE IF q.command # NoArg /\ CommandDenied(s, q.command) THEN "deny"
  ELSE ByMode(s.mode, q.read_only)

\* The checks in the code's order; the first that applies decides.
Evaluate(s, q) ==
  IF q.path # NoArg /\ (IsSensitive(s, q.path) \/ q.path \notin Rooted) THEN "deny"
  ELSE IF q.tool \in s.denied_tools THEN "deny"
  ELSE IF q.tool \in s.allowed_tools THEN "allow"
  ELSE IF q.path # NoArg /\ AllowedByRule(s, q.path) THEN "allow"
  ELSE IF q.path # NoArg /\ DeniedByRule(s, q.path) THEN "deny"
  ELSE IF q.command # NoArg /\ CommandDenied(s, q.command) THEN "deny"
  ELSE ByMode(s.mode, q.read_only)

(***************************************************************************)
(* What the settings promise, said without an order of checks.             *)
(***************************************************************************)

\* Nothing a user sets opens a sensitive path that is not overridden, or a path
\* outside the allowed roots, and nothing opens a denied tool.
AlwaysRefused(s, q) ==
  \/ q.path # NoArg /\ (IsSensitive(s, q.path) \/ q.path \notin Rooted)
  \/ q.tool \in s.denied_tools

\* Somebody allowed this tool or this path by name.
NamedAllowed(s, q) ==
  \/ q.tool \in s.allowed_tools
  \/ q.path # NoArg /\ AllowedByRule(s, q.path)

\* A request nobody allowed by name is bound by every rule and by the mode.
Bound(s, q) ==
  \/ q.path # NoArg /\ DeniedByRule(s, q.path)
  \/ q.command # NoArg /\ CommandDenied(s, q.command)
  \/ s.mode = "plan" /\ ~q.read_only

MayRun(s, q, confirmed) ==
  /\ ~AlwaysRefused(s, q)
  /\ \/ NamedAllowed(s, q)
     \/ /\ ~Bound(s, q)
        /\ s.mode = "default" /\ ~q.read_only => confirmed
=============================================================================
