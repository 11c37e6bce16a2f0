----------------------------- MODULE MCToolCalls -----------------------------
(***************************************************************************)
(* An instance of ToolCalls for TLC: a call that changes the hooks and a   *)
(* call of an ordinary tool by a subagent, over settings whose rules       *)
(* overlap.                                                                *)
(***************************************************************************)
EXTENDS ToolCalls, TLC

CONSTANTS change, work, guard, check, report, inside, outside, secret, rm

MCEventOf == (guard :> "pre_tool_use") @@ (check :> "pre_tool_use")
               @@ (report :> "plugin_loaded")
MCMatched == (guard :> Tools) @@ (check :> {"Bash", "Write"}) @@ (report :> Tools)

Plain(tool, read_only) ==
  [tool |-> tool, read_only |-> read_only, path |-> NoArg, command |-> NoArg,
   action |-> [kind |-> "none", hook |-> None]]

Manages(kind, hook) ==
  [Plain("HookManage", FALSE) EXCEPT !.action = [kind |-> kind, hook |-> hook]]

MCRequests ==
  (change :> {Manages("add", report), Manages("clear_event", guard), Manages("clear_all", None)})
  @@ (work :> {[Plain("Bash", FALSE) EXCEPT !.command = rm],
               [Plain("Write", FALSE) EXCEPT !.path = inside],
               [Plain("Write", FALSE) EXCEPT !.path = outside],
               [Plain("Read", TRUE) EXCEPT !.path = inside],
               [Plain("Read", TRUE) EXCEPT !.path = secret],
               Plain("Nope", TRUE),
               [Plain("Message", TRUE) EXCEPT !.action = [kind |-> "fire_event", hook |-> None]]})

Defaults ==
  [mode |-> "default", denied_tools |-> {}, allowed_tools |-> {}, override |-> {},
   path_rules |-> <<>>, default_deny_paths |-> FALSE, denied_commands |-> {},
   default_deny_high_risk |-> FALSE, command_allowlist |-> {}]

Rule(allow, paths) == [allow |-> allow, valid |-> TRUE, paths |-> paths]

MCProfiles ==
  {[Defaults EXCEPT !.override = {secret}, !.allowed_tools = {"HookManage"}],
   [Defaults EXCEPT !.mode = "plan", !.allowed_tools = {"HookManage"},
                    !.path_rules = <<Rule(TRUE, {inside, secret})>>],
   [Defaults EXCEPT !.mode = "full_auto", !.denied_tools = {"Read"}, !.allowed_tools = {"Read"},
                    !.path_rules = <<[allow |-> FALSE, valid |-> FALSE, paths |-> {}],
                                     Rule(TRUE, {inside})>>,
                    !.denied_commands = {[valid |-> FALSE, commands |-> {}]}],
   [Defaults EXCEPT !.mode = "full_auto", !.path_rules = <<Rule(TRUE, {secret})>>,
                    !.default_deny_paths = TRUE, !.default_deny_high_risk = TRUE]}

MCLoaded == {{guard, check}}
=============================================================================
