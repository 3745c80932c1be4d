------------------------------ MODULE MCToolLoop ------------------------------
(***************************************************************************)
(* Tools for ToolLoop: one of each kind the runner tells apart.  The one   *)
(* it does not know is a tool of an MCP server, registered after the union *)
(* registry was pushed; a hook may still put a call of it in place.        *)
(***************************************************************************)
EXTENDS ToolLoop

CONSTANTS builtinTool, hostTool, unknownTool

AllTools == {builtinTool, hostTool, unknownTool}
KnownTools == {builtinTool, hostTool}

WholePolicy == {[after |-> 20, retain |-> 20, balanced |-> FALSE]}
===============================================================================
