--------------------------- MODULE MCToolExecutor ---------------------------
(* The tool calls of one workspace, for TLC. *)
EXTENDS ToolExecutor, TLC

CONSTANTS c1, c2, s1

\* Two calls of one session race each other.
OneSession == c1 :> s1 @@ c2 :> s1
=============================================================================
