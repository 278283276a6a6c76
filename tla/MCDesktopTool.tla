---------------------------- MODULE MCDesktopTool ----------------------------
(* DesktopTool with a ring of two places, three commands, one of them the  *)
(* upload of a file of one block: two exchanges, one after the other.      *)
EXTENDS DesktopTool
=============================================================================
