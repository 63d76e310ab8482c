--------------------------- MODULE MCShellEditor ---------------------------
(* ShellEditor with a line of three characters and a history of six bytes: *)
(* lines of one to three characters, up to three entries, cut entries.     *)
EXTENDS ShellEditor
=============================================================================
