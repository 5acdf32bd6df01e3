------------------------------ MODULE MCTaskRuntime ------------------------------
(* Small instances of TaskRuntime.  The shapes: read (list_files, read_file,     *)
(* search_text), write (a permitted mutation), ask (a mutation the permission    *)
(* answers Ask for), etc (an Ask mutation whose arguments hit a dangerous        *)
(* pattern) and hooked (a read a preToolUse hook denies).                        *)
EXTENDS TaskRuntime

CONSTANTS read, write, ask, etc, hooked

MCTools == {read, write, ask, etc, hooked}
MCSafe == {read, hooked}
MCPermitted == {read, write, hooked}
MCHookDenied == {hooked}
MCDangerous == {etc}

(* Mutations in a row, reads wide enough to batch, a denied read inside a batch,  *)
(* and calls refused by the permission or by a pattern.                           *)
MCAnswers ==
  {<<write, write>>, <<read, read, write>>, <<read, hooked, read>>, <<ask, etc>>}

(* One mutation, one batch: enough for a window wider than one to end run(). *)
MCFewAnswers == {<<write>>, <<read, read>>}
================================================================================
