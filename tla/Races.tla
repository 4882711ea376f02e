------------------------------- MODULE Races -------------------------------
(***************************************************************************)
(* The races a module names.  What the code decides on it has often read   *)
(* before an await; a step by which that shows is a window.  An instance   *)
(* says which windows are open, struck remembers those a behaviour has     *)
(* gone through, and a property names the ones that excuse it.             *)
(***************************************************************************)
CONSTANT Windows   \* the windows left open
VARIABLE struck    \* those this behaviour has gone through

\* This step goes through these windows, if they are all open.
Strike(windows) == windows \subseteq Windows /\ struck' = struck \cup windows

\* Strike one window when the condition holds, none otherwise.
StrikeIf(condition, window) == Strike(IF condition THEN {window} ELSE {})

Spared(windows) == struck \cap windows = {}
=============================================================================
