------------------------------ MODULE MCLaunch ------------------------------
(***************************************************************************)
(* Two clicks on one folder and one on a copy of it: they share the ports  *)
(* and, two of them, the mutex and a data folder that is new: what one     *)
(* launch leaves of it, the other finds. The copy has been used before.    *)
(***************************************************************************)
EXTENDS Launch

CONSTANTS first, second, elsewhere, project, copy

ClickedLaunches == {first, second, elsewhere}
ExtractedFolders == {project, copy}
ClickedWorkspace == [p \in ClickedLaunches |-> IF p = elsewhere THEN copy ELSE project]
NewOrUsed == [w \in ExtractedFolders |-> IF w = project THEN {{}} ELSE {Parts}]
=============================================================================
