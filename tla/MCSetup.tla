------------------------------- MODULE MCSetup -------------------------------
(* Setup from some first states of the files and the keys.                 *)
EXTENDS Setup

With(rco, global) == [kind |-> "good", rco |-> rco, global |-> global, rest |-> 0]
Plain == With("none", "none")
Other == With("other", "none")

Disk(codex, local, claude, mcp, skill) ==
  [p \in Places |-> CASE p = "codex"  -> codex
                      [] p = "local"  -> local
                      [] p = "claude" -> claude
                      [] p = "mcp"    -> mcp
                      [] OTHER        -> skill]

(* A first use; settings without a connection and skills of an earlier     *)
(* version; other connections in every file; another for all projects,     *)
(* and the right one for all projects with an override; a layout that      *)
(* setup refuses.                                                          *)
MCBegin ==
  { Disk(Absent, Absent, Absent, Absent, Absent),
    Disk(Plain, Plain, Plain, Absent, Other),
    Disk(Other, Other, Other, Other, Other),
    Disk(Plain, Absent, With("none", "other"), Absent, Absent),
    Disk(With("ok", "none"), Other, With("none", "ok"), Other, Absent),
    Disk(With("inline", "none"), Absent, Plain, Absent, Absent) }

(* No keys, one key, one that is too short, the same key twice.            *)
MCBeginKeys ==
  { [n \in Names |-> IF n = "RCO_TOKEN_C" THEN pair[1] ELSE pair[2]] :
     pair \in {<<NoKey, NoKey>>, <<1, NoKey>>, <<NoKey, Short>>, <<2, 2>>} }
=============================================================================
