------------------------------- MODULE MCSkills -------------------------------
EXTENDS Skills, TLC

CallersAlike == Permutations(Callers)

(* Two versions of one skill, another skill, and a file that is none.      *)
MCNameOf == [s \in Shas |-> CASE s = "a1" -> "alpha" [] s = "a2" -> "alpha"
                              [] s = "b" -> "beta" [] s = "x" -> Bad]

(* A recent file rests without another change, and only at rest does it    *)
(* show what it holds.  A file that cannot be read is one that is gone, or *)
(* in the cloud, when its turn comes.                                      *)
MCArrivals ==
  [sha : {"a1", "x"}, look : {"rest"}] \cup
  {[sha |-> "b", look |-> "recent"], [sha |-> "a1", look |-> "future"],
   [sha |-> "b", look |-> "cloud"]}

(* Two skills.                                                             *)
MCFolder == [f \in Files |-> IF f = 1 THEN "b" ELSE "a1"]
=============================================================================
