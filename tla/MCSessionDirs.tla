----------------------------- MODULE MCSessionDirs -----------------------------
(***************************************************************************)
(* Instances of SessionDirs for TLC.  Two processes and one finalized      *)
(* directory are the least with which a copy meets a deletion, two garbage *)
(* collections meet, and there are three generations to keep the newest    *)
(* of.  A process can try each finalized directory that is not its own     *)
(* once and then start empty: two tries and a last one, three identifiers  *)
(* each.                                                                   *)
(***************************************************************************)
EXTENDS SessionDirs, TLC

CONSTANTS p1, p2

TwoProcs == {p1, p2}

ProcSymmetry == Permutations(TwoProcs)

Nothing == << >>

OneFinal == <<"final">>

\* Before that, a session was killed while it compiled.
Crashed == <<"working", "final">>
================================================================================
