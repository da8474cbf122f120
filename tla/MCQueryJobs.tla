----------------------------- MODULE MCQueryJobs -----------------------------
(***************************************************************************)
(* Worlds for TLC: queries that share dependencies, that panic, that form  *)
(* one cycle, a cycle with a tail, a query that asks for itself, two       *)
(* separate cycles, one of which forms again when it has been broken, also *)
(* with a query that is new then, cycles that share queries, and the       *)
(* serial build.                                                           *)
(***************************************************************************)
EXTENDS QueryJobs

CONSTANTS t1, t2, t3, t4, a, b, c, d

MCThreads == {t1, t2, t3, t4}
MCQueries == {a, b, c, d}

Roots(r1, r2, r3, r4) == t1 :> r1 @@ t2 :> r2 @@ t3 :> r3 @@ t4 :> r4
Calls(ca, cb, cc, cd) == a :> ca @@ b :> cb @@ c :> cc @@ d :> cd

World(parallel, roots, calls, panics, fatal) ==
    [parallel |-> parallel, roots |-> roots, calls |-> calls,
     panics |-> panics, fatal |-> fatal]

None == << >>

Diamond == Calls(<<c, d>>, <<d, c>>, <<d>>, None)
Tangle  == Calls(<<b, c>>, <<c, d>>, <<d, a>>, <<b>>)
Ring    == Calls(<<b>>, <<c>>, <<a>>, None)

MCWorlds ==
    { World(TRUE, Roots(<<a>>, <<b>>, <<c, a>>, None), Diamond, {}, {}),
      World(TRUE, Roots(<<a>>, <<b>>, <<c>>, None), Diamond, {c}, {}),
      World(TRUE, Roots(<<a>>, <<b>>, <<c>>, None), Ring, {}, {}),
      World(TRUE, Roots(<<a>>, <<b>>, <<d>>, None), Calls(<<b>>, <<a>>, None, <<a, b>>), {}, {a}),
      World(TRUE, Roots(<<a>>, <<a>>, None, None), Calls(<<a>>, None, None, None), {}, {}),
      World(TRUE, Roots(<<a>>, <<b>>, <<c>>, <<d>>), Calls(<<b, b>>, <<a>>, <<d>>, <<c>>), {}, {}),
      World(TRUE, Roots(<<a>>, <<b>>, None, None), Calls(<<a, a>>, <<b, c>>, <<b>>, None), {}, {}),
      World(TRUE, Roots(<<a>>, <<b>>, <<c>>, <<d>>), Tangle, {}, {}),
      World(TRUE, Roots(<<a>>, <<b>>, <<c>>, <<d>>), Tangle, {d}, {c}),
      World(FALSE, Roots(<<a, d>>, None, None, None), Calls(<<b>>, <<c>>, <<b, d>>, <<a>>), {}, {}),
      World(FALSE, Roots(<<a, d>>, None, None, None), Calls(<<b>>, <<c>>, <<b, d>>, <<a>>), {}, {b}) }

(* Two separate cycles. *)
OverlapWorlds ==
    { World(TRUE, Roots(<<a>>, <<b>>, <<c>>, <<d>>), Calls(<<b>>, <<a>>, <<d>>, <<c>>), {}, {}) }
=============================================================================
