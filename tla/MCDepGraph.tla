------------------------------ MODULE MCDepGraph ------------------------------
(***************************************************************************)
(* Worlds for TLC.  The inputs of both sessions are arbitrary, so that     *)
(* each world covers every change between two sessions.                    *)
(***************************************************************************)
EXTENDS DepGraph

CONSTANTS t1, t2, t3, i, j, a, b, c

MCThreads == {t1, t2, t3}
MCQueries == {i, j, a, b, c}
MCValues  == {0, 1}

Do(r) == [read |-> r, value |-> 0]
Give(v) == [read |-> NoQuery, value |-> v]

(* Providers that return what they read, ignore it, read a second query     *)
(* only if the first is 1, and read two.                                    *)
Unused     == << >> :> Give(0)
Copy(r)    == << >> :> Do(r) @@ <<0>> :> Give(0) @@ <<1>> :> Give(1)
Ignore(r)  == << >> :> Do(r) @@ <<0>> :> Give(0) @@ <<1>> :> Give(0)
If(r, s)   == << >> :> Do(r) @@ <<0>> :> Give(0) @@ <<1>> :> Do(s)
                 @@ <<1, 0>> :> Give(0) @@ <<1, 1>> :> Give(1)
Both(r, s) == << >> :> Do(r) @@ <<0>> :> Do(s) @@ <<1>> :> Do(s)
                 @@ [v \in MCValues \X MCValues |-> Give(IF v = <<1, 1>> THEN 1 ELSE 0)]

Program(pa, pb, pc) == a :> pa @@ b :> pb @@ c :> pc

Get(q)    == [q |-> q, ensure |-> FALSE]
Check(q)  == [q |-> q, ensure |-> TRUE]
Roots(r1, r2, r3) == t1 :> r1 @@ t2 :> r2 @@ t3 :> r3

None == << >>

Plain == [inputs |-> {i, j}, anon |-> {}, nohash |-> {}, unforceable |-> {},
          disk |-> {}, warns |-> {}]

(* A key that cannot be reconstructed. *)
RecolourWorlds ==
    { [program |-> Program(Ignore(i), Both(a, j), Copy(b)),
       roots |-> Roots(<<Get(b)>>, <<Get(a)>>, <<Check(b)>>),
       unforceable |-> {a}, disk |-> {a, b}, warns |-> {b}] @@ Plain }

MCWorlds == RecolourWorlds \union
    { (* a change that is absorbed on the way *)
      [program |-> Program(Ignore(i), Both(a, j), Copy(b)),
       roots |-> Roots(<<Get(c)>>, <<Check(c)>>, None),
       disk |-> {b, c}, warns |-> {a, c}] @@ Plain,
      (* what is read depends on what was read before *)
      [program |-> Program(Copy(j), If(i, a), Copy(b)),
       roots |-> Roots(<<Check(i), Get(c)>>, <<Check(c)>>, None),
       disk |-> {a}, warns |-> {a, b}] @@ Plain,
      (* anonymous queries with two dependencies and with one *)
      [program |-> Program(Both(i, j), Both(a, c), Ignore(i)),
       roots |-> Roots(<<Get(b)>>, <<Get(a), Check(b)>>, None),
       anon |-> {a}, disk |-> {b}] @@ Plain,
      [program |-> Program(Copy(i), If(a, c), Ignore(j)),
       roots |-> Roots(<<Get(b)>>, <<Get(c), Check(b)>>, None),
       anon |-> {a}, warns |-> {b, c}] @@ Plain,
      (* a result that is not hashed *)
      [program |-> Program(Copy(i), Both(a, j), Ignore(a)),
       roots |-> Roots(<<Get(b)>>, <<Check(c), Check(b)>>, None),
       nohash |-> {a}, disk |-> {b, c}, warns |-> {c}] @@ Plain }
=============================================================================
