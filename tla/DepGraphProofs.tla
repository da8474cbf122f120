--------------------------- MODULE DepGraphProofs ---------------------------
(***************************************************************************)
(* What an incremental session promises, for every program, any two sets   *)
(* of inputs and any number of threads: its results, its nodes and the     *)
(* queries it executes are those of a build from scratch, and none of the  *)
(* assertions of the dependency graph fails unless a query depends on a    *)
(* node whose key cannot be reconstructed.                                 *)
(*                                                                         *)
(* The argument has three parts.                                           *)
(*                                                                         *)
(*   1. One session.  Only the equations of an evaluation (IsSession) are  *)
(*      used: a query's edges are the nodes of its reads, in the order of  *)
(*      the first reads, and every node is the node of some query.         *)
(*                                                                         *)
(*   2. Two sessions of one program.  If a query's old dependencies up to  *)
(*      some read are nodes of the new session with the same results, it   *)
(*      makes the same next read there (DepWanted): so forcing in the      *)
(*      order of the old edges forces only what is needed.  If all are,    *)
(*      its result and its edges are the old ones (StableByDeps): so green *)
(*      is sound.                                                          *)
(*                                                                         *)
(*   3. The threads.  Inv says of every frame of every stack, relative to  *)
(*      the two sessions, what is wanted, recorded and known of colours.   *)
(*      Greens(c) is the greatest set of nodes that can be green at all:   *)
(*      no interleaving colours a node with a reconstructible past both    *)
(*      ways, which is what the assertions need.                           *)
(***************************************************************************)
EXTENDS DepGraph, TLAPS, FiniteSetTheorems, SequenceTheorems, WellFoundedInduction

-----------------------------------------------------------------------------
(* Naturals and sequences *)

LEMMA NatMin ==
    ASSUME NEW T \in SUBSET Nat, T # {}
    PROVE  \E m \in T : \A k \in T : m <= k
<1>1. PICK R : R = OpToRel(<, Nat)
  OBVIOUS
<1>2. \A k, m \in Nat : k < m => <<k, m>> \in R
  <2>1. \A k, m \in Nat : k < m => <<k, m>> \in OpToRel(<, Nat)
    BY DEF OpToRel
  <2> QED BY <1>1, <2>1, Zenon
<1>3. IsWellFoundedOn(R, Nat)
  BY <1>1, NatLessThanWellFounded, Zenon
<1>4. PICK m \in T : \A k \in T : ~(<<k, m>> \in R)
  BY <1>3, WFMin
<1>5. \A k \in T : m <= k
  <2>1. \A k \in T : k \in Nat /\ m \in Nat
    OBVIOUS
  <2>2. \A k \in T : ~(k < m)
    BY <1>2, <1>4, <2>1, Zenon
  <2> QED BY <2>1, <2>2
<1> QED BY <1>5

LEMMA UpTo ==
    ASSUME NEW L \in Nat, NEW X, 0 \in X, \A k \in 0..L-1 : k \in X => k + 1 \in X
    PROVE  \A k \in 0..L : k \in X
<1> DEFINE T == {k \in 0..L : k \notin X}
<1> SUFFICES ASSUME T # {} PROVE FALSE
  OBVIOUS
<1>1. PICK m \in T : \A k \in T : m <= k
  <2>1. T \in SUBSET Nat /\ T # {}
    OBVIOUS
  <2> HIDE DEF T
  <2> QED BY <2>1, NatMin
<1>2. m # 0 /\ m - 1 \in 0..L-1
  OBVIOUS
<1>3. m - 1 \in X
  BY <1>1, <1>2
<1>4. (m - 1) + 1 \in X
  BY <1>2, <1>3
<1> QED BY <1>4

LEMMA InToSet ==
    ASSUME NEW N, NEW a \in Seq(N), NEW x \in ToSet(a)
    PROVE  \E j \in 1..Len(a) : a[j] = x
BY DEF ToSet

LEMMA AddReadSet ==
    ASSUME NEW N, NEW tr \in Seq(N), NEW n \in N
    PROVE  AddRead(tr, n) \in Seq(N) /\ ToSet(AddRead(tr, n)) = ToSet(tr) \union {n}
<1>1. CASE n \in ToSet(tr)
  BY <1>1 DEF AddRead, ToSet
<1>2. CASE n \notin ToSet(tr)
  <2>1. AddRead(tr, n) = Append(tr, n)
    BY <1>2 DEF AddRead
  <2>2. /\ Append(tr, n) \in Seq(N) /\ Len(Append(tr, n)) = Len(tr) + 1
        /\ \A j \in 1..Len(tr) : Append(tr, n)[j] = tr[j]
        /\ Append(tr, n)[Len(tr) + 1] = n
    OBVIOUS
  <2>3. ToSet(Append(tr, n)) = ToSet(tr) \union {n}
    BY <2>2 DEF ToSet
  <2> QED BY <2>1, <2>2, <2>3
<1> QED BY <1>1, <1>2

LEMMA AddReadGrows ==
    ASSUME NEW N, NEW tr \in Seq(N), NEW n \in N
    PROVE  /\ Len(tr) <= Len(AddRead(tr, n))
           /\ \A j \in 1..Len(tr) : AddRead(tr, n)[j] = tr[j]
           /\ Len(AddRead(tr, n)) > Len(tr) => /\ Len(AddRead(tr, n)) = Len(tr) + 1
                                               /\ AddRead(tr, n)[Len(tr) + 1] = n
<1>1. CASE n \in ToSet(tr)
  BY <1>1 DEF AddRead, ToSet
<1>2. CASE n \notin ToSet(tr)
  <2>1. AddRead(tr, n) = Append(tr, n)
    BY <1>2 DEF AddRead
  <2>2. /\ Append(tr, n) \in Seq(N) /\ Len(Append(tr, n)) = Len(tr) + 1
        /\ \A j \in 1..Len(tr) : Append(tr, n)[j] = tr[j]
        /\ Append(tr, n)[Len(tr) + 1] = n
    OBVIOUS
  <2> QED BY <2>1, <2>2
<1> QED BY <1>1, <1>2

-----------------------------------------------------------------------------
(* One session *)

(* The nodes that the reads of a session are recorded as. *)
NodesOf(s) == {s.nodeOf[q] : q \in s.needed}

LEMMA SessionReads ==
    ASSUME NEW w, NEW inp, NEW s, IsSession(w, inp, s)
    PROVE  /\ s.needed \subseteq Queries
           /\ s.value \in [s.needed -> Values]
           /\ \A q \in s.needed :
                 /\ s.reads[q] \in Seq(s.needed)
                 /\ Len(s.reads[q]) \in Nat
                 /\ \A k \in 1..Len(s.reads[q]) : s.reads[q][k] \in s.needed
<1>1. /\ s.needed \subseteq Queries /\ s.value \in [s.needed -> Values]
      /\ s.reads \in [s.needed -> Seq(s.needed)]
  BY Zenon DEF IsSession
<1> QED BY <1>1

LEMMA ReadsInduction ==
    ASSUME NEW w, NEW inp, NEW s, IsSession(w, inp, s), NEW X,
           \A q \in s.needed :
              (\A k \in 1..Len(s.reads[q]) : s.reads[q][k] \in X) => q \in X
    PROVE  s.needed \subseteq X
<1> DEFINE T == s.needed \ X
<1> SUFFICES ASSUME T # {} PROVE FALSE
  OBVIOUS
<1>1. PICK q \in T : ToSet(s.reads[q]) \intersect T = {}
  <2>1. \A U \in SUBSET s.needed : U # {} => \E q \in U : ToSet(s.reads[q]) \intersect U = {}
    BY Zenon DEF IsSession
  <2> QED BY <2>1
<1>2. \A k \in 1..Len(s.reads[q]) : s.reads[q][k] \in X
  BY <1>1, SessionReads DEF ToSet
<1> QED BY <1>2

LEMMA SessionTrail ==
    ASSUME NEW w, NEW inp, NEW s, IsSession(w, inp, s), NEW q \in s.needed
    PROVE  /\ s.trail[q][0] = << >>
           /\ \A k \in 1..Len(s.reads[q]) :
                 s.trail[q][k] = AddRead(s.trail[q][k - 1], s.nodeOf[s.reads[q][k]])
           /\ \A k \in 1..Len(s.reads[q]) : s.nodeOf[s.reads[q][k]] \in NodesOf(s)
<1>1. /\ s.trail[q][0] = << >>
      /\ \A k \in 1..Len(s.reads[q]) :
            s.trail[q][k] = AddRead(s.trail[q][k - 1], s.nodeOf[s.reads[q][k]])
  BY Zenon DEF IsSession
<1>2. \A k \in 1..Len(s.reads[q]) : s.nodeOf[s.reads[q][k]] \in NodesOf(s)
  BY SessionReads DEF NodesOf
<1> QED BY <1>1, <1>2

LEMMA TrailNext ==
    ASSUME NEW w, NEW inp, NEW s, IsSession(w, inp, s), NEW q \in s.needed,
           NEW k \in 0..Len(s.reads[q]), k < Len(s.reads[q])
    PROVE  s.trail[q][k + 1] = AddRead(s.trail[q][k], s.nodeOf[s.reads[q][k + 1]])
<1>1. Len(s.reads[q]) \in Nat
  BY SessionReads
<1>2. PICK l \in 1..Len(s.reads[q]) : l = k + 1 /\ l - 1 = k
  BY <1>1
<1>3. s.trail[q][l] = AddRead(s.trail[q][l - 1], s.nodeOf[s.reads[q][l]])
  BY SessionTrail
<1> QED BY <1>2, <1>3

(* One of the first k reads of q was recorded as n. *)
ReadAs(s, q, k, n) == \E j \in 1..k : s.nodeOf[s.reads[q][j]] = n

LEMMA TrailSet ==
    ASSUME NEW w, NEW inp, NEW s, IsSession(w, inp, s), NEW q \in s.needed,
           NEW k \in 0..Len(s.reads[q])
    PROVE  /\ s.trail[q][k] \in Seq(NodesOf(s))
           /\ \A j \in 1..k : s.nodeOf[s.reads[q][j]] \in ToSet(s.trail[q][k])
           /\ \A n \in ToSet(s.trail[q][k]) : ReadAs(s, q, k, n)
<1> DEFINE L == Len(s.reads[q])
           N == NodesOf(s)
           X == {l \in 0..L :
                   /\ s.trail[q][l] \in Seq(N)
                   /\ \A n : n \in ToSet(s.trail[q][l]) <=> \E j \in 1..l : n = s.nodeOf[s.reads[q][j]]}
<1>1. L \in Nat
  BY SessionReads
<1>2. 0 \in X
  <2>1. << >> \in Seq(N) /\ ToSet(<< >>) = {}
    BY DEF ToSet
  <2>2. 0 \in 0..L /\ 1..0 = {}
    BY <1>1
  <2>3. s.trail[q][0] = << >>
    BY SessionTrail
  <2> QED BY <2>1, <2>2, <2>3
<1>3. ASSUME NEW l \in 0..L-1, l \in X PROVE l + 1 \in X
  <2>1. l + 1 \in 1..L /\ l + 1 \in 0..L /\ (l + 1) - 1 = l
    BY <1>1
  <2>2. s.trail[q][l + 1] = AddRead(s.trail[q][l], s.nodeOf[s.reads[q][l + 1]])
    BY <2>1, SessionTrail
  <2>3. s.nodeOf[s.reads[q][l + 1]] \in N
    BY <2>1, SessionTrail
  <2>4. /\ s.trail[q][l] \in Seq(N)
        /\ \A n : n \in ToSet(s.trail[q][l]) <=> \E j \in 1..l : n = s.nodeOf[s.reads[q][j]]
    BY <1>3
  <2>5. PICK tr \in Seq(N), m \in N : tr = s.trail[q][l] /\ m = s.nodeOf[s.reads[q][l + 1]]
    BY <2>3, <2>4, Zenon
  <2>6. AddRead(tr, m) \in Seq(N) /\ ToSet(AddRead(tr, m)) = ToSet(tr) \union {m}
    BY AddReadSet
  <2>7. s.trail[q][l + 1] \in Seq(N)
    BY <2>2, <2>5, <2>6
  <2>8. ASSUME NEW n
        PROVE  n \in ToSet(s.trail[q][l + 1]) <=> \E j \in 1..(l + 1) : n = s.nodeOf[s.reads[q][j]]
    <3>1. n \in ToSet(s.trail[q][l + 1]) <=> n \in ToSet(s.trail[q][l]) \/ n = m
      BY <2>2, <2>5, <2>6
    <3>2. \A j : j \in 1..(l + 1) <=> j \in 1..l \/ j = l + 1
      BY <1>1
    <3>3. n \in ToSet(s.trail[q][l]) <=> \E j \in 1..l : n = s.nodeOf[s.reads[q][j]]
      BY <2>4, Zenon
    <3> QED BY <2>5, <3>1, <3>2, <3>3, Zenon
  <2> QED BY <2>1, <2>7, <2>8
<1>4. k \in X
  <2> HIDE DEF X, L
  <2> QED BY <1>1, <1>2, <1>3, UpTo DEF L
<1> QED BY <1>4, Zenon DEF ReadAs

Extends(b, a) == Len(a) <= Len(b) /\ \A j \in 1..Len(a) : b[j] = a[j]

LEMMA TrailPrefix ==
    ASSUME NEW w, NEW inp, NEW s, IsSession(w, inp, s), NEW q \in s.needed,
           NEW k \in 0..Len(s.reads[q])
    PROVE  /\ Edges(s, q) \in Seq(NodesOf(s))
           /\ Extends(Edges(s, q), s.trail[q][k])
<1> DEFINE L == Len(s.reads[q])
           N == NodesOf(s)
           X == {l \in 0..L : l >= k => /\ Len(s.trail[q][k]) <= Len(s.trail[q][l])
                                        /\ \A j \in 1..Len(s.trail[q][k]) :
                                              s.trail[q][l][j] = s.trail[q][k][j]}
<1>1. L \in Nat
  BY SessionReads
<1>2. \A l \in 0..L : s.trail[q][l] \in Seq(N)
  BY TrailSet
<1>3. 0 \in X
  BY <1>1, <1>2
<1>4. ASSUME NEW l \in 0..L-1, l \in X PROVE l + 1 \in X
  <2>1. l + 1 \in 1..L /\ (l + 1) - 1 = l
    BY <1>1
  <2>2. s.trail[q][l + 1] = AddRead(s.trail[q][l], s.nodeOf[s.reads[q][l + 1]])
    <3>1. \A j \in 1..L : s.trail[q][j] = AddRead(s.trail[q][j - 1], s.nodeOf[s.reads[q][j]])
      BY SessionTrail
    <3>2. s.trail[q][l + 1] = AddRead(s.trail[q][(l + 1) - 1], s.nodeOf[s.reads[q][l + 1]])
      BY <2>1, <3>1, Zenon
    <3> QED BY <2>1, <3>2, Zenon
  <2>3. s.nodeOf[s.reads[q][l + 1]] \in N
    <3>1. \A j \in 1..L : s.nodeOf[s.reads[q][j]] \in N
      BY SessionTrail, Zenon
    <3> QED BY <2>1, <3>1, Zenon
  <2>4. s.trail[q][l] \in Seq(N)
    BY <1>1, <1>2
  <2>5. /\ Len(s.trail[q][l]) <= Len(s.trail[q][l + 1])
        /\ \A j \in 1..Len(s.trail[q][l]) : s.trail[q][l + 1][j] = s.trail[q][l][j]
    <3> DEFINE a == AddRead(s.trail[q][l], s.nodeOf[s.reads[q][l + 1]])
    <3>1. Len(s.trail[q][l]) <= Len(a) /\ \A j \in 1..Len(s.trail[q][l]) : a[j] = s.trail[q][l][j]
      BY <2>3, <2>4, AddReadGrows, ZenonT(60)
    <3> QED BY <2>2, <3>1, Zenon
  <2>6. CASE l + 1 > k
    <3>1. Len(s.trail[q][k]) \in Nat /\ Len(s.trail[q][l]) \in Nat /\ Len(s.trail[q][l + 1]) \in Nat
      <4>1. k \in 0..L /\ l \in 0..L /\ l + 1 \in 0..L
        BY <1>1
      <4>2. s.trail[q][k] \in Seq(N) /\ s.trail[q][l] \in Seq(N) /\ s.trail[q][l + 1] \in Seq(N)
        BY <1>2, <4>1, Zenon
      <4> QED BY <4>2, LenProperties, Zenon
    <3>2. /\ Len(s.trail[q][k]) <= Len(s.trail[q][l])
          /\ \A j \in 1..Len(s.trail[q][k]) : s.trail[q][l][j] = s.trail[q][k][j]
      BY <1>1, <1>4, <2>6
    <3> HIDE DEF L
    <3> QED BY SMTT(30), <1>1, <2>1, <2>5, <3>1, <3>2
  <2>7. CASE l + 1 = k
    BY <1>1, <1>2, <2>1, <2>7
  <2>8. CASE l + 1 < k
    BY <1>1, <2>1, <2>8
  <2> QED BY <1>1, <2>6, <2>7, <2>8
<1>5. L \in X
  <2>1. L \in 0..L
    BY <1>1
  <2> HIDE DEF X, L
  <2> QED BY <1>1, <1>3, <1>4, <2>1, UpTo
<1>6. L \in 0..L /\ L >= k
  BY <1>1
<1>7. s.trail[q][L] \in Seq(N)
  BY <1>2, <1>6, Zenon
<1> QED BY <1>5, <1>6, <1>7, Zenon DEF Edges, Extends

(* A query has a node of its own unless it is anonymous and read one node:  *)
(* then it stands for that node.                                            *)
Direct(w, s, q) == q \notin w.anon \/ Len(Edges(s, q)) # 1

NodeRecord(w, s, q) ==
    [edges |-> Edges(s, q),
     fp    |-> IF q \in w.anon \/ q \in w.nohash THEN ZERO ELSE s.value[q]]

LEMMA DirectNode ==
    ASSUME NEW w, NEW inp, NEW s, IsSession(w, inp, s), NEW q \in s.needed, Direct(w, s, q)
    PROVE  /\ s.nodeOf[q] \in DOMAIN s.node
           /\ s.node[s.nodeOf[q]].edges = Edges(s, q)
           /\ q \notin w.anon => s.nodeOf[q] = q
           /\ q \in w.anon => s.nodeOf[q] = Edges(s, q) /\ Edges(s, q) \notin Queries
           /\ s.nodeOf[q] \in Queries => s.nodeOf[q] = q
           /\ s.node[s.nodeOf[q]] = NodeRecord(w, s, q)
<1>1. /\ s.nodeOf[q] = IF q \in w.anon THEN AnonNode(Edges(s, q)) ELSE q
      /\ q \in w.anon /\ Len(Edges(s, q)) # 1 => Edges(s, q) \notin Queries
  BY Zenon DEF IsSession
<1>2. DOMAIN s.node = (s.needed \ w.anon) \union
          {Edges(s, r) : r \in {x \in s.needed \intersect w.anon : Len(Edges(s, x)) # 1}}
  BY Zenon DEF IsSession
<1>3. \A n \in DOMAIN s.node :
          s.node[n] = IF n \in Queries
                      THEN [edges |-> Edges(s, n),
                            fp    |-> IF n \in w.nohash THEN ZERO ELSE s.value[n]]
                      ELSE [edges |-> n, fp |-> ZERO]
  BY Zenon DEF IsSession
<1>4. s.needed \subseteq Queries
  BY SessionReads
<1>5. CASE q \notin w.anon
  <2>1. s.nodeOf[q] = q /\ q \in DOMAIN s.node /\ q \in Queries
    BY <1>1, <1>2, <1>4, <1>5
  <2>2. s.node[q] = [edges |-> Edges(s, q), fp |-> IF q \in w.nohash THEN ZERO ELSE s.value[q]]
    BY <1>3, <2>1, Zenon
  <2>3. s.node[q].edges = Edges(s, q)
    BY <2>2
  <2> QED BY <1>5, <2>1, <2>2, <2>3 DEF NodeRecord
<1>6. CASE q \in w.anon
  <2>1. Len(Edges(s, q)) # 1
    BY <1>6 DEF Direct
  <2>2. s.nodeOf[q] = Edges(s, q) /\ Edges(s, q) \notin Queries
    BY <1>1, <1>6, <2>1 DEF AnonNode
  <2>3. Edges(s, q) \in DOMAIN s.node
    BY <1>2, <1>6, <2>1
  <2>4. s.node[Edges(s, q)] = [edges |-> Edges(s, q), fp |-> ZERO]
    BY <1>3, <2>2, <2>3, Zenon
  <2>5. s.node[Edges(s, q)].edges = Edges(s, q)
    BY <2>4
  <2> QED BY <1>6, <2>2, <2>3, <2>4, <2>5 DEF NodeRecord
<1> QED BY <1>5, <1>6

LEMMA AliasNode ==
    ASSUME NEW w, NEW inp, NEW s, IsSession(w, inp, s), NEW q \in s.needed, ~Direct(w, s, q)
    PROVE  /\ q \in w.anon /\ Edges(s, q) = <<s.nodeOf[q]>>
           /\ Len(s.reads[q]) > 0
           /\ \A k \in 1..Len(s.reads[q]) : s.nodeOf[s.reads[q][k]] = s.nodeOf[q]
<1>1. q \in w.anon /\ Len(Edges(s, q)) = 1
  BY DEF Direct
<1>2. s.nodeOf[q] = Edges(s, q)[1]
  <2>1. s.nodeOf[q] = IF q \in w.anon THEN AnonNode(Edges(s, q)) ELSE q
    BY Zenon DEF IsSession
  <2> QED BY <1>1, <2>1 DEF AnonNode
<1>3. Len(s.reads[q]) \in Nat
  BY SessionReads
<1>4. Edges(s, q) \in Seq(NodesOf(s))
  BY <1>3, TrailPrefix
<1>5. /\ \A j \in 1..Len(s.reads[q]) : s.nodeOf[s.reads[q][j]] \in ToSet(Edges(s, q))
      /\ \A n \in ToSet(Edges(s, q)) : ReadAs(s, q, Len(s.reads[q]), n)
  <2>1. Len(s.reads[q]) \in 0..Len(s.reads[q])
    BY <1>3
  <2> QED BY <2>1, TrailSet DEF Edges
<1>6. Edges(s, q) = <<s.nodeOf[q]>>
  BY <1>1, <1>2, <1>4
<1>7. ToSet(Edges(s, q)) = {s.nodeOf[q]}
  BY <1>6 DEF ToSet
<1>8. Len(s.reads[q]) > 0
  <2>1. PICK j \in 1..Len(s.reads[q]) : s.nodeOf[s.reads[q][j]] = s.nodeOf[q]
    BY <1>5, <1>7 DEF ReadAs
  <2> QED BY <1>3, <2>1
<1>9. \A k \in 1..Len(s.reads[q]) : s.nodeOf[s.reads[q][k]] = s.nodeOf[q]
  BY <1>5, <1>7
<1> QED BY <1>1, <1>6, <1>8, <1>9

LEMMA NodeHasQuery ==
    ASSUME NEW w, NEW inp, NEW s, IsSession(w, inp, s), NEW n \in DOMAIN s.node
    PROVE  /\ \E q \in s.needed : Direct(w, s, q) /\ s.nodeOf[q] = n
           /\ n \in Queries => n \in s.needed \ w.anon /\ s.nodeOf[n] = n
<1>1. DOMAIN s.node = (s.needed \ w.anon) \union
          {Edges(s, r) : r \in {x \in s.needed \intersect w.anon : Len(Edges(s, x)) # 1}}
  BY Zenon DEF IsSession
<1>2. CASE n \in s.needed \ w.anon
  <2>1. Direct(w, s, n)
    BY <1>2 DEF Direct
  <2>2. s.nodeOf[n] = n
    BY <1>2, <2>1, DirectNode
  <2> QED BY <1>2, <2>1, <2>2
<1>3. CASE n \notin s.needed \ w.anon
  <2>1. PICK r \in s.needed \intersect w.anon : Len(Edges(s, r)) # 1 /\ n = Edges(s, r)
    BY <1>1, <1>3
  <2>2. Direct(w, s, r)
    BY <2>1 DEF Direct
  <2>3. s.nodeOf[r] = n /\ n \notin Queries
    BY <2>1, <2>2, DirectNode
  <2> QED BY <2>1, <2>2, <2>3
<1> QED BY <1>2, <1>3

LEMMA NodeOfIsNode ==
    ASSUME NEW w, NEW inp, NEW s, IsSession(w, inp, s)
    PROVE  NodesOf(s) \subseteq DOMAIN s.node
<1> DEFINE X == {q \in s.needed : s.nodeOf[q] \in DOMAIN s.node}
<1>1. ASSUME NEW q \in s.needed, \A k \in 1..Len(s.reads[q]) : s.reads[q][k] \in X
      PROVE  q \in X
  <2>1. CASE Direct(w, s, q)
    BY <2>1, DirectNode
  <2>2. CASE ~Direct(w, s, q)
    <3>1. Len(s.reads[q]) \in Nat /\ Len(s.reads[q]) > 0
      BY <2>2, AliasNode, SessionReads
    <3>2. s.nodeOf[s.reads[q][1]] = s.nodeOf[q]
      BY <2>2, <3>1, AliasNode
    <3> QED BY <1>1, <3>1, <3>2
  <2> QED BY <2>1, <2>2
<1>2. s.needed \subseteq X
  <2> HIDE DEF X
  <2> QED BY <1>1, ReadsInduction
<1> QED BY <1>2 DEF NodesOf

LEMMA EdgesAreNodes ==
    ASSUME NEW w, NEW inp, NEW s, IsSession(w, inp, s), NEW n \in DOMAIN s.node
    PROVE  /\ s.node[n].edges \in Seq(DOMAIN s.node)
           /\ Len(s.node[n].edges) \in Nat
           /\ \A i \in 1..Len(s.node[n].edges) : s.node[n].edges[i] \in DOMAIN s.node
           /\ ToSet(s.node[n].edges) = {s.node[n].edges[i] : i \in 1..Len(s.node[n].edges)}
           /\ ToSet(s.node[n].edges) \subseteq DOMAIN s.node
<1>1. PICK q \in s.needed : Direct(w, s, q) /\ s.nodeOf[q] = n
  BY NodeHasQuery
<1>2. s.node[n].edges = Edges(s, q)
  BY <1>1, DirectNode
<1>3. Edges(s, q) \in Seq(NodesOf(s))
  <2>1. 0 \in 0..Len(s.reads[q])
    BY SessionReads
  <2> QED BY <2>1, TrailPrefix
<1>4. Edges(s, q) \in Seq(DOMAIN s.node)
  BY <1>3, NodeOfIsNode, SeqMonotonic
<1> QED BY <1>2, <1>4 DEF ToSet

-----------------------------------------------------------------------------
(* Two sessions of one world: c.old, the previous one, and c.now *)

Context(c) ==
    /\ c.w \in Worlds
    /\ IsSession(c.w, c.inp, c.now)
    /\ IsSession(c.w, c.before, c.old)

Both(c) == c.now.needed \intersect c.old.needed

(* A query has the result and the node that it had in the previous session. *)
Same(c, r) == c.now.value[r] = c.old.value[r] /\ c.now.nodeOf[r] = c.old.nodeOf[r]

(* The first k reads of q are those of the previous session. *)
Agree(c, q, k) ==
    /\ k \in 0..Len(c.old.reads[q]) /\ k \in 0..Len(c.now.reads[q])
    /\ \A j \in 1..k : c.now.reads[q][j] = c.old.reads[q][j] /\ Same(c, c.old.reads[q][j])
    /\ c.now.trail[q][k] = c.old.trail[q][k]

LEMMA AgreeZero ==
    ASSUME NEW c, Context(c), NEW q \in Both(c)
    PROVE  Agree(c, q, 0)
<1>1. IsSession(c.w, c.inp, c.now) /\ IsSession(c.w, c.before, c.old)
  BY DEF Context
<1>2. q \in c.now.needed /\ q \in c.old.needed
  BY DEF Both
<1>3. Len(c.now.reads[q]) \in Nat /\ Len(c.old.reads[q]) \in Nat
  BY <1>1, <1>2, SessionReads
<1>4. c.now.trail[q][0] = << >> /\ c.old.trail[q][0] = << >>
  BY <1>1, <1>2, SessionTrail
<1> QED BY <1>3, <1>4 DEF Agree

LEMMA SameNextStep ==
    ASSUME NEW c, Context(c), NEW q \in Both(c), q \notin c.w.inputs, NEW k, Agree(c, q, k)
    PROVE  Step(c.w, q, c.inp, Seen(c.now, q, k)) = Step(c.w, q, c.before, Seen(c.old, q, k))
<1>1. Seen(c.now, q, k) = Seen(c.old, q, k)
  BY DEF Agree, Same, Seen
<1> QED BY <1>1 DEF Step

LEMMA StepOf ==
    ASSUME NEW w, NEW inp, NEW s, IsSession(w, inp, s), NEW q \in s.needed,
           NEW k \in 0..Len(s.reads[q])
    PROVE  /\ k < Len(s.reads[q]) => Step(w, q, inp, Seen(s, q, k)).read = s.reads[q][k + 1]
           /\ k = Len(s.reads[q]) => /\ Step(w, q, inp, Seen(s, q, k)).read = NoQuery
                                     /\ Step(w, q, inp, Seen(s, q, k)).value = s.value[q]
<1>1. /\ Step(w, q, inp, Seen(s, q, k)).read =
             IF k < Len(s.reads[q]) THEN s.reads[q][k + 1] ELSE NoQuery
      /\ Step(w, q, inp, Seen(s, q, Len(s.reads[q]))).value = s.value[q]
  <2>1. /\ \A l \in 0..Len(s.reads[q]) :
              Step(w, q, inp, Seen(s, q, l)).read =
                 IF l < Len(s.reads[q]) THEN s.reads[q][l + 1] ELSE NoQuery
        /\ Step(w, q, inp, Seen(s, q, Len(s.reads[q]))).value = s.value[q]
    BY Zenon DEF IsSession
  <2> QED BY <2>1
<1>2. Len(s.reads[q]) \in Nat
  BY SessionReads
<1> QED BY <1>1, <1>2

LEMMA AgreeNext ==
    ASSUME NEW c, Context(c), NEW q \in Both(c), q \notin c.w.inputs,
           NEW k, Agree(c, q, k), k < Len(c.old.reads[q])
    PROVE  /\ k < Len(c.now.reads[q]) /\ c.now.reads[q][k + 1] = c.old.reads[q][k + 1]
           /\ c.old.reads[q][k + 1] \in Both(c)
<1> DEFINE so == Step(c.w, q, c.before, Seen(c.old, q, k))
           sn == Step(c.w, q, c.inp, Seen(c.now, q, k))
<1>1. IsSession(c.w, c.inp, c.now) /\ IsSession(c.w, c.before, c.old)
  BY DEF Context
<1>2. q \in c.now.needed /\ q \in c.old.needed
  BY DEF Both
<1>3. Len(c.now.reads[q]) \in Nat /\ Len(c.old.reads[q]) \in Nat
  BY <1>1, <1>2, SessionReads
<1>4. k \in 0..Len(c.old.reads[q]) /\ k \in 0..Len(c.now.reads[q])
  BY DEF Agree
<1>5. k + 1 \in 1..Len(c.old.reads[q])
  BY <1>3, <1>4
<1>6. so.read = c.old.reads[q][k + 1] /\ c.old.reads[q][k + 1] \in c.old.needed
  BY SMTT(30), <1>1, <1>2, <1>4, <1>5, StepOf, SessionReads
<1>7. sn = so
  BY SameNextStep
<1>8. k < Len(c.now.reads[q])
  <2>1. SUFFICES ASSUME k = Len(c.now.reads[q]) PROVE FALSE
    BY <1>3, <1>4
  <2>2. sn.read = NoQuery
    BY <1>1, <1>2, <1>4, <2>1, StepOf
  <2>3. c.old.needed \subseteq Queries
    BY <1>1, SessionReads
  <2> QED BY <1>6, <1>7, <2>2, <2>3, GraphAssumption
<1>9. sn.read = c.now.reads[q][k + 1]
  BY <1>1, <1>2, <1>4, <1>8, StepOf
<1>10. k + 1 \in 1..Len(c.now.reads[q])
  BY <1>3, <1>4, <1>8
<1>11. c.now.reads[q][k + 1] \in c.now.needed
  BY <1>1, <1>2, <1>10, SessionReads
<1> QED BY <1>6, <1>7, <1>8, <1>9, <1>11 DEF Both

LEMMA AgreeStep ==
    ASSUME NEW c, Context(c), NEW q \in Both(c), q \notin c.w.inputs,
           NEW k, Agree(c, q, k), k < Len(c.old.reads[q]), Same(c, c.old.reads[q][k + 1])
    PROVE  Agree(c, q, k + 1)
<1>1. IsSession(c.w, c.inp, c.now) /\ IsSession(c.w, c.before, c.old)
  BY DEF Context
<1>2. q \in c.now.needed /\ q \in c.old.needed
  BY DEF Both
<1>3. Len(c.now.reads[q]) \in Nat /\ Len(c.old.reads[q]) \in Nat
  BY <1>1, <1>2, SessionReads
<1>4. /\ k < Len(c.now.reads[q])
      /\ c.now.reads[q][k + 1] = c.old.reads[q][k + 1]
  BY AgreeNext
<1>5. k \in 0..Len(c.old.reads[q]) /\ k \in 0..Len(c.now.reads[q])
  BY DEF Agree
<1>6. /\ k + 1 \in 1..Len(c.old.reads[q]) /\ k + 1 \in 1..Len(c.now.reads[q])
      /\ (k + 1) - 1 = k
  BY <1>3, <1>4, <1>5
<1>7. c.now.trail[q][k + 1] = c.old.trail[q][k + 1]
  <2>1. c.now.trail[q][k + 1] = AddRead(c.now.trail[q][k], c.now.nodeOf[c.now.reads[q][k + 1]])
    BY SMTT(30), <1>1, <1>2, <1>4, <1>5, TrailNext
  <2>2. c.old.trail[q][k + 1] = AddRead(c.old.trail[q][k], c.old.nodeOf[c.old.reads[q][k + 1]])
    BY <1>1, <1>2, <1>4, <1>5, TrailNext
  <2>3. c.now.trail[q][k] = c.old.trail[q][k]
    BY DEF Agree
  <2>4. c.now.nodeOf[c.now.reads[q][k + 1]] = c.old.nodeOf[c.old.reads[q][k + 1]]
    BY <1>4 DEF Same
  <2> QED BY <2>1, <2>2, <2>3, <2>4, Zenon
<1>8. \A j \in 1..(k + 1) : c.now.reads[q][j] = c.old.reads[q][j] /\ Same(c, c.old.reads[q][j])
  <2>1. \A j \in 1..(k + 1) : j \in 1..k \/ j = k + 1
    BY <1>5
  <2> QED BY <1>4, <2>1 DEF Agree
<1> QED BY <1>6, <1>7, <1>8 DEF Agree

LEMMA AgreeEnd ==
    ASSUME NEW c, Context(c), NEW q \in Both(c), q \notin c.w.inputs,
           Agree(c, q, Len(c.old.reads[q]))
    PROVE  Same(c, q) /\ Edges(c.now, q) = Edges(c.old, q)
<1>0. PICK k : k = Len(c.old.reads[q])
  OBVIOUS
<1>1. IsSession(c.w, c.inp, c.now) /\ IsSession(c.w, c.before, c.old)
  BY DEF Context
<1>2. q \in c.now.needed /\ q \in c.old.needed
  BY DEF Both
<1>3. Len(c.now.reads[q]) \in Nat /\ Len(c.old.reads[q]) \in Nat
  BY <1>1, <1>2, SessionReads
<1>4. /\ k \in 0..Len(c.old.reads[q]) /\ k \in 0..Len(c.now.reads[q])
      /\ c.now.trail[q][k] = c.old.trail[q][k]
  BY <1>0 DEF Agree
<1>5. /\ Step(c.w, q, c.before, Seen(c.old, q, k)).read = NoQuery
      /\ Step(c.w, q, c.before, Seen(c.old, q, k)).value = c.old.value[q]
  BY <1>0, <1>1, <1>2, <1>4, StepOf
<1>6. Step(c.w, q, c.inp, Seen(c.now, q, k)) = Step(c.w, q, c.before, Seen(c.old, q, k))
  BY <1>0, SameNextStep
<1>7. k = Len(c.now.reads[q])
  <2>1. SUFFICES ASSUME k < Len(c.now.reads[q]) PROVE FALSE
    BY <1>3, <1>4
  <2>2. Step(c.w, q, c.inp, Seen(c.now, q, k)).read = c.now.reads[q][k + 1]
    BY <1>1, <1>2, <1>4, <2>1, StepOf
  <2>3. k + 1 \in 1..Len(c.now.reads[q])
    BY <1>3, <1>4, <2>1
  <2>4. c.now.reads[q][k + 1] \in c.now.needed /\ c.now.needed \subseteq Queries
    BY <1>1, <1>2, <2>3, SessionReads
  <2> QED BY <1>5, <1>6, <2>2, <2>4, GraphAssumption
<1>8. Step(c.w, q, c.inp, Seen(c.now, q, k)).value = c.now.value[q]
  BY <1>1, <1>2, <1>4, <1>7, StepOf
<1>9. Edges(c.now, q) = Edges(c.old, q)
  BY <1>0, <1>4, <1>7 DEF Edges
<1>10. /\ c.now.nodeOf[q] = IF q \in c.w.anon THEN AnonNode(Edges(c.now, q)) ELSE q
       /\ c.old.nodeOf[q] = IF q \in c.w.anon THEN AnonNode(Edges(c.old, q)) ELSE q
  BY <1>1, <1>2, Zenon DEF IsSession
<1> QED BY <1>5, <1>6, <1>8, <1>9, <1>10 DEF Same

LEMMA AgreeAll ==
    ASSUME NEW c, Context(c), NEW q \in Both(c), q \notin c.w.inputs,
           \A k \in 0..(Len(c.old.reads[q]) - 1) :
              Agree(c, q, k) => Same(c, c.old.reads[q][k + 1])
    PROVE  Same(c, q) /\ Edges(c.now, q) = Edges(c.old, q)
<1> DEFINE L == Len(c.old.reads[q])
           X == {k \in 0..L : Agree(c, q, k)}
<1>1. L \in Nat
  BY SessionReads DEF Context, Both
<1>2. 0 \in X
  BY <1>1, AgreeZero
<1>3. ASSUME NEW k \in 0..L-1, k \in X PROVE k + 1 \in X
  <2>1. Agree(c, q, k) /\ k < Len(c.old.reads[q])
    BY <1>1, <1>3
  <2>2. Same(c, c.old.reads[q][k + 1])
    BY <2>1
  <2>3. Agree(c, q, k + 1)
    BY <2>1, <2>2, AgreeStep
  <2> QED BY <1>1, <2>3
<1>4. L \in X
  <2>1. L \in 0..L
    BY <1>1
  <2> HIDE DEF X, L
  <2> QED BY <1>1, <1>2, <1>3, <2>1, UpTo
<1> QED BY <1>4, AgreeEnd

(* An old node is wanted if a query that is still needed was recorded as it. *)
Wanted(c, n) == \E r \in Both(c) : c.old.nodeOf[r] = n

(* An old node is stable if it is a node of this session, too, for the same *)
(* queries with the same results.                                           *)
Stable(c, n) ==
    /\ n \in DOMAIN c.now.node
    /\ \A r \in Both(c) : c.old.nodeOf[r] = n => Same(c, r)

(* r is needed in both sessions and n is its own old node. *)
DirectFor(c, n, r) == r \in Both(c) /\ Direct(c.w, c.old, r) /\ c.old.nodeOf[r] = n

LEMMA AnonNotInput ==
    ASSUME NEW c, Context(c), NEW r \in c.w.anon
    PROVE  r \notin c.w.inputs /\ r \notin c.w.warns /\ r \notin c.w.disk
BY GraphAssumption DEF Context

LEMMA WantedDirect ==
    ASSUME NEW c, Context(c), NEW n, Wanted(c, n)
    PROVE  \E r : DirectFor(c, n, r)
<1> DEFINE X == {q \in c.old.needed :
                   q \in Both(c) /\ c.old.nodeOf[q] = n => \E r : DirectFor(c, n, r)}
<1>1. IsSession(c.w, c.before, c.old)
  BY DEF Context
<1>2. ASSUME NEW q \in c.old.needed, \A k \in 1..Len(c.old.reads[q]) : c.old.reads[q][k] \in X
      PROVE  q \in X
  <2> SUFFICES ASSUME q \in Both(c), c.old.nodeOf[q] = n
               PROVE  \E r : DirectFor(c, n, r)
    OBVIOUS
  <2>1. CASE Direct(c.w, c.old, q)
    BY <2>1 DEF DirectFor
  <2>2. CASE ~Direct(c.w, c.old, q)
    <3>1. q \in c.w.anon /\ Len(c.old.reads[q]) > 0 /\ Len(c.old.reads[q]) \in Nat
      BY <1>1, <2>2, AliasNode, SessionReads
    <3>2. q \notin c.w.inputs
      BY <3>1, AnonNotInput
    <3>3. c.old.reads[q][0 + 1] \in Both(c)
      BY <3>1, <3>2, AgreeZero, AgreeNext
    <3>4. c.old.nodeOf[c.old.reads[q][1]] = n
      BY <1>1, <2>2, <3>1, AliasNode
    <3>5. c.old.reads[q][1] \in X
      BY <1>2, <3>1
    <3> QED BY <3>3, <3>4, <3>5
  <2> QED BY <2>1, <2>2
<1>3. c.old.needed \subseteq X
  <2> HIDE DEF X
  <2> QED BY <1>1, <1>2, ReadsInduction
<1>4. PICK r \in Both(c) : c.old.nodeOf[r] = n
  BY DEF Wanted
<1>5. r \in X
  BY <1>3 DEF Both
<1> QED BY <1>4, <1>5

LEMMA StableIf ==
    ASSUME NEW c, Context(c), NEW n \in DOMAIN c.now.node,
           \A r : DirectFor(c, n, r) => Same(c, r)
    PROVE  Stable(c, n)
<1> DEFINE X == {q \in c.old.needed : q \in Both(c) /\ c.old.nodeOf[q] = n => Same(c, q)}
<1>1. IsSession(c.w, c.before, c.old)
  BY DEF Context
<1>2. ASSUME NEW q \in c.old.needed, \A k \in 1..Len(c.old.reads[q]) : c.old.reads[q][k] \in X
      PROVE  q \in X
  <2> SUFFICES ASSUME q \in Both(c), c.old.nodeOf[q] = n
               PROVE  Same(c, q)
    OBVIOUS
  <2>1. CASE Direct(c.w, c.old, q)
    BY <2>1 DEF DirectFor
  <2>2. CASE ~Direct(c.w, c.old, q)
    <3>1. q \in c.w.anon /\ Len(c.old.reads[q]) \in Nat
      BY <1>1, <2>2, AliasNode, SessionReads
    <3>2. q \notin c.w.inputs
      BY <3>1, AnonNotInput
    <3>3. ASSUME NEW k \in 0..(Len(c.old.reads[q]) - 1), Agree(c, q, k)
          PROVE  Same(c, c.old.reads[q][k + 1])
      <4>1. k < Len(c.old.reads[q]) /\ k + 1 \in 1..Len(c.old.reads[q])
        BY <3>1
      <4>2. c.old.reads[q][k + 1] \in Both(c)
        BY <3>2, <3>3, <4>1, AgreeNext
      <4>3. c.old.nodeOf[c.old.reads[q][k + 1]] = n
        BY <1>1, <2>2, <4>1, AliasNode
      <4>4. c.old.reads[q][k + 1] \in X
        BY <1>2, <4>1
      <4> QED BY <4>2, <4>3, <4>4
    <3> QED BY <3>2, <3>3, AgreeAll
  <2> QED BY <2>1, <2>2
<1>3. c.old.needed \subseteq X
  <2> HIDE DEF X
  <2> QED BY <1>1, <1>2, ReadsInduction
<1> QED BY <1>3 DEF Stable, Both

(* A result that did not change makes its node stable. *)
LEMMA StableQuery ==
    ASSUME NEW c, Context(c), NEW n \in Queries, n \in DOMAIN c.old.node, n \in c.now.needed,
           c.now.value[n] = c.old.value[n]
    PROVE  Stable(c, n)
<1>1. IsSession(c.w, c.inp, c.now) /\ IsSession(c.w, c.before, c.old)
  BY DEF Context
<1>2. n \in c.old.needed /\ n \notin c.w.anon
  BY <1>1, NodeHasQuery
<1>3. Direct(c.w, c.now, n) /\ Direct(c.w, c.old, n)
  BY <1>2 DEF Direct
<1>4. c.now.nodeOf[n] = n /\ n \in DOMAIN c.now.node /\ c.old.nodeOf[n] = n
  BY <1>1, <1>2, <1>3, DirectNode
<1>5. ASSUME NEW r, DirectFor(c, n, r) PROVE Same(c, r)
  <2>1. r = n
    BY <1>1, <1>5, DirectNode DEF DirectFor, Both
  <2> QED BY <1>4, <2>1 DEF Same
<1> QED BY <1>4, <1>5, StableIf

LEMMA DirectForProps ==
    ASSUME NEW c, Context(c), NEW n, NEW r, DirectFor(c, n, r), n \notin c.w.inputs
    PROVE  /\ r \in Both(c) /\ r \in c.old.needed /\ r \in c.now.needed /\ r \notin c.w.inputs
           /\ Edges(c.old, r) = c.old.node[n].edges
           /\ n \in DOMAIN c.old.node
           /\ Len(c.old.reads[r]) \in Nat
<1>1. IsSession(c.w, c.before, c.old)
  BY DEF Context
<1>2. r \in Both(c) /\ r \in c.old.needed /\ r \in c.now.needed
  BY DEF DirectFor, Both
<1>3. /\ Edges(c.old, r) = c.old.node[n].edges /\ n \in DOMAIN c.old.node
      /\ r \notin c.w.anon => r = n
  BY <1>1, <1>2, DirectNode DEF DirectFor
<1>4. Len(c.old.reads[r]) \in Nat
  BY <1>1, <1>2, SessionReads
<1> QED BY <1>2, <1>3, <1>4, AnonNotInput

LEMMA StableByDeps ==
    ASSUME NEW c, Context(c), NEW n, n \notin c.w.inputs, Wanted(c, n),
           \A d \in ToSet(c.old.node[n].edges) : Stable(c, d)
    PROVE  Stable(c, n) /\ c.now.node[n] = c.old.node[n]
<1>1. IsSession(c.w, c.inp, c.now) /\ IsSession(c.w, c.before, c.old)
  BY DEF Context
<1>2. ASSUME NEW r, DirectFor(c, n, r)
      PROVE  Same(c, r) /\ Edges(c.now, r) = Edges(c.old, r)
  <2>1. /\ r \in Both(c) /\ r \in c.old.needed /\ r \notin c.w.inputs
        /\ Edges(c.old, r) = c.old.node[n].edges /\ Len(c.old.reads[r]) \in Nat
    BY <1>2, DirectForProps
  <2>2. ASSUME NEW k \in 0..(Len(c.old.reads[r]) - 1), Agree(c, r, k)
        PROVE  Same(c, c.old.reads[r][k + 1])
    <3>1. k < Len(c.old.reads[r]) /\ k + 1 \in 1..Len(c.old.reads[r])
      BY <2>1
    <3>2. c.old.reads[r][k + 1] \in Both(c)
      BY <2>1, <2>2, <3>1, AgreeNext
    <3>3. Len(c.old.reads[r]) \in 0..Len(c.old.reads[r])
      BY <2>1
    <3>4. c.old.nodeOf[c.old.reads[r][k + 1]] \in ToSet(Edges(c.old, r))
      BY <1>1, <2>1, <3>1, <3>3, TrailSet DEF Edges
    <3>5. Stable(c, c.old.nodeOf[c.old.reads[r][k + 1]])
      BY <2>1, <3>4
    <3> QED BY <3>2, <3>5 DEF Stable
  <2> QED BY <2>1, <2>2, AgreeAll
<1>3. PICK r : DirectFor(c, n, r)
  BY WantedDirect
<1>4. /\ r \in c.old.needed /\ r \in c.now.needed /\ Direct(c.w, c.old, r) /\ c.old.nodeOf[r] = n
  BY <1>3 DEF DirectFor, Both
<1>5. Same(c, r) /\ Edges(c.now, r) = Edges(c.old, r)
  BY <1>2, <1>3
<1>6. Direct(c.w, c.now, r)
  BY <1>4, <1>5 DEF Direct
<1>7. c.now.nodeOf[r] = n /\ c.now.value[r] = c.old.value[r]
  BY <1>4, <1>5 DEF Same
<1>8. /\ n \in DOMAIN c.now.node
      /\ c.now.node[n] = NodeRecord(c.w, c.now, r)
  BY <1>1, <1>4, <1>6, <1>7, DirectNode
<1>9. c.old.node[n] = NodeRecord(c.w, c.old, r)
  BY <1>1, <1>4, DirectNode
<1>10. Stable(c, n)
  BY <1>2, <1>8, StableIf
<1> QED BY <1>5, <1>7, <1>8, <1>9, <1>10 DEF NodeRecord

(* Marking looks at what the previous session recorded: as long as the      *)
(* dependencies before one are stable, the query reads it in this session,  *)
(* too.                                                                     *)
LEMMA DepWanted ==
    ASSUME NEW c, Context(c), NEW n, n \notin c.w.inputs, Wanted(c, n),
           NEW i \in 1..Len(c.old.node[n].edges),
           \A j \in 1..(i - 1) : Stable(c, c.old.node[n].edges[j])
    PROVE  Wanted(c, c.old.node[n].edges[i])
<1>1. IsSession(c.w, c.before, c.old)
  BY DEF Context
<1>2. PICK r : DirectFor(c, n, r)
  BY WantedDirect
<1>3. /\ r \in Both(c) /\ r \in c.old.needed /\ r \notin c.w.inputs
      /\ Edges(c.old, r) = c.old.node[n].edges /\ Len(c.old.reads[r]) \in Nat
  BY <1>2, DirectForProps
<1> DEFINE L == Len(c.old.reads[r])
           E == c.old.node[n].edges
           tr(k) == c.old.trail[r][k]
           X == {k \in 0..L : Len(tr(k)) < i => Agree(c, r, k)}
           T == {k \in 0..L : Len(tr(k)) >= i}
<1>4. \A k \in 0..L : /\ tr(k) \in Seq(NodesOf(c.old)) /\ Len(tr(k)) \in Nat
                      /\ Len(tr(k)) <= Len(E)
                      /\ \A j \in 1..Len(tr(k)) : E[j] = tr(k)[j]
  <2>1. ASSUME NEW k \in 0..L
        PROVE  /\ tr(k) \in Seq(NodesOf(c.old)) /\ Len(tr(k)) \in Nat
               /\ Len(tr(k)) <= Len(E)
               /\ \A j \in 1..Len(tr(k)) : E[j] = tr(k)[j]
    <3>1. c.old.trail[r][k] \in Seq(NodesOf(c.old))
      BY <1>1, <1>3, TrailSet
    <3>2. Extends(E, tr(k))
      BY <1>1, <1>3, TrailPrefix
    <3> HIDE DEF E
    <3> QED BY <1>3, <3>1, <3>2 DEF Extends
  <2> QED BY <2>1
<1>5. ASSUME NEW k \in 0..L-1
      PROVE  /\ k \in 0..L /\ k + 1 \in 0..L /\ k < L
             /\ Len(tr(k)) <= Len(tr(k + 1))
             /\ Len(tr(k + 1)) > Len(tr(k)) =>
                   /\ Len(tr(k + 1)) = Len(tr(k)) + 1
                   /\ tr(k + 1)[Len(tr(k)) + 1] = c.old.nodeOf[c.old.reads[r][k + 1]]
  <2>1. k \in 0..L /\ k + 1 \in 0..L /\ k < L /\ k + 1 \in 1..L
    BY <1>3
  <2>2. c.old.trail[r][k + 1] = AddRead(c.old.trail[r][k], c.old.nodeOf[c.old.reads[r][k + 1]])
    BY <1>1, <1>3, <2>1, TrailNext
  <2>3. c.old.nodeOf[c.old.reads[r][k + 1]] \in NodesOf(c.old)
    BY <1>1, <1>3, <2>1, SessionTrail
  <2>4. PICK a \in Seq(NodesOf(c.old)), m \in NodesOf(c.old) :
            a = c.old.trail[r][k] /\ m = c.old.nodeOf[c.old.reads[r][k + 1]]
    BY <1>4, <2>1, <2>3
  <2>5. /\ Len(a) <= Len(AddRead(a, m))
        /\ Len(AddRead(a, m)) > Len(a) => /\ Len(AddRead(a, m)) = Len(a) + 1
                                          /\ AddRead(a, m)[Len(a) + 1] = m
    BY AddReadGrows
  <2> QED BY <2>1, <2>2, <2>4, <2>5
<1> HIDE DEF tr
<1>6. 0 \in X
  BY <1>3, AgreeZero
<1>7. ASSUME NEW k \in 0..L-1, k \in X PROVE k + 1 \in X
  <2> SUFFICES ASSUME Len(tr(k + 1)) < i PROVE Agree(c, r, k + 1)
    BY <1>5
  <2>1. /\ k \in 0..L /\ k + 1 \in 0..L /\ k < L /\ Len(tr(k)) < i
    BY <1>4, <1>5
  <2>2. Agree(c, r, k)
    BY <1>7, <2>1
  <2>3. c.old.reads[r][k + 1] \in Both(c)
    BY <1>3, <2>1, <2>2, AgreeNext
  <2>4. c.old.nodeOf[c.old.reads[r][k + 1]] \in ToSet(tr(k + 1))
    <3>1. k + 1 \in 1..(k + 1)
      BY <1>3
    <3> QED BY <1>1, <1>3, <2>1, <3>1, TrailSet DEF tr
  <2>5. PICK j \in 1..Len(tr(k + 1)) : tr(k + 1)[j] = c.old.nodeOf[c.old.reads[r][k + 1]]
    <3>1. tr(k + 1) \in Seq(NodesOf(c.old))
      BY <1>4, <2>1
    <3> QED BY <2>4, <3>1, InToSet
  <2>6. j \in 1..(i - 1) /\ E[j] = c.old.nodeOf[c.old.reads[r][k + 1]]
    BY <1>4, <2>1, <2>5
  <2>7. Stable(c, c.old.nodeOf[c.old.reads[r][k + 1]])
    BY <2>6
  <2>8. Same(c, c.old.reads[r][k + 1])
    BY <2>3, <2>7 DEF Stable
  <2> QED BY <1>3, <2>1, <2>2, <2>8, AgreeStep
<1>8. \A k \in 0..L : k \in X
  <2> HIDE DEF X, L
  <2> QED BY <1>3, <1>6, <1>7, UpTo DEF L
<1>9. L \in T
  <2>1. tr(L) = E
    BY <1>3 DEF Edges, tr
  <2> QED BY <1>3, <1>4, <2>1
<1>10. PICK m \in T : \A k \in T : m <= k
  <2>1. T \in SUBSET Nat /\ T # {}
    <3>1. 0..L \subseteq Nat
      BY <1>3
    <3> QED BY <1>9, <3>1, Zenon
  <2> HIDE DEF T
  <2> QED BY <2>1, NatMin
<1>11. m # 0 /\ m - 1 \in 0..L-1
  <2>1. Len(tr(0)) = 0
    BY <1>1, <1>3, SessionTrail DEF tr
  <2> QED BY <1>3, <2>1
<1>12. PICK k \in 0..L-1 : m = k + 1
  BY <1>11
<1>13. k \in 0..L /\ k + 1 \in 0..L /\ Len(tr(k)) < i /\ Len(tr(k + 1)) >= i
  <2>1. k \in 0..L /\ k \notin T
    BY <1>3, <1>10, <1>12
  <2> QED BY <1>4, <1>12, <2>1
<1>14. E[i] = c.old.nodeOf[c.old.reads[r][k + 1]]
  <2>1. /\ Len(tr(k + 1)) = Len(tr(k)) + 1
        /\ tr(k + 1)[Len(tr(k)) + 1] = c.old.nodeOf[c.old.reads[r][k + 1]]
    BY <1>4, <1>5, <1>13
  <2>2. i = Len(tr(k)) + 1 /\ i \in 1..Len(tr(k + 1))
    BY <1>4, <1>13, <2>1
  <2>3. E[i] = tr(k + 1)[i]
    BY <1>4, <1>13, <2>2
  <2> QED BY <2>1, <2>2, <2>3
<1>15. c.old.reads[r][k + 1] \in Both(c)
  <2>1. Agree(c, r, k)
    BY <1>8, <1>13
  <2> QED BY <1>3, <1>5, <2>1, AgreeNext
<1> QED BY <1>14, <1>15 DEF Wanted

-----------------------------------------------------------------------------
(* Which old nodes will be green *)

OldNodes(c)   == DOMAIN c.old.node
OldDeps(c, n) == c.old.node[n].edges

(* Executed again, the query has a hashed result and it is the old one. *)
Unchanged(c, n) ==
    /\ n \in Queries /\ n \notin c.w.nohash /\ n \in c.now.needed
    /\ c.now.value[n] = c.old.value[n]

GreenBy(c, n, X) ==
    Unchanged(c, n) \/ (n \notin c.w.inputs /\ ToSet(OldDeps(c, n)) \subseteq X)

(* The greatest set of old nodes each of which is unchanged or has all its  *)
(* dependencies in the set: no order of the marking and the executions      *)
(* makes any other node green.                                              *)
Greens(c) == UNION {X \in SUBSET OldNodes(c) : \A n \in X : GreenBy(c, n, X)}

(* All the old dependencies will be green. *)
Markable(c, n) == ToSet(OldDeps(c, n)) \subseteq Greens(c)

(* Everything the old node was computed from has a reconstructible key. *)
Clean(c, n) ==
    \A m \in OldNodes(c) :
       (\A X \in SUBSET OldNodes(c) :
           (n \in X /\ \A x \in X : ToSet(c.old.node[x].edges) \subseteq X) => m \in X)
       => m \notin c.w.unforceable

LEMMA GreensFixpoint ==
    ASSUME NEW c, NEW n \in OldNodes(c)
    PROVE  n \in Greens(c) <=> GreenBy(c, n, Greens(c))
<1> DEFINE G == Greens(c)
           F == {X \in SUBSET OldNodes(c) : \A m \in X : GreenBy(c, m, X)}
<1>1. G \in SUBSET OldNodes(c) /\ \A m \in G : GreenBy(c, m, G)
  <2>1. G \subseteq OldNodes(c)
    BY DEF Greens
  <2>2. ASSUME NEW m \in G PROVE GreenBy(c, m, G)
    <3>1. PICK X \in F : m \in X
      BY DEF Greens
    <3>2. X \subseteq G
      BY DEF Greens
    <3>3. GreenBy(c, m, X)
      BY <3>1
    <3> QED BY <3>2, <3>3 DEF GreenBy
  <2> QED BY <2>1, <2>2
<1>2. ASSUME GreenBy(c, n, G) PROVE n \in G
  <2> DEFINE X == G \union {n}
  <2>1. X \in SUBSET OldNodes(c)
    BY <1>1
  <2>2. \A m \in X : GreenBy(c, m, X)
    BY <1>1, <1>2 DEF GreenBy
  <2>3. X \in F
    BY <2>1, <2>2
  <2>4. \A Y \in F : Y \subseteq G
    BY DEF Greens
  <2>5. X \subseteq G
    <3> HIDE DEF F, X
    <3> QED BY <2>3, <2>4
  <2> QED BY <2>5
<1> QED BY <1>1, <1>2

LEMMA CleanDeps ==
    ASSUME NEW c, NEW n \in OldNodes(c), Clean(c, n)
    PROVE  /\ n \notin c.w.unforceable
           /\ \A d \in ToSet(OldDeps(c, n)) : Clean(c, d)
<1>1. n \notin c.w.unforceable
  BY DEF Clean
<1>2. ASSUME NEW d \in ToSet(OldDeps(c, n)) PROVE Clean(c, d)
  BY DEF Clean, OldDeps
<1> QED BY <1>1, <1>2

-----------------------------------------------------------------------------
(* The inductive invariant, relative to the two sessions *)

MarkLabels   == {"mark", "tried", "forced", "emit", "green"}
CalledLabels == {"get"} \union JobLabels
QueryLabels  == {"ensure", "ensured"} \union CalledLabels

FrameType(c) ==
    [pc : Labels, n : Queries \union OldNodes(c), i : Nat \ {0}, vals : Seq(Values),
     reads : Seq(DOMAIN c.now.node), val : Nat, ok : BOOLEAN, green : BOOLEAN]

(* Whenever its dependencies are clean, such a node is never marked green. *)
MustRun(c, n) == Clean(c, n) => n \in c.w.inputs \/ ~Markable(c, n)

(* A query that is asked for is needed, also if it is forced. *)
QueryFrame(c, f) ==
    /\ f.n \in c.now.needed
    /\ f.pc \in {"ensure", "get", "start"} => ~f.ok
    /\ f.pc \in {"ensure", "ensured", "get", "start", "marked"} => f.vals = << >> /\ f.reads = << >>

(* What is executed must be; it has seen and recorded what it would in a    *)
(* build from scratch.                                                      *)
RunFrame(c, f) ==
    /\ ~f.green /\ f.n \in OldNodes(c) => MustRun(c, f.n)
    /\ f.pc = "run" => /\ Len(f.vals) <= Len(c.now.reads[f.n])
                       /\ f.vals = Seen(c.now, f.n, Len(f.vals))
                       /\ ~f.green => f.reads = c.now.trail[f.n][Len(f.vals)]
    /\ f.pc # "run" => /\ f.val = c.now.value[f.n]
                       /\ ~f.green => f.reads = Edges(c.now, f.n)
    /\ f.pc = "colour" => f.n \in OldNodes(c)

(* Marking is about nodes that are wanted. *)
MarkFrame(c, f) ==
    /\ f.n \in OldNodes(c) \ c.w.inputs /\ Wanted(c, f.n)
    /\ f.i <= Len(OldDeps(c, f.n)) + 1
    /\ f.pc \in {"tried", "forced"} => f.i <= Len(OldDeps(c, f.n))
    /\ f.pc \in {"emit", "green"} => Stable(c, f.n) /\ (Clean(c, f.n) => Markable(c, f.n))
    /\ f.pc = "emit" => f.n \in c.w.warns

Frames(c) ==
    {f \in FrameType(c) :
        /\ f.pc \in QueryLabels => QueryFrame(c, f)
        /\ f.pc \in {"run", "intern", "colour", "complete"} => RunFrame(c, f)
        /\ f.pc \in MarkLabels => MarkFrame(c, f)
        /\ f.green => f.pc \in {"run", "complete"} /\ f.n \in OldNodes(c)}

(* Who calls whom, and about which node. *)
Linked(c, f, g) ==
    \/ f.pc \in {"ensured", "marked"} /\ g.pc \in MarkLabels /\ g.n = f.n
    \/ f.pc = "tried" /\ g.pc \in MarkLabels /\ g.n = OldDeps(c, f.n)[f.i]
    \/ f.pc = "forced" /\ g.pc \in CalledLabels /\ g.n = OldDeps(c, f.n)[f.i]
    \/ f.pc = "run" /\ g.pc \in CalledLabels

StackOK(c, st) ==
    /\ st \in [Threads -> Seq(Frames(c))]
    /\ \A t \in Threads : \A i \in 1..(Len(st[t]) - 1) : Linked(c, st[t][i], st[t][i + 1])

(* What a frame says of the graph. *)
FrameDyn(c, col, pro, fre, f) ==
    /\ f.pc \in MarkLabels => \A j \in 1..(f.i - 1) : col[OldDeps(c, f.n)[j]] = "green"
    /\ f.pc \in {"emit", "green"} => f.n \in DOMAIN pro
    /\ f.green => col[f.n] = "green"
    /\ f.pc = "colour" => f.n \in DOMAIN pro /\ (Clean(c, f.n) => col[f.n] = "none")
    /\ f.pc = "complete" /\ f.n \in OldNodes(c) => col[f.n] # "none"
    /\ f.pc \in {"start", "marked", "run", "intern"} /\ ~f.green =>
          /\ f.n \in OldNodes(c) /\ Clean(c, f.n) /\ MustRun(c, f.n) => f.n \notin DOMAIN pro
          /\ f.n \notin OldNodes(c) => f.n \notin DOMAIN fre

(* The answer a frame has got. *)
TopOK(c, col, f) ==
    /\ f.pc \in {"ensured", "marked"} /\ f.ok => f.n \in OldNodes(c) /\ col[f.n] = "green"
    /\ f.pc = "marked" /\ ~f.ok /\ f.n \in OldNodes(c) => MustRun(c, f.n)
    /\ f.pc = "tried" /\ f.ok => col[OldDeps(c, f.n)[f.i]] = "green"
    /\ f.pc = "tried" /\ ~f.ok => MustRun(c, OldDeps(c, f.n)[f.i])
    /\ f.pc = "forced" => col[OldDeps(c, f.n)[f.i]] # "none"

StackDyn(c, col, pro, fre, st) ==
    \A t \in Threads :
       /\ \A i \in 1..Len(st[t]) : FrameDyn(c, col, pro, fre, st[t][i])
       /\ st[t] # << >> => TopOK(c, col, st[t][Len(st[t])])

(* Every job has one frame. *)
JobsOK(act, st) ==
    /\ \A t \in Threads : \A i \in 1..Len(st[t]) :
          st[t][i].pc \in JobLabels => st[t][i].n \in act
    /\ \A q \in act : \E t \in Threads : \E i \in 1..Len(st[t]) :
          st[t][i].pc \in JobLabels /\ st[t][i].n = q
    /\ \A t, u \in Threads : \A i \in 1..Len(st[t]), j \in 1..Len(st[u]) :
          st[t][i].pc \in JobLabels /\ st[u][j].pc \in JobLabels /\ st[t][i].n = st[u][j].n
             => t = u /\ i = j

(* The graph is the one of a build from scratch as far as it goes. *)
GraphOK(c, col, pro, fre) ==
    /\ col \in [OldNodes(c) -> {"none", "red", "green"}]
    /\ DOMAIN pro \subseteq OldNodes(c) /\ DOMAIN pro \subseteq DOMAIN c.now.node
    /\ DOMAIN fre \subseteq DOMAIN c.now.node
    /\ \A n \in DOMAIN pro : pro[n] = c.now.node[n]
    /\ \A n \in DOMAIN fre : fre[n] = c.now.node[n] /\ (n \in Queries => n \notin OldNodes(c))
    /\ \A n \in OldNodes(c) :
          /\ col[n] = "green" => Stable(c, n) /\ (Clean(c, n) => n \in Greens(c))
          /\ col[n] = "red" => /\ n \in Queries /\ ~Unchanged(c, n) /\ n \in c.now.needed
                               /\ Clean(c, n) => n \notin Greens(c)
          /\ col[n] # "none" => n \in DOMAIN pro

CacheOK(c, col, pro, fre, cac, act) ==
    /\ DOMAIN cac \subseteq c.now.needed /\ act \subseteq c.now.needed
    /\ act \intersect DOMAIN cac = {}
    /\ \A q \in DOMAIN cac : /\ cac[q].val = c.now.value[q] /\ cac[q].node = c.now.nodeOf[q]
                             /\ q \in OldNodes(c) => col[q] # "none"
    /\ \A q \in DOMAIN pro \intersect Queries :
          Clean(c, q) /\ MustRun(c, q) => q \in DOMAIN cac \union act
    /\ \A q \in DOMAIN fre \intersect Queries : q \in DOMAIN cac \union act

(* Diagnostics are stored by marking or by executing. *)
EffectsOK(c, pcd, sto, emi, cac) ==
    /\ pcd \subseteq c.w.warns /\ sto \subseteq c.w.warns /\ emi \subseteq c.w.warns
    /\ \A n \in pcd : n \in OldNodes(c) \ c.w.inputs /\ (Clean(c, n) => Markable(c, n))
    /\ \A n \in sto \ pcd : n \in DOMAIN cac /\ (n \in OldNodes(c) => MustRun(c, n))

ControlOK(c, td, lft, fl) ==
    /\ td \in [Threads -> Seq([q : c.now.needed, ensure : BOOLEAN])]
    /\ lft \in Seq(OldNodes(c))
    /\ fl.why # "" => /\ fl.why \in {"forcing query with existing node", "duplicate color",
                                     "side effects stored twice"}
                      /\ ~Clean(c, fl.n)

InContext(c) ==
    /\ Context(c)
    /\ world = c.w /\ input = c.inp /\ scratch = c.now
    /\ prev.node = c.old.node /\ prev.value = c.old.value
    /\ prev.warned = c.old.needed \intersect c.w.warns

StateOK(c) ==
    /\ StackOK(c, stack) /\ StackDyn(c, colour, promoted, fresh, stack) /\ JobsOK(active, stack)
    /\ GraphOK(c, colour, promoted, fresh)
    /\ CacheOK(c, colour, promoted, fresh, cache, active)
    /\ EffectsOK(c, processed, stored, emitted, cache)
    /\ ControlOK(c, todo, left, failure)

(* The inductive invariant. *)
Inv == \E c : InContext(c) /\ StateOK(c)

-----------------------------------------------------------------------------
(* Stacks *)

LEMMA FrontProps ==
    ASSUME NEW S, NEW s \in Seq(S), s # << >>
    PROVE  /\ Front(s) \in Seq(S) /\ Len(Front(s)) = Len(s) - 1 /\ Len(s) \in Nat \ {0}
           /\ \A i \in 1..(Len(s) - 1) : Front(s)[i] = s[i]
<1>1. Len(s) \in Nat \ {0}
  OBVIOUS
<1>2. Front(s) \in Seq(S) /\ Len(Front(s)) = Len(s) - 1
  <2>1. PICK m \in Int : m = Len(s) - 1 /\ m >= 0
    BY <1>1
  <2>2. \A i \in 1..m : s[i] \in S
    BY <1>1, <2>1
  <2>3. SubSeq(s, 1, m) \in Seq(S) /\ Len(SubSeq(s, 1, m)) = IF 1 <= m THEN m - 1 + 1 ELSE 0
    BY <2>2, SubSeqProperties
  <2> QED BY <1>1, <2>1, <2>3 DEF Front
<1>3. \A i \in 1..(Len(s) - 1) : Front(s)[i] = s[i]
  BY <1>1 DEF Front
<1> QED BY <1>1, <1>2, <1>3

LEMMA ReplaceTop ==
    ASSUME NEW S, NEW s \in Seq(S), s # << >>, NEW f \in S
    PROVE  /\ Append(Front(s), f) \in Seq(S) /\ Len(Append(Front(s), f)) = Len(s)
           /\ \A i \in 1..(Len(s) - 1) : Append(Front(s), f)[i] = s[i]
           /\ Append(Front(s), f)[Len(s)] = f
           /\ Len(s) \in Nat \ {0}
<1>1. Front(s) \in Seq(S) /\ Len(Front(s)) = Len(s) - 1 /\ Len(s) \in Nat \ {0}
  BY FrontProps
<1>2. \A i \in 1..(Len(s) - 1) : Front(s)[i] = s[i]
  BY FrontProps
<1> QED BY <1>1, <1>2

LEMMA PushTop ==
    ASSUME NEW S, NEW s \in Seq(S), s # << >>, NEW f \in S, NEW g \in S
    PROVE  /\ Append(Append(Front(s), f), g) \in Seq(S)
           /\ Len(Append(Append(Front(s), f), g)) = Len(s) + 1
           /\ \A i \in 1..(Len(s) - 1) : Append(Append(Front(s), f), g)[i] = s[i]
           /\ Append(Append(Front(s), f), g)[Len(s)] = f
           /\ Append(Append(Front(s), f), g)[Len(s) + 1] = g
           /\ Len(s) \in Nat \ {0}
<1>1. PICK r \in Seq(S) : r = Append(Front(s), f)
  BY ReplaceTop
<1>2. /\ Len(r) = Len(s) /\ \A i \in 1..(Len(s) - 1) : r[i] = s[i]
      /\ r[Len(s)] = f /\ Len(s) \in Nat \ {0}
  BY <1>1, ReplaceTop
<1> QED BY <1>1, <1>2

(* What Return leaves of a stack. *)
Popped(s, ok) ==
    IF Front(s) = << >> THEN << >>
    ELSE Append(Front(Front(s)), [Last(Front(s)) EXCEPT !.ok = ok])

LEMMA PopTop ==
    ASSUME NEW S, NEW s \in Seq(S), s # << >>, NEW ok,
           Len(s) > 1 => [s[Len(s) - 1] EXCEPT !.ok = ok] \in S
    PROVE  /\ Popped(s, ok) \in Seq(S) /\ Len(Popped(s, ok)) = Len(s) - 1
           /\ \A i \in 1..(Len(s) - 2) : Popped(s, ok)[i] = s[i]
           /\ Len(s) > 1 => Popped(s, ok)[Len(s) - 1] = [s[Len(s) - 1] EXCEPT !.ok = ok]
           /\ Len(s) \in Nat \ {0}
<1>1. Front(s) \in Seq(S) /\ Len(Front(s)) = Len(s) - 1 /\ Len(s) \in Nat \ {0}
  BY FrontProps
<1>2. \A i \in 1..(Len(s) - 1) : Front(s)[i] = s[i]
  BY FrontProps
<1>3. CASE Len(s) = 1
  <2>1. Front(s) = << >>
    BY <1>1, <1>3
  <2> QED BY <1>1, <1>3, <2>1 DEF Popped
<1>4. CASE Len(s) > 1
  <2>1. PICK r \in Seq(S), g \in S : r = Front(s) /\ g = [s[Len(s) - 1] EXCEPT !.ok = ok]
    BY <1>1, <1>4
  <2>2. r # << >> /\ Len(r) = Len(s) - 1 /\ \A i \in 1..(Len(s) - 1) : r[i] = s[i]
    BY <1>1, <1>2, <1>4, <2>1
  <2>3. /\ Append(Front(r), g) \in Seq(S) /\ Len(Append(Front(r), g)) = Len(r)
        /\ \A i \in 1..(Len(r) - 1) : Append(Front(r), g)[i] = r[i]
        /\ Append(Front(r), g)[Len(r)] = g
    BY <2>2, ReplaceTop
  <2>4. Popped(s, ok) = Append(Front(r), g)
    BY SMTT(30), <1>4, <2>1, <2>2 DEF Popped, Last
  <2> QED BY <1>1, <1>4, <2>1, <2>2, <2>3, <2>4
<1> QED BY <1>1, <1>3, <1>4

(* f may take the place of g on a stack. *)
Replaces(f, g) ==
    /\ f.n = g.n
    /\ g.pc \in MarkLabels => f.pc \in MarkLabels
    /\ g.pc \in CalledLabels => f.pc \in CalledLabels

(* What the frames other than the one t is in say of the graph. *)
OthersDyn(c, col, pro, fre, st, t) ==
    \A u \in Threads :
       /\ \A i \in 1..Len(st[u]) :
             (u = t => i < Len(st[t])) => FrameDyn(c, col, pro, fre, st[u][i])
       /\ u # t /\ st[u] # << >> => TopOK(c, col, st[u][Len(st[u])])

LEMMA SameGraph ==
    ASSUME NEW c, NEW col, NEW pro, NEW fre, NEW st, NEW t,
           StackDyn(c, col, pro, fre, st)
    PROVE  OthersDyn(c, col, pro, fre, st, t)
BY DEF StackDyn, OthersDyn

LEMMA StackTypes ==
    ASSUME NEW c, NEW st, StackOK(c, st), NEW t \in Threads
    PROVE  /\ st[t] \in Seq(Frames(c)) /\ Len(st[t]) \in Nat
           /\ \A i \in 1..Len(st[t]) : st[t][i] \in Frames(c)
           /\ st[t] # << >> => Len(st[t]) > 0 /\ st[t][Len(st[t])] \in Frames(c)
<1>1. st[t] \in Seq(Frames(c))
  BY DEF StackOK
<1> QED BY <1>1

(* A stack that differs from st in what t does. *)
Changes(st, st2, t, s) ==
    /\ DOMAIN st2 = Threads /\ st2[t] = s
    /\ \A u \in Threads : u # t => st2[u] = st[u]
    /\ st2 = [u \in Threads |-> st2[u]]

LEMMA ChangesExcept ==
    ASSUME NEW c, NEW st, StackOK(c, st), NEW t \in Threads, NEW s
    PROVE  Changes(st, [st EXCEPT ![t] = s], t, s)
<1>1. st \in [Threads -> Seq(Frames(c))]
  BY DEF StackOK
<1> HIDE DEF Frames
<1> QED BY <1>1 DEF Changes

LEMMA ContinueStack ==
    ASSUME NEW c, NEW st, StackOK(c, st), NEW t \in Threads, st[t] # << >>,
           NEW f \in Frames(c), Replaces(f, st[t][Len(st[t])]),
           NEW col, NEW pro, NEW fre, OthersDyn(c, col, pro, fre, st, t),
           FrameDyn(c, col, pro, fre, f), TopOK(c, col, f),
           NEW st2, Changes(st, st2, t, Append(Front(st[t]), f))
    PROVE  StackOK(c, st2) /\ StackDyn(c, col, pro, fre, st2)
<1>1. st[t] \in Seq(Frames(c))
  BY StackTypes
<1>2. /\ st2[t] \in Seq(Frames(c)) /\ Len(st2[t]) = Len(st[t])
      /\ \A i \in 1..(Len(st[t]) - 1) : st2[t][i] = st[t][i]
      /\ st2[t][Len(st[t])] = f /\ Len(st[t]) \in Nat \ {0}
  BY <1>1, ReplaceTop DEF Changes
<1>3. \A u \in Threads : u # t => st2[u] = st[u]
  BY DEF Changes
<1>4. st2 \in [Threads -> Seq(Frames(c))]
  <2>1. \A u \in Threads : st2[u] \in Seq(Frames(c))
    BY <1>2, <1>3, StackTypes
  <2> QED BY <2>1 DEF Changes
<1>5. ASSUME NEW u \in Threads, NEW i \in 1..(Len(st2[u]) - 1)
      PROVE  Linked(c, st2[u][i], st2[u][i + 1])
  <2>1. CASE u # t
    BY <1>3, <1>5, <2>1 DEF StackOK
  <2>2. CASE u = t
    <3>1. i \in 1..(Len(st[t]) - 1) /\ st2[t][i] = st[t][i]
      BY <1>2, <2>2
    <3>2. Linked(c, st[t][i], st[t][i + 1])
      BY <3>1 DEF StackOK
    <3>3. CASE i + 1 < Len(st[t])
      <4>1. i + 1 \in 1..(Len(st[t]) - 1)
        BY <1>2, <3>1, <3>3
      <4>2. st2[t][i + 1] = st[t][i + 1]
        BY <1>2, <4>1
      <4> QED BY <2>2, <3>1, <3>2, <4>2
    <3>4. CASE i + 1 = Len(st[t])
      <4>1. st2[t][i + 1] = f
        BY <1>2, <3>4
      <4>2. Linked(c, st[t][i], f)
        BY <3>2, <3>4 DEF Linked, Replaces
      <4> QED BY <2>2, <3>1, <4>1, <4>2
    <3> QED BY <1>2, <3>1, <3>3, <3>4
  <2> QED BY <2>1, <2>2
<1>6. ASSUME NEW u \in Threads, NEW i \in 1..Len(st2[u])
      PROVE  FrameDyn(c, col, pro, fre, st2[u][i])
  <2>1. CASE u # t
    BY <1>3, <2>1 DEF OthersDyn
  <2>2. CASE u = t /\ i < Len(st[t])
    <3>1. i \in 1..(Len(st[t]) - 1) /\ i \in 1..Len(st[t])
      BY <1>2, <2>2
    <3> QED BY <1>2, <2>2, <3>1 DEF OthersDyn
  <2>3. CASE u = t /\ i = Len(st[t])
    BY <1>2, <2>3
  <2> QED BY <1>2, <2>1, <2>2, <2>3
<1>7. ASSUME NEW u \in Threads, st2[u] # << >>
      PROVE  TopOK(c, col, st2[u][Len(st2[u])])
  <2>1. CASE u # t
    BY <1>3, <1>7, <2>1 DEF OthersDyn
  <2>2. CASE u = t
    BY <1>2, <2>2
  <2> QED BY <2>1, <2>2
<1> QED BY <1>4, <1>5, <1>6, <1>7 DEF StackOK, StackDyn

LEMMA CallStack ==
    ASSUME NEW c, NEW st, StackOK(c, st), NEW t \in Threads, st[t] # << >>,
           NEW f \in Frames(c), Replaces(f, st[t][Len(st[t])]),
           NEW g \in Frames(c), Linked(c, f, g),
           NEW col, NEW pro, NEW fre, OthersDyn(c, col, pro, fre, st, t),
           FrameDyn(c, col, pro, fre, f), FrameDyn(c, col, pro, fre, g), TopOK(c, col, g),
           NEW st2, Changes(st, st2, t, Append(Append(Front(st[t]), f), g))
    PROVE  StackOK(c, st2) /\ StackDyn(c, col, pro, fre, st2)
<1>1. st[t] \in Seq(Frames(c))
  BY StackTypes
<1>2. /\ st2[t] \in Seq(Frames(c)) /\ Len(st2[t]) = Len(st[t]) + 1
      /\ \A i \in 1..(Len(st[t]) - 1) : st2[t][i] = st[t][i]
      /\ st2[t][Len(st[t])] = f /\ st2[t][Len(st[t]) + 1] = g /\ Len(st[t]) \in Nat \ {0}
  BY <1>1, PushTop DEF Changes
<1>3. \A u \in Threads : u # t => st2[u] = st[u]
  BY DEF Changes
<1>4. st2 \in [Threads -> Seq(Frames(c))]
  <2>1. \A u \in Threads : st2[u] \in Seq(Frames(c))
    BY <1>2, <1>3, StackTypes
  <2> QED BY <2>1 DEF Changes
<1>5. ASSUME NEW u \in Threads, NEW i \in 1..(Len(st2[u]) - 1)
      PROVE  Linked(c, st2[u][i], st2[u][i + 1])
  <2>1. CASE u # t
    BY <1>3, <1>5, <2>1 DEF StackOK
  <2>2. CASE u = t /\ i = Len(st[t])
    BY <1>2, <2>2
  <2>3. CASE u = t /\ i # Len(st[t])
    <3>1. i \in 1..(Len(st[t]) - 1) /\ st2[t][i] = st[t][i]
      BY <1>2, <2>3
    <3>2. Linked(c, st[t][i], st[t][i + 1])
      BY <3>1 DEF StackOK
    <3>3. CASE i + 1 < Len(st[t])
      <4>1. i + 1 \in 1..(Len(st[t]) - 1)
        BY <1>2, <3>1, <3>3
      <4>2. st2[t][i + 1] = st[t][i + 1]
        BY <1>2, <4>1
      <4> QED BY <2>3, <3>1, <3>2, <4>2
    <3>4. CASE i + 1 = Len(st[t])
      <4>1. st2[t][i + 1] = f
        BY <1>2, <3>4
      <4>2. Linked(c, st[t][i], f)
        BY <3>2, <3>4 DEF Linked, Replaces
      <4> QED BY <2>3, <3>1, <4>1, <4>2
    <3> QED BY <1>2, <3>1, <3>3, <3>4
  <2> QED BY <2>1, <2>2, <2>3
<1>6. ASSUME NEW u \in Threads, NEW i \in 1..Len(st2[u])
      PROVE  FrameDyn(c, col, pro, fre, st2[u][i])
  <2>1. CASE u # t
    BY <1>3, <2>1 DEF OthersDyn
  <2>2. CASE u = t /\ i < Len(st[t])
    <3>1. i \in 1..(Len(st[t]) - 1) /\ i \in 1..Len(st[t])
      BY <1>2, <2>2
    <3> QED BY <1>2, <2>2, <3>1 DEF OthersDyn
  <2>3. CASE u = t /\ i = Len(st[t])
    BY <1>2, <2>3
  <2>4. CASE u = t /\ i = Len(st[t]) + 1
    BY <1>2, <2>4
  <2> QED BY <1>2, <2>1, <2>2, <2>3, <2>4
<1>7. ASSUME NEW u \in Threads, st2[u] # << >>
      PROVE  TopOK(c, col, st2[u][Len(st2[u])])
  <2>1. CASE u # t
    BY <1>3, <1>7, <2>1 DEF OthersDyn
  <2>2. CASE u = t
    BY <1>2, <2>2
  <2> QED BY <2>1, <2>2
<1> QED BY <1>4, <1>5, <1>6, <1>7 DEF StackOK, StackDyn

LEMMA StartStack ==
    ASSUME NEW c, NEW st, StackOK(c, st), NEW t \in Threads, st[t] = << >>,
           NEW g \in Frames(c),
           NEW col, NEW pro, NEW fre, OthersDyn(c, col, pro, fre, st, t),
           FrameDyn(c, col, pro, fre, g), TopOK(c, col, g),
           NEW st2, Changes(st, st2, t, <<g>>)
    PROVE  StackOK(c, st2) /\ StackDyn(c, col, pro, fre, st2)
<1>2. st2[t] \in Seq(Frames(c)) /\ Len(st2[t]) = 1 /\ st2[t][1] = g
  BY DEF Changes
<1>3. \A u \in Threads : u # t => st2[u] = st[u]
  BY DEF Changes
<1>4. st2 \in [Threads -> Seq(Frames(c))]
  <2>1. \A u \in Threads : st2[u] \in Seq(Frames(c))
    BY <1>2, <1>3, StackTypes
  <2> QED BY <2>1 DEF Changes
<1>5. ASSUME NEW u \in Threads, NEW i \in 1..(Len(st2[u]) - 1)
      PROVE  Linked(c, st2[u][i], st2[u][i + 1])
  BY <1>2, <1>3, <1>5 DEF StackOK
<1>6. ASSUME NEW u \in Threads, NEW i \in 1..Len(st2[u])
      PROVE  FrameDyn(c, col, pro, fre, st2[u][i])
  BY <1>2, <1>3 DEF OthersDyn
<1>7. ASSUME NEW u \in Threads, st2[u] # << >>
      PROVE  TopOK(c, col, st2[u][Len(st2[u])])
  BY <1>2, <1>3, <1>7 DEF OthersDyn
<1> QED BY <1>4, <1>5, <1>6, <1>7 DEF StackOK, StackDyn

LEMMA AnswerKept ==
    ASSUME NEW c, NEW f \in Frames(c), f.pc \in {"ensured", "marked", "tried", "forced", "run"},
           NEW ok \in BOOLEAN
    PROVE  /\ [f EXCEPT !.ok = ok] \in Frames(c)
           /\ [f EXCEPT !.ok = ok].pc = f.pc /\ [f EXCEPT !.ok = ok].n = f.n
           /\ [f EXCEPT !.ok = ok].i = f.i /\ [f EXCEPT !.ok = ok].ok = ok
           /\ \A col, pro, fre : FrameDyn(c, col, pro, fre, f) =>
                 FrameDyn(c, col, pro, fre, [f EXCEPT !.ok = ok])
<1>1. PICK g : g = [f EXCEPT !.ok = ok]
  OBVIOUS
<1>2. f \in FrameType(c)
  BY DEF Frames
<1>3. /\ g \in FrameType(c) /\ g.pc = f.pc /\ g.n = f.n /\ g.i = f.i /\ g.ok = ok
      /\ g.vals = f.vals /\ g.reads = f.reads /\ g.val = f.val /\ g.green = f.green
  BY <1>1, <1>2 DEF FrameType
<1>4. g \in Frames(c)
  <2>1. f.pc \in QueryLabels => QueryFrame(c, g)
    BY <1>3 DEF QueryFrame, Frames
  <2>2. f.pc \in {"run", "intern", "colour", "complete"} => RunFrame(c, g)
    BY <1>3 DEF RunFrame, Frames
  <2>3. f.pc \in MarkLabels => MarkFrame(c, g)
    BY <1>3 DEF MarkFrame, Frames
  <2> QED BY <1>3, <2>1, <2>2, <2>3 DEF Frames
<1>5. ASSUME NEW col, NEW pro, NEW fre, FrameDyn(c, col, pro, fre, f)
      PROVE  FrameDyn(c, col, pro, fre, g)
  BY <1>3, <1>5 DEF FrameDyn
<1> QED BY <1>1, <1>3, <1>4, <1>5

LEMMA CallerLabels ==
    ASSUME NEW c, NEW f, NEW g, Linked(c, f, g)
    PROVE  f.pc \in {"ensured", "marked", "tried", "forced", "run"}
BY DEF Linked

LEMMA ReturnStack ==
    ASSUME NEW c, NEW st, StackOK(c, st), NEW t \in Threads, st[t] # << >>,
           NEW ok \in BOOLEAN,
           NEW col, NEW pro, NEW fre, OthersDyn(c, col, pro, fre, st, t),
           \A b \in Frames(c) :
              Linked(c, b, st[t][Len(st[t])]) => TopOK(c, col, [b EXCEPT !.ok = ok]),
           NEW st2, Changes(st, st2, t, Popped(st[t], ok))
    PROVE  StackOK(c, st2) /\ StackDyn(c, col, pro, fre, st2)
<1>1. st[t] \in Seq(Frames(c)) /\ Len(st[t]) \in Nat \ {0}
  BY StackTypes
<1>2. ASSUME Len(st[t]) > 1
      PROVE  /\ st[t][Len(st[t]) - 1] \in Frames(c)
             /\ Linked(c, st[t][Len(st[t]) - 1], st[t][Len(st[t])])
             /\ st[t][Len(st[t]) - 1].pc \in {"ensured", "marked", "tried", "forced", "run"}
             /\ [st[t][Len(st[t]) - 1] EXCEPT !.ok = ok] \in Frames(c)
  <2>1. PICK k \in 1..(Len(st[t]) - 1) : k + 1 = Len(st[t]) /\ k = Len(st[t]) - 1
    <3>1. PICK l \in Nat : l = Len(st[t]) /\ l > 1
      BY <1>1, <1>2
    <3>2. l - 1 \in 1..(l - 1) /\ (l - 1) + 1 = l
      BY <3>1
    <3> QED BY <3>1, <3>2
  <2>2. Linked(c, st[t][k], st[t][k + 1])
    BY DEF StackOK
  <2>3. st[t][k] \in Frames(c)
    BY <1>1, <2>1, StackTypes
  <2>4. st[t][k].pc \in {"ensured", "marked", "tried", "forced", "run"}
    BY <2>2, CallerLabels
  <2>5. [st[t][k] EXCEPT !.ok = ok] \in Frames(c)
    BY <2>3, <2>4, AnswerKept
  <2> QED BY <2>1, <2>2, <2>3, <2>4, <2>5
<1>3. /\ Popped(st[t], ok) \in Seq(Frames(c)) /\ Len(Popped(st[t], ok)) = Len(st[t]) - 1
      /\ \A i \in 1..(Len(st[t]) - 2) : Popped(st[t], ok)[i] = st[t][i]
      /\ Len(st[t]) > 1 => Popped(st[t], ok)[Len(st[t]) - 1] = [st[t][Len(st[t]) - 1] EXCEPT !.ok = ok]
  BY <1>1, <1>2, PopTop
<1>4. st2[t] = Popped(st[t], ok)
  BY DEF Changes
<1>5. \A u \in Threads : u # t => st2[u] = st[u]
  BY DEF Changes
<1>6. st2 \in [Threads -> Seq(Frames(c))]
  <2>1. \A u \in Threads : st2[u] \in Seq(Frames(c))
    BY <1>3, <1>4, <1>5, StackTypes
  <2> QED BY <2>1 DEF Changes
<1>7. ASSUME NEW u \in Threads, NEW i \in 1..(Len(st2[u]) - 1)
      PROVE  Linked(c, st2[u][i], st2[u][i + 1])
  <2>1. CASE u # t
    BY <1>5, <1>7, <2>1 DEF StackOK
  <2>2. CASE u = t
    <3>1. /\ i \in 1..(Len(st[t]) - 2) /\ i \in 1..(Len(st[t]) - 1) /\ i + 1 \in 1..(Len(st[t]) - 1)
          /\ st2[t][i] = st[t][i]
      BY <1>1, <1>3, <1>4, <2>2
    <3>2. Linked(c, st[t][i], st[t][i + 1])
      BY <3>1 DEF StackOK
    <3>3. CASE i + 1 < Len(st[t]) - 1
      <4>1. i + 1 \in 1..(Len(st[t]) - 2)
        BY <1>1, <3>1, <3>3
      <4>2. st2[t][i + 1] = st[t][i + 1]
        BY <1>3, <1>4, <4>1
      <4> QED BY <2>2, <3>1, <3>2, <4>2
    <3>4. CASE i + 1 = Len(st[t]) - 1
      <4>1. st2[t][i + 1] = [st[t][i + 1] EXCEPT !.ok = ok] /\ Len(st[t]) > 1
        BY SMTT(30), <1>1, <1>3, <1>4, <3>1, <3>4
      <4>2. /\ [st[t][i + 1] EXCEPT !.ok = ok].pc = st[t][i + 1].pc
            /\ [st[t][i + 1] EXCEPT !.ok = ok].n = st[t][i + 1].n
        BY <1>2, <3>4, <4>1, AnswerKept
      <4>3. Linked(c, st[t][i], st2[t][i + 1])
        BY <3>2, <4>1, <4>2 DEF Linked
      <4> QED BY <2>2, <3>1, <4>3
    <3> QED BY <1>1, <3>1, <3>3, <3>4
  <2> QED BY <2>1, <2>2
<1>8. ASSUME NEW u \in Threads, NEW i \in 1..Len(st2[u])
      PROVE  FrameDyn(c, col, pro, fre, st2[u][i])
  <2>1. CASE u # t
    BY <1>5, <2>1 DEF OthersDyn
  <2>2. CASE u = t
    <3>1. i \in 1..(Len(st[t]) - 1) /\ i \in 1..Len(st[t]) /\ i < Len(st[t]) /\ Len(st[t]) > 1
      BY <1>1, <1>3, <1>4, <2>2
    <3>2. FrameDyn(c, col, pro, fre, st[t][i])
      BY <3>1 DEF OthersDyn
    <3>3. CASE i < Len(st[t]) - 1
      BY <1>1, <1>3, <1>4, <2>2, <3>1, <3>2, <3>3
    <3>4. CASE i = Len(st[t]) - 1
      <4>1. st2[t][i] = [st[t][i] EXCEPT !.ok = ok]
        BY <1>3, <1>4, <3>1, <3>4
      <4>2. FrameDyn(c, col, pro, fre, [st[t][i] EXCEPT !.ok = ok])
        BY <1>2, <3>1, <3>2, <3>4, AnswerKept
      <4> QED BY <2>2, <4>1, <4>2
    <3> QED BY <1>1, <3>1, <3>3, <3>4
  <2> QED BY <2>1, <2>2
<1>9. ASSUME NEW u \in Threads, st2[u] # << >>
      PROVE  TopOK(c, col, st2[u][Len(st2[u])])
  <2>1. CASE u # t
    BY <1>5, <1>9, <2>1 DEF OthersDyn
  <2>2. CASE u = t
    <3>1. Len(st[t]) > 1
      BY <1>1, <1>3, <1>4, <1>9, <2>2
    <3>2. st2[t][Len(st2[t])] = [st[t][Len(st[t]) - 1] EXCEPT !.ok = ok]
      BY <1>3, <1>4, <3>1
    <3> QED BY <1>2, <2>2, <3>1, <3>2
  <2> QED BY <2>1, <2>2
<1> QED BY <1>6, <1>7, <1>8, <1>9 DEF StackOK, StackDyn

IsJob(f) == f.pc \in JobLabels

(* Frame i of u is a job for q. *)
JobAt(st, u, i, q) == i \in 1..Len(st[u]) /\ st[u][i].pc \in JobLabels /\ st[u][i].n = q

LEMMA ContinueJobs ==
    ASSUME NEW c, NEW st, StackOK(c, st), NEW t \in Threads, st[t] # << >>,
           NEW act, JobsOK(act, st), NEW f \in Frames(c),
           f.n = st[t][Len(st[t])].n, IsJob(f) <=> IsJob(st[t][Len(st[t])]),
           NEW st2, Changes(st, st2, t, Append(Front(st[t]), f))
    PROVE  JobsOK(act, st2)
<1>1. st[t] \in Seq(Frames(c))
  BY StackTypes
<1>2. /\ Len(st2[t]) = Len(st[t]) /\ Len(st[t]) \in Nat \ {0}
      /\ \A i \in 1..(Len(st[t]) - 1) : st2[t][i] = st[t][i]
      /\ st2[t][Len(st[t])] = f
  BY <1>1, ReplaceTop DEF Changes
<1>3. \A u \in Threads : u # t => st2[u] = st[u]
  BY DEF Changes
<1>4. \A u \in Threads : /\ Len(st2[u]) = Len(st[u])
                         /\ \A i \in 1..Len(st[u]) : /\ st2[u][i].n = st[u][i].n
                                                     /\ IsJob(st2[u][i]) <=> IsJob(st[u][i])
  <2>1. ASSUME NEW u \in Threads, NEW i \in 1..Len(st[u])
        PROVE  st2[u][i].n = st[u][i].n /\ (IsJob(st2[u][i]) <=> IsJob(st[u][i]))
    <3>1. CASE u # t
      BY <1>3, <3>1
    <3>2. CASE u = t /\ i = Len(st[t])
      BY <1>2, <3>2
    <3>3. CASE u = t /\ i # Len(st[t])
      <4>1. i \in 1..(Len(st[t]) - 1)
        BY <1>2, <3>3
      <4> QED BY <1>2, <3>3, <4>1
    <3> QED BY <3>1, <3>2, <3>3
  <2>2. \A u \in Threads : Len(st2[u]) = Len(st[u])
    BY <1>2, <1>3
  <2> QED BY <2>1, <2>2
<1>5. \A u \in Threads : \A i \in 1..Len(st2[u]) :
         st2[u][i].pc \in JobLabels => st2[u][i].n \in act
  BY <1>4 DEF JobsOK, IsJob
<1>6. \A q \in act : \E u \in Threads : \E i \in 1..Len(st2[u]) :
         st2[u][i].pc \in JobLabels /\ st2[u][i].n = q
  BY <1>4 DEF JobsOK, IsJob
<1>7. \A u, v \in Threads : \A i \in 1..Len(st2[u]), j \in 1..Len(st2[v]) :
         st2[u][i].pc \in JobLabels /\ st2[v][j].pc \in JobLabels /\ st2[u][i].n = st2[v][j].n
            => u = v /\ i = j
  BY <1>4 DEF JobsOK, IsJob
<1> QED BY <1>5, <1>6, <1>7 DEF JobsOK

LEMMA CallJobs ==
    ASSUME NEW c, NEW st, StackOK(c, st), NEW t \in Threads, st[t] # << >>,
           NEW act, JobsOK(act, st), NEW f \in Frames(c), NEW g \in Frames(c), ~IsJob(g),
           f.n = st[t][Len(st[t])].n, IsJob(f) <=> IsJob(st[t][Len(st[t])]),
           NEW st2, Changes(st, st2, t, Append(Append(Front(st[t]), f), g))
    PROVE  JobsOK(act, st2)
<1>1. st[t] \in Seq(Frames(c))
  BY StackTypes
<1>2. /\ Len(st2[t]) = Len(st[t]) + 1 /\ Len(st[t]) \in Nat \ {0}
      /\ \A i \in 1..(Len(st[t]) - 1) : st2[t][i] = st[t][i]
      /\ st2[t][Len(st[t])] = f /\ st2[t][Len(st[t]) + 1] = g
  BY <1>1, PushTop DEF Changes
<1>3. \A u \in Threads : u # t => st2[u] = st[u]
  BY DEF Changes
<1>4. ASSUME NEW u \in Threads, NEW i \in 1..Len(st[u])
      PROVE  /\ i \in 1..Len(st2[u])
             /\ st2[u][i].n = st[u][i].n /\ (IsJob(st2[u][i]) <=> IsJob(st[u][i]))
  <2>1. CASE u # t
    BY <1>3, <2>1
  <2>2. CASE u = t /\ i = Len(st[t])
    BY <1>2, <2>2
  <2>3. CASE u = t /\ i # Len(st[t])
    <3>1. i \in 1..(Len(st[t]) - 1)
      BY <1>2, <2>3
    <3> QED BY <1>2, <2>3, <3>1
  <2> QED BY <2>1, <2>2, <2>3
<1>5. ASSUME NEW u \in Threads, NEW i \in 1..Len(st2[u]), IsJob(st2[u][i])
      PROVE  i \in 1..Len(st[u])
  BY <1>2, <1>3, <1>5
<1>6. ASSUME NEW u \in Threads, NEW i \in 1..Len(st2[u]), st2[u][i].pc \in JobLabels
      PROVE  /\ i \in 1..Len(st[u]) /\ st[u][i].pc \in JobLabels
             /\ st[u][i].n = st2[u][i].n
  <2>1. i \in 1..Len(st[u])
    BY <1>5, <1>6 DEF IsJob
  <2> QED BY <1>4, <1>6, <2>1 DEF IsJob
<1>7. ASSUME NEW u \in Threads, NEW i \in 1..Len(st2[u]), st2[u][i].pc \in JobLabels
      PROVE  st2[u][i].n \in act
  BY <1>6, <1>7 DEF JobsOK
<1>8. ASSUME NEW q \in act
      PROVE  \E u \in Threads : \E i \in 1..Len(st2[u]) :
                st2[u][i].pc \in JobLabels /\ st2[u][i].n = q
  <2>1. PICK u \in Threads : \E i \in 1..Len(st[u]) : st[u][i].pc \in JobLabels /\ st[u][i].n = q
    BY <1>8 DEF JobsOK
  <2>2. PICK i \in 1..Len(st[u]) : st[u][i].pc \in JobLabels /\ st[u][i].n = q
    BY <2>1
  <2>3. i \in 1..Len(st2[u]) /\ st2[u][i].pc \in JobLabels /\ st2[u][i].n = q
    BY <1>4, <2>2 DEF IsJob
  <2> QED BY <2>3
<1>9. ASSUME NEW u \in Threads, NEW v \in Threads,
             NEW i \in 1..Len(st2[u]), NEW j \in 1..Len(st2[v]),
             st2[u][i].pc \in JobLabels, st2[v][j].pc \in JobLabels,
             st2[u][i].n = st2[v][j].n
      PROVE  u = v /\ i = j
  <2>1. /\ i \in 1..Len(st[u]) /\ st[u][i].pc \in JobLabels /\ st[u][i].n = st2[u][i].n
        /\ j \in 1..Len(st[v]) /\ st[v][j].pc \in JobLabels /\ st[v][j].n = st2[v][j].n
    BY <1>6, <1>9
  <2>2. st[u][i].n = st[v][j].n
    BY <1>9, <2>1
  <2>3. \A a, b \in Threads : \A x \in 1..Len(st[a]), y \in 1..Len(st[b]) :
           st[a][x].pc \in JobLabels /\ st[b][y].pc \in JobLabels /\ st[a][x].n = st[b][y].n
              => a = b /\ x = y
    BY DEF JobsOK
  <2> QED BY <2>1, <2>2, <2>3
<1> QED BY <1>7, <1>8, <1>9 DEF JobsOK

(* The jobs of st2 are those of st that act2 has. *)
LEMMA JobsBy ==
    ASSUME NEW st, NEW st2, NEW act, NEW act2, JobsOK(act, st), act2 \subseteq act,
           \A u \in Threads : \A i, q : JobAt(st2, u, i, q) <=> JobAt(st, u, i, q) /\ q \in act2
    PROVE  JobsOK(act2, st2)
<1>1. ASSUME NEW u \in Threads, NEW i \in 1..Len(st2[u]), st2[u][i].pc \in JobLabels
      PROVE  st2[u][i].n \in act2 /\ JobAt(st, u, i, st2[u][i].n)
  <2>1. JobAt(st2, u, i, st2[u][i].n)
    BY <1>1 DEF JobAt
  <2> QED BY <2>1
<1>2. ASSUME NEW q \in act2
      PROVE  \E u \in Threads : \E i \in 1..Len(st2[u]) :
                st2[u][i].pc \in JobLabels /\ st2[u][i].n = q
  <2>1. PICK u \in Threads : \E i \in 1..Len(st[u]) : st[u][i].pc \in JobLabels /\ st[u][i].n = q
    BY DEF JobsOK
  <2>2. PICK i \in 1..Len(st[u]) : st[u][i].pc \in JobLabels /\ st[u][i].n = q
    BY <2>1
  <2>3. JobAt(st, u, i, q)
    BY <2>2 DEF JobAt
  <2>4. JobAt(st2, u, i, q)
    BY <2>3
  <2> QED BY <2>4 DEF JobAt
<1>3. ASSUME NEW u \in Threads, NEW v \in Threads, NEW i \in 1..Len(st2[u]),
             NEW j \in 1..Len(st2[v]), st2[u][i].pc \in JobLabels, st2[v][j].pc \in JobLabels,
             st2[u][i].n = st2[v][j].n
      PROVE  u = v /\ i = j
  <2>1. JobAt(st, u, i, st2[u][i].n) /\ JobAt(st, v, j, st2[u][i].n)
    BY <1>1, <1>3
  <2> QED BY <2>1 DEF JobsOK, JobAt
<1> QED BY <1>1, <1>2, <1>3 DEF JobsOK

LEMMA StartJobs ==
    ASSUME NEW c, NEW st, StackOK(c, st), NEW t \in Threads, st[t] = << >>,
           NEW act, JobsOK(act, st), NEW g \in Frames(c), ~IsJob(g),
           NEW st2, Changes(st, st2, t, <<g>>)
    PROVE  JobsOK(act, st2)
<1>1. Len(st2[t]) = 1 /\ st2[t][1] = g /\ Len(st[t]) = 0
  BY DEF Changes
<1>2. \A u \in Threads : u # t => st2[u] = st[u]
  BY DEF Changes
<1>3. ASSUME NEW u \in Threads, NEW i, NEW q
      PROVE  JobAt(st2, u, i, q) <=> JobAt(st, u, i, q)
  BY <1>1, <1>2 DEF JobAt, IsJob
<1>4. ASSUME NEW u \in Threads, NEW i, NEW q, JobAt(st, u, i, q) PROVE q \in act
  BY <1>4 DEF JobAt, JobsOK
<1> QED BY <1>3, <1>4, JobsBy

(* The frames of a stack after a return, but for the answer. *)
LEMMA PoppedFrames ==
    ASSUME NEW c, NEW st, StackOK(c, st), NEW t \in Threads, st[t] # << >>, NEW ok \in BOOLEAN,
           NEW st2, Changes(st, st2, t, Popped(st[t], ok))
    PROVE  /\ Len(st[t]) \in Nat \ {0} /\ Len(st2[t]) = Len(st[t]) - 1
           /\ \A u \in Threads : u # t => st2[u] = st[u]
           /\ \A i \in 1..(Len(st[t]) - 1) :
                 st2[t][i].pc = st[t][i].pc /\ st2[t][i].n = st[t][i].n
<1>1. st[t] \in Seq(Frames(c)) /\ Len(st[t]) \in Nat \ {0}
  BY StackTypes
<1>2. ASSUME Len(st[t]) > 1
      PROVE  /\ st[t][Len(st[t]) - 1] \in Frames(c)
             /\ st[t][Len(st[t]) - 1].pc \in {"ensured", "marked", "tried", "forced", "run"}
             /\ [st[t][Len(st[t]) - 1] EXCEPT !.ok = ok] \in Frames(c)
  <2>1. PICK k \in 1..(Len(st[t]) - 1) : k + 1 = Len(st[t]) /\ k = Len(st[t]) - 1
    <3>1. PICK l \in Nat : l = Len(st[t]) /\ l > 1
      BY <1>1, <1>2
    <3>2. l - 1 \in 1..(l - 1) /\ (l - 1) + 1 = l
      BY <3>1
    <3> QED BY <3>1, <3>2
  <2>2. Linked(c, st[t][k], st[t][k + 1])
    BY DEF StackOK
  <2>3. st[t][k] \in Frames(c)
    BY <1>1, <2>1, StackTypes
  <2>4. st[t][k].pc \in {"ensured", "marked", "tried", "forced", "run"}
    BY <2>2, CallerLabels
  <2>5. [st[t][k] EXCEPT !.ok = ok] \in Frames(c)
    BY <2>3, <2>4, AnswerKept
  <2> QED BY <2>1, <2>3, <2>4, <2>5
<1>3. /\ Len(Popped(st[t], ok)) = Len(st[t]) - 1
      /\ \A i \in 1..(Len(st[t]) - 2) : Popped(st[t], ok)[i] = st[t][i]
      /\ Len(st[t]) > 1 => Popped(st[t], ok)[Len(st[t]) - 1] = [st[t][Len(st[t]) - 1] EXCEPT !.ok = ok]
  BY <1>1, <1>2, PopTop
<1>4. st2[t] = Popped(st[t], ok) /\ \A u \in Threads : u # t => st2[u] = st[u]
  BY DEF Changes
<1>5. ASSUME NEW i \in 1..(Len(st[t]) - 1)
      PROVE  st2[t][i].pc = st[t][i].pc /\ st2[t][i].n = st[t][i].n
  <2>1. CASE i < Len(st[t]) - 1
    <3>1. i \in 1..(Len(st[t]) - 2)
      BY <1>1, <2>1
    <3> QED BY <1>3, <1>4, <3>1
  <2>2. CASE i = Len(st[t]) - 1
    <3>1. Len(st[t]) > 1
      BY <1>1, <2>2
    <3>2. st2[t][i] = [st[t][i] EXCEPT !.ok = ok]
      BY <1>3, <1>4, <2>2, <3>1
    <3> QED BY <1>2, <2>2, <3>1, <3>2, AnswerKept
  <2> QED BY <1>1, <2>1, <2>2
<1> QED BY <1>1, <1>3, <1>4, <1>5

LEMMA ReturnJobs ==
    ASSUME NEW c, NEW st, StackOK(c, st), NEW t \in Threads, st[t] # << >>,
           NEW act, JobsOK(act, st), NEW ok \in BOOLEAN,
           NEW st2, Changes(st, st2, t, Popped(st[t], ok))
    PROVE  /\ ~IsJob(st[t][Len(st[t])]) => JobsOK(act, st2)
           /\ IsJob(st[t][Len(st[t])]) => JobsOK(act \ {st[t][Len(st[t])].n}, st2)
<1>1. /\ Len(st[t]) \in Nat \ {0} /\ Len(st2[t]) = Len(st[t]) - 1
      /\ \A u \in Threads : u # t => st2[u] = st[u]
  BY PoppedFrames
<1>2. \A i \in 1..(Len(st[t]) - 1) : st2[t][i].pc = st[t][i].pc /\ st2[t][i].n = st[t][i].n
  BY PoppedFrames
<1>3. ASSUME NEW u \in Threads, NEW i, NEW q
      PROVE  JobAt(st2, u, i, q) <=> JobAt(st, u, i, q) /\ ~(u = t /\ i = Len(st[t]))
  <2>1. CASE u # t
    BY <1>1, <2>1 DEF JobAt
  <2>2. CASE u = t
    <3>1. i \in 1..Len(st2[t]) <=> i \in 1..Len(st[t]) /\ i # Len(st[t])
      BY <1>1
    <3>2. i \in 1..Len(st2[t]) <=> i \in 1..(Len(st[t]) - 1)
      BY <1>1
    <3> QED BY <1>2, <2>2, <3>1, <3>2 DEF JobAt
  <2> QED BY <2>1, <2>2
<1>4. Len(st[t]) \in 1..Len(st[t])
  BY <1>1
<1>5. ASSUME NEW u \in Threads, NEW i, NEW q, JobAt(st, u, i, q) PROVE q \in act
  BY <1>5 DEF JobAt, JobsOK
<1>6. ASSUME ~IsJob(st[t][Len(st[t])]) PROVE JobsOK(act, st2)
  <2>1. ASSUME NEW u \in Threads, NEW i, NEW q
        PROVE  JobAt(st2, u, i, q) <=> JobAt(st, u, i, q) /\ q \in act
    BY SMTT(30), <1>3, <1>5, <1>6 DEF JobAt, IsJob
  <2> QED BY <2>1, JobsBy
<1>7. ASSUME IsJob(st[t][Len(st[t])]) PROVE JobsOK(act \ {st[t][Len(st[t])].n}, st2)
  <2>1. JobAt(st, t, Len(st[t]), st[t][Len(st[t])].n)
    BY <1>4, <1>7 DEF JobAt, IsJob
  <2>2. ASSUME NEW u \in Threads, NEW i, NEW q, JobAt(st, u, i, q)
        PROVE  q = st[t][Len(st[t])].n <=> (u = t /\ i = Len(st[t]))
    <3>1. CASE q = st[t][Len(st[t])].n
      BY <2>1, <2>2, <3>1 DEF JobsOK, JobAt
    <3>2. CASE u = t /\ i = Len(st[t])
      BY <2>1, <2>2, <3>2 DEF JobAt
    <3> QED BY <3>1, <3>2
  <2>3. ASSUME NEW u \in Threads, NEW i, NEW q
        PROVE  JobAt(st2, u, i, q) <=>
                  JobAt(st, u, i, q) /\ q \in act \ {st[t][Len(st[t])].n}
    BY <1>3, <1>5, <2>2
  <2>4. act \ {st[t][Len(st[t])].n} \subseteq act
    OBVIOUS
  <2> QED BY <2>3, <2>4, JobsBy
<1> QED BY <1>6, <1>7

(* A thread starts a job that no thread has. *)
LEMMA NewJob ==
    ASSUME NEW c, NEW st, StackOK(c, st), NEW t \in Threads, st[t] # << >>,
           NEW act, JobsOK(act, st), NEW f \in Frames(c), f.n = st[t][Len(st[t])].n,
           IsJob(f), ~IsJob(st[t][Len(st[t])]), f.n \notin act,
           NEW st2, Changes(st, st2, t, Append(Front(st[t]), f))
    PROVE  JobsOK(act \union {f.n}, st2)
<1>1. st[t] \in Seq(Frames(c))
  BY StackTypes
<1>2. /\ Len(st2[t]) = Len(st[t]) /\ Len(st[t]) \in Nat \ {0}
      /\ \A i \in 1..(Len(st[t]) - 1) : st2[t][i] = st[t][i]
      /\ st2[t][Len(st[t])] = f
  BY <1>1, ReplaceTop DEF Changes
<1>3. \A u \in Threads : u # t => st2[u] = st[u]
  BY DEF Changes
<1>4. Len(st[t]) \in 1..Len(st[t])
  BY <1>2
<1>5. ASSUME NEW u \in Threads, NEW i, NEW q
      PROVE  JobAt(st2, u, i, q) <=> JobAt(st, u, i, q) \/ (u = t /\ i = Len(st[t]) /\ q = f.n)
  <2>1. CASE u # t
    BY <1>3, <2>1 DEF JobAt
  <2>2. CASE u = t /\ i = Len(st[t])
    BY <1>2, <1>4, <2>2 DEF JobAt, IsJob
  <2>3. CASE u = t /\ i # Len(st[t])
    <3>1. i \in 1..Len(st[t]) <=> i \in 1..(Len(st[t]) - 1)
      BY <1>2, <2>3
    <3> QED BY <1>2, <2>3, <3>1 DEF JobAt
  <2> QED BY <2>1, <2>2, <2>3
<1>6. ASSUME NEW u \in Threads, NEW i, NEW q, JobAt(st, u, i, q) PROVE q \in act
  BY <1>6 DEF JobAt, JobsOK
<1>7. ASSUME NEW u \in Threads, NEW i \in 1..Len(st2[u]), st2[u][i].pc \in JobLabels
      PROVE  st2[u][i].n \in act \union {f.n}
  <2>1. JobAt(st2, u, i, st2[u][i].n)
    BY <1>7 DEF JobAt
  <2> QED BY <1>5, <1>6, <2>1
<1>8. ASSUME NEW q \in act \union {f.n}
      PROVE  \E u \in Threads : \E i \in 1..Len(st2[u]) :
                st2[u][i].pc \in JobLabels /\ st2[u][i].n = q
  <2>1. CASE q = f.n
    BY <1>2, <1>4, <2>1 DEF IsJob
  <2>2. CASE q \in act
    <3>1. PICK u \in Threads : \E i \in 1..Len(st[u]) : st[u][i].pc \in JobLabels /\ st[u][i].n = q
      BY <2>2 DEF JobsOK
    <3>2. PICK i \in 1..Len(st[u]) : st[u][i].pc \in JobLabels /\ st[u][i].n = q
      BY <3>1
    <3>3. JobAt(st, u, i, q)
      BY <3>2 DEF JobAt
    <3>4. JobAt(st2, u, i, q)
      BY <1>5, <3>3
    <3> QED BY <3>4 DEF JobAt
  <2> QED BY <2>1, <2>2
<1>9. ASSUME NEW u \in Threads, NEW v \in Threads, NEW i \in 1..Len(st2[u]),
             NEW j \in 1..Len(st2[v]), st2[u][i].pc \in JobLabels, st2[v][j].pc \in JobLabels,
             st2[u][i].n = st2[v][j].n
      PROVE  u = v /\ i = j
  <2>1. PICK q : q = st2[u][i].n
    OBVIOUS
  <2>2. JobAt(st2, u, i, q) /\ JobAt(st2, v, j, q)
    BY <1>9, <2>1 DEF JobAt
  <2>3. CASE q = f.n
    <3>1. ~JobAt(st, u, i, q) /\ ~JobAt(st, v, j, q)
      BY <1>6, <2>3
    <3> QED BY <1>5, <2>2, <3>1
  <2>4. CASE q # f.n
    <3>1. JobAt(st, u, i, q) /\ JobAt(st, v, j, q)
      BY <1>5, <2>2, <2>4
    <3> QED BY SMTT(30), <3>1 DEF JobAt, JobsOK
  <2> QED BY <2>3, <2>4
<1> QED BY <1>7, <1>8, <1>9 DEF JobsOK

-----------------------------------------------------------------------------
(* Steps: what an action does to the stack of its thread *)

StacksOK(c) ==
    StackOK(c, stack) /\ StackDyn(c, colour, promoted, fresh, stack) /\ JobsOK(active, stack)

LEMMA OldDepsTypes ==
    ASSUME NEW c, Context(c), NEW n \in OldNodes(c)
    PROVE  /\ Len(OldDeps(c, n)) \in Nat
           /\ \A i \in 1..Len(OldDeps(c, n)) :
                 OldDeps(c, n)[i] \in OldNodes(c) /\ OldDeps(c, n)[i] \in ToSet(OldDeps(c, n))
           /\ \A d \in ToSet(OldDeps(c, n)) :
                 d \in OldNodes(c) /\ \E i \in 1..Len(OldDeps(c, n)) : d = OldDeps(c, n)[i]
<1>1. IsSession(c.w, c.before, c.old) /\ n \in DOMAIN c.old.node
  BY DEF Context, OldNodes
<1>2. /\ Len(c.old.node[n].edges) \in Nat
      /\ \A i \in 1..Len(c.old.node[n].edges) : c.old.node[n].edges[i] \in DOMAIN c.old.node
  BY <1>1, EdgesAreNodes
<1>3. \A d : d \in ToSet(c.old.node[n].edges) <=>
                 \E i \in 1..Len(c.old.node[n].edges) : d = c.old.node[n].edges[i]
  <2>1. c.old.node[n].edges \in Seq(DOMAIN c.old.node)
    BY <1>1, EdgesAreNodes
  <2> QED BY <2>1 DEF ToSet
<1> QED BY <1>2, <1>3 DEF OldNodes, OldDeps

LEMMA TopFrame ==
    ASSUME NEW c, Context(c), StateOK(c), NEW t \in Threads, NEW L, At(t, L)
    PROVE  /\ stack[t] # << >> /\ Top(t) = stack[t][Len(stack[t])]
           /\ Top(t) \in Frames(c) /\ Top(t) \in FrameType(c) /\ Top(t).pc \in L
           /\ FrameDyn(c, colour, promoted, fresh, Top(t)) /\ TopOK(c, colour, Top(t))
           /\ failure.why = ""
<1>1. StackOK(c, stack) /\ StackDyn(c, colour, promoted, fresh, stack)
  BY DEF StateOK
<1>2. stack[t] # << >> /\ Top(t).pc \in L /\ failure.why = ""
  BY DEF At
<1>3. Top(t) = stack[t][Len(stack[t])]
  BY DEF Top, Last
<1>4. Len(stack[t]) \in Nat /\ Len(stack[t]) > 0 /\ stack[t][Len(stack[t])] \in Frames(c)
  BY <1>1, <1>2, StackTypes
<1>5. Len(stack[t]) \in 1..Len(stack[t])
  BY <1>4
<1>6. FrameDyn(c, colour, promoted, fresh, Top(t)) /\ TopOK(c, colour, Top(t))
  BY <1>1, <1>2, <1>3, <1>5 DEF StackDyn
<1> QED BY <1>2, <1>3, <1>4, <1>6 DEF Frames

LEMMA NewFrame ==
    ASSUME NEW c, NEW l, l \in Labels, NEW n, n \in Queries \/ n \in OldNodes(c),
           NEW g, g = Frame(l, n)
    PROVE  /\ g \in FrameType(c) /\ g.pc = l /\ g.n = n /\ g.i = 1 /\ ~g.ok /\ ~g.green
<1>1. PICK S, T : S = Seq(Values) /\ T = Seq(DOMAIN c.now.node)
  OBVIOUS
<1>2. << >> \in S /\ << >> \in T
  BY <1>1
<1> QED BY <1>1, <1>2 DEF Frame, FrameType

LEMMA MarkCalled ==
    ASSUME NEW c, Context(c), NEW n \in OldNodes(c) \ c.w.inputs, Wanted(c, n),
           NEW col, NEW pro, NEW fre
    PROVE  /\ Frame("mark", n) \in Frames(c) /\ Frame("mark", n).pc = "mark"
           /\ Frame("mark", n).n = n
           /\ FrameDyn(c, col, pro, fre, Frame("mark", n)) /\ TopOK(c, col, Frame("mark", n))
<1>1. PICK g : g = Frame("mark", n)
  OBVIOUS
<1>2. g \in FrameType(c) /\ g.pc = "mark" /\ g.n = n /\ g.i = 1 /\ ~g.green
  <2>1. "mark" \in Labels
    BY DEF Labels
  <2>2. n \in OldNodes(c)
    OBVIOUS
  <2> QED BY <1>1, <2>1, <2>2, NewFrame
<1>3. Len(OldDeps(c, n)) \in Nat
  BY OldDepsTypes
<1>4. g \in Frames(c)
  <2>1. MarkFrame(c, g)
    BY <1>2, <1>3 DEF MarkFrame
  <2> QED BY <1>2, <2>1 DEF Frames, QueryLabels, CalledLabels, JobLabels
<1>5. FrameDyn(c, col, pro, fre, g) /\ TopOK(c, col, g)
  BY <1>2 DEF FrameDyn, TopOK
<1> QED BY <1>1, <1>2, <1>4, <1>5

LEMMA QueryCalled ==
    ASSUME NEW c, Context(c), NEW l \in {"get", "ensure"}, NEW n \in c.now.needed,
           NEW col, NEW pro, NEW fre
    PROVE  /\ Frame(l, n) \in Frames(c) /\ Frame(l, n).pc = l /\ Frame(l, n).n = n
           /\ FrameDyn(c, col, pro, fre, Frame(l, n)) /\ TopOK(c, col, Frame(l, n))
<1>1. PICK g : g = Frame(l, n)
  OBVIOUS
<1>2. n \in Queries
  BY SessionReads DEF Context
<1>3. /\ g \in FrameType(c) /\ g.pc = l /\ g.n = n /\ g.i = 1 /\ ~g.green
      /\ g.vals = << >> /\ g.reads = << >> /\ ~g.ok
  <2>1. l \in Labels
    BY DEF Labels
  <2>2. g \in FrameType(c) /\ g.pc = l /\ g.n = n /\ g.i = 1 /\ ~g.green /\ ~g.ok
    BY <1>1, <1>2, <2>1, NewFrame
  <2>3. g.vals = << >> /\ g.reads = << >>
    BY <1>1 DEF Frame
  <2> QED BY <2>2, <2>3
<1>4. g \in Frames(c)
  <2>1. QueryFrame(c, g)
    BY <1>3 DEF QueryFrame
  <2> QED BY <1>3, <2>1 DEF Frames, MarkLabels
<1>5. FrameDyn(c, col, pro, fre, g) /\ TopOK(c, col, g)
  BY <1>3 DEF FrameDyn, TopOK, MarkLabels
<1> QED BY <1>1, <1>3, <1>4, <1>5

LEMMA ContinueStep ==
    ASSUME NEW c, StateOK(c), NEW t \in Threads, stack[t] # << >>, Top(t) = stack[t][Len(stack[t])],
           NEW f \in Frames(c), Replaces(f, Top(t)), IsJob(f) <=> IsJob(Top(t)),
           FrameDyn(c, colour, promoted, fresh, f), TopOK(c, colour, f),
           Continue(t, f), UNCHANGED <<colour, promoted, fresh, active>>
    PROVE  StacksOK(c)'
<1>1. StackOK(c, stack) /\ StackDyn(c, colour, promoted, fresh, stack) /\ JobsOK(active, stack)
  BY DEF StateOK
<1>2. Changes(stack, stack', t, Append(Front(stack[t]), f))
  BY <1>1, ChangesExcept DEF Continue
<1>3. OthersDyn(c, colour, promoted, fresh, stack, t)
  BY <1>1, SameGraph
<1>4. StackOK(c, stack') /\ StackDyn(c, colour, promoted, fresh, stack')
  BY <1>1, <1>2, <1>3, ContinueStack
<1>5. JobsOK(active, stack')
  BY <1>1, <1>2, ContinueJobs DEF Replaces
<1> QED BY <1>4, <1>5 DEF StacksOK

LEMMA CallStep ==
    ASSUME NEW c, StateOK(c), NEW t \in Threads, stack[t] # << >>, Top(t) = stack[t][Len(stack[t])],
           NEW f \in Frames(c), Replaces(f, Top(t)), IsJob(f) <=> IsJob(Top(t)),
           FrameDyn(c, colour, promoted, fresh, f),
           NEW g \in Frames(c), ~IsJob(g), Linked(c, f, g),
           FrameDyn(c, colour, promoted, fresh, g), TopOK(c, colour, g),
           Call(t, f, g), UNCHANGED <<colour, promoted, fresh, active>>
    PROVE  StacksOK(c)'
<1>1. StackOK(c, stack) /\ StackDyn(c, colour, promoted, fresh, stack) /\ JobsOK(active, stack)
  BY DEF StateOK
<1>2. Changes(stack, stack', t, Append(Append(Front(stack[t]), f), g))
  BY <1>1, ChangesExcept DEF Call
<1>3. OthersDyn(c, colour, promoted, fresh, stack, t)
  BY <1>1, SameGraph
<1>4. StackOK(c, stack') /\ StackDyn(c, colour, promoted, fresh, stack')
  BY <1>1, <1>2, <1>3, CallStack
<1>5. JobsOK(active, stack')
  BY <1>1, <1>2, CallJobs DEF Replaces
<1> QED BY <1>4, <1>5 DEF StacksOK

LEMMA ReturnChanges ==
    ASSUME NEW c, StackOK(c, stack), NEW t \in Threads, NEW ok, Return(t, ok)
    PROVE  Changes(stack, stack', t, Popped(stack[t], ok))
<1>1. stack' = [stack EXCEPT ![t] = Popped(stack[t], ok)]
  BY DEF Return, Popped
<1> QED BY <1>1, ChangesExcept

LEMMA ReturnStep ==
    ASSUME NEW c, StateOK(c), NEW t \in Threads, stack[t] # << >>, Top(t) = stack[t][Len(stack[t])],
           NEW ok \in BOOLEAN, ~IsJob(Top(t)),
           \A b \in Frames(c) : Linked(c, b, Top(t)) => TopOK(c, colour, [b EXCEPT !.ok = ok]),
           Return(t, ok), UNCHANGED <<colour, promoted, fresh, active>>
    PROVE  StacksOK(c)'
<1>1. StackOK(c, stack) /\ StackDyn(c, colour, promoted, fresh, stack) /\ JobsOK(active, stack)
  BY DEF StateOK
<1>2. Changes(stack, stack', t, Popped(stack[t], ok))
  BY <1>1, ReturnChanges
<1>3. OthersDyn(c, colour, promoted, fresh, stack, t)
  BY <1>1, SameGraph
<1>4. StackOK(c, stack') /\ StackDyn(c, colour, promoted, fresh, stack')
  BY <1>1, <1>2, <1>3, ReturnStack
<1>5. JobsOK(active, stack')
  BY <1>1, <1>2, ReturnJobs
<1> QED BY <1>4, <1>5 DEF StacksOK

(* What an action that moves no node, result or diagnostic leaves alone. *)
RestOK(c) ==
    /\ GraphOK(c, colour, promoted, fresh)
    /\ CacheOK(c, colour, promoted, fresh, cache, active)
    /\ EffectsOK(c, processed, stored, emitted, cache)
    /\ ControlOK(c, todo, left, failure)

LEMMA RestKept ==
    ASSUME NEW c, StateOK(c), UNCHANGED <<graph, effects, jobs>>, UNCHANGED control
    PROVE  RestOK(c)'
BY DEF StateOK, RestOK, graph, effects, jobs, control

LEMMA StateParts ==
    ASSUME NEW c, StacksOK(c)', RestOK(c)'
    PROVE  StateOK(c)'
BY DEF StateOK, StacksOK, RestOK

LEMMA PrevContext ==
    ASSUME NEW c, InContext(c)
    PROVE  /\ Context(c) /\ world = c.w /\ input = c.inp
           /\ \A n : PrevDeps(n) = OldDeps(c, n)
           /\ \A n : prev.node[n] = c.old.node[n] /\ prev.value[n] = c.old.value[n]
           /\ prev.warned \subseteq c.w.warns
BY DEF InContext, PrevDeps, OldDeps

LEMMA KnownNodes ==
    ASSUME NEW c, StateOK(c), NEW n
    PROVE  /\ Known(n) <=> n \in OldNodes(c)
           /\ n \in OldNodes(c) => colour[n] \in {"none", "red", "green"}
BY DEF StateOK, GraphOK, Known

(* A dependency is green: the next one. *)
LEMMA AdvanceMark ==
    ASSUME NEW c, Context(c), NEW f \in Frames(c), f.pc \in {"mark", "forced", "tried"},
           f.i <= Len(OldDeps(c, f.n)), NEW col, col[OldDeps(c, f.n)[f.i]] = "green",
           NEW pro, NEW fre, FrameDyn(c, col, pro, fre, f),
           NEW g, g = [f EXCEPT !.pc = "mark", !.i = @ + 1]
    PROVE  /\ g \in Frames(c) /\ Replaces(g, f) /\ ~IsJob(f) /\ ~IsJob(g)
           /\ FrameDyn(c, col, pro, fre, g) /\ TopOK(c, col, g)
<1>1. f \in FrameType(c) /\ ~f.green /\ MarkFrame(c, f)
  BY DEF Frames, MarkLabels
<1>2. f.i \in Nat \ {0} /\ f.n \in OldNodes(c)
  BY <1>1 DEF FrameType, MarkFrame
<1>3. /\ g \in FrameType(c) /\ g.pc = "mark" /\ g.n = f.n /\ g.i = f.i + 1 /\ g.green = f.green
  <2>1. "mark" \in Labels
    BY DEF Labels
  <2>2. PICK k \in Nat \ {0} : k = f.i + 1
    BY <1>2
  <2>3. g = [f EXCEPT !.pc = "mark", !.i = k]
    BY <2>2
  <2>4. g \in FrameType(c) /\ g.pc = "mark" /\ g.n = f.n /\ g.i = k /\ g.green = f.green
    BY <1>1, <2>1, <2>3 DEF FrameType
  <2> QED BY <2>2, <2>4
<1>4. Len(OldDeps(c, f.n)) \in Nat
  BY <1>2, OldDepsTypes
<1>5. g \in Frames(c)
  <2>1. MarkFrame(c, g)
    BY <1>1, <1>2, <1>3, <1>4 DEF MarkFrame
  <2> QED BY <1>1, <1>3, <2>1 DEF Frames, QueryLabels, CalledLabels, JobLabels
<1>6. FrameDyn(c, col, pro, fre, g)
  <2>1. \A j \in 1..(f.i - 1) : col[OldDeps(c, f.n)[j]] = "green"
    BY DEF FrameDyn, MarkLabels
  <2>2. \A j \in 1..(g.i - 1) : col[OldDeps(c, g.n)[j]] = "green"
    BY <1>2, <1>3, <2>1
  <2> QED BY <1>1, <1>3, <2>2 DEF FrameDyn
<1>7. TopOK(c, col, g)
  BY <1>3 DEF TopOK
<1> QED BY <1>3, <1>5, <1>6, <1>7 DEF Replaces, IsJob, MarkLabels, CalledLabels, JobLabels

LEMMA DepGreenOK ==
    ASSUME NEW c, InContext(c), StateOK(c), NEW t \in Threads, DepGreen(t)
    PROVE  StateOK(c)'
<1>1. At(t, {"mark", "forced"}) /\ Context(c)
  BY DEF DepGreen, AtDep, InContext
<1>2. /\ stack[t] # << >> /\ Top(t) = stack[t][Len(stack[t])] /\ Top(t) \in Frames(c)
      /\ Top(t).pc \in {"mark", "forced"} /\ FrameDyn(c, colour, promoted, fresh, Top(t))
  BY <1>1, TopFrame
<1>3. /\ Top(t).i <= Len(OldDeps(c, Top(t).n))
      /\ colour[OldDeps(c, Top(t).n)[Top(t).i]] = "green"
  BY PrevContext DEF DepGreen, AtDep, Dep
<1>4. PICK g : g = [Top(t) EXCEPT !.pc = "mark", !.i = @ + 1]
  OBVIOUS
<1>5. /\ g \in Frames(c) /\ Replaces(g, Top(t)) /\ ~IsJob(Top(t)) /\ ~IsJob(g)
      /\ FrameDyn(c, colour, promoted, fresh, g) /\ TopOK(c, colour, g)
  BY <1>1, <1>2, <1>3, <1>4, AdvanceMark
<1>6. /\ Continue(t, g) /\ UNCHANGED <<fixed, graph, effects, jobs>> /\ UNCHANGED control
  BY <1>4 DEF DepGreen, AtDep, NoFailure
<1>7. StacksOK(c)'
  BY <1>2, <1>5, <1>6, ContinueStep DEF graph, jobs
<1> QED BY <1>6, <1>7, RestKept, StateParts

LEMMA DepMarkedOK ==
    ASSUME NEW c, InContext(c), StateOK(c), NEW t \in Threads, DepMarked(t)
    PROVE  StateOK(c)'
<1>1. At(t, {"tried"}) /\ Context(c)
  BY DEF DepMarked, InContext
<1>2. /\ stack[t] # << >> /\ Top(t) = stack[t][Len(stack[t])] /\ Top(t) \in Frames(c)
      /\ Top(t).pc \in {"tried"} /\ FrameDyn(c, colour, promoted, fresh, Top(t))
      /\ TopOK(c, colour, Top(t))
  BY <1>1, TopFrame
<1>3. /\ Top(t).i <= Len(OldDeps(c, Top(t).n))
      /\ colour[OldDeps(c, Top(t).n)[Top(t).i]] = "green"
  <2>1. Top(t).ok
    BY DEF DepMarked
  <2> QED BY <1>2, <2>1 DEF TopOK, Frames, MarkLabels, MarkFrame
<1>4. PICK g : g = [Top(t) EXCEPT !.pc = "mark", !.i = @ + 1]
  OBVIOUS
<1>5. /\ g \in Frames(c) /\ Replaces(g, Top(t)) /\ ~IsJob(Top(t)) /\ ~IsJob(g)
      /\ FrameDyn(c, colour, promoted, fresh, g) /\ TopOK(c, colour, g)
  <2>1. Top(t).pc \in {"mark", "forced", "tried"}
    BY <1>2
  <2> QED BY <1>1, <1>2, <1>3, <1>4, <2>1, AdvanceMark
<1>6. /\ Continue(t, g) /\ UNCHANGED <<fixed, graph, effects, jobs>> /\ UNCHANGED control
  BY <1>4 DEF DepMarked, NoFailure
<1>7. StacksOK(c)'
  BY <1>2, <1>5, <1>6, ContinueStep DEF graph, jobs
<1> QED BY <1>6, <1>7, RestKept, StateParts

(* Marking that fails leaves a node that must be executed. *)
LEMMA MarkFails ==
    ASSUME NEW c, NEW f, f.pc \in MarkLabels, MustRun(c, f.n), NEW col
    PROVE  \A b \in Frames(c) : Linked(c, b, f) => TopOK(c, col, [b EXCEPT !.ok = FALSE])
<1> SUFFICES ASSUME NEW b \in Frames(c), Linked(c, b, f) PROVE TopOK(c, col, [b EXCEPT !.ok = FALSE])
  OBVIOUS
<1>1. b.pc \in {"ensured", "marked", "tried", "forced", "run"}
  BY CallerLabels
<1>2. PICK g : g = [b EXCEPT !.ok = FALSE]
  OBVIOUS
<1>3. FALSE \in BOOLEAN
  OBVIOUS
<1>4. g.pc = b.pc /\ g.n = b.n /\ g.i = b.i /\ ~g.ok
  BY <1>1, <1>2, <1>3, AnswerKept
<1>5. \/ b.pc \in {"ensured", "marked"} /\ f.n = b.n
      \/ b.pc = "tried" /\ f.n = OldDeps(c, b.n)[b.i]
  BY DEF Linked, MarkLabels, CalledLabels, JobLabels
<1>6. TopOK(c, col, g)
  BY <1>4, <1>5 DEF TopOK
<1> QED BY <1>2, <1>6

LEMMA ReturnMarkFails ==
    ASSUME NEW c, InContext(c), StateOK(c), NEW t \in Threads, At(t, MarkLabels),
           MustRun(c, Top(t).n), Return(t, FALSE),
           UNCHANGED <<graph, effects, jobs>>, UNCHANGED control
    PROVE  StateOK(c)'
<1>1. /\ stack[t] # << >> /\ Top(t) = stack[t][Len(stack[t])] /\ Top(t) \in Frames(c)
      /\ Top(t).pc \in MarkLabels
  BY TopFrame DEF InContext
<1>2. \A b \in Frames(c) : Linked(c, b, Top(t)) => TopOK(c, colour, [b EXCEPT !.ok = FALSE])
  BY <1>1, MarkFails
<1>3. ~IsJob(Top(t)) /\ FALSE \in BOOLEAN
  BY <1>1 DEF IsJob, JobLabels, MarkLabels
<1>4. UNCHANGED <<colour, promoted, fresh, active>>
  BY DEF graph, jobs
<1>5. StacksOK(c)'
  BY <1>1, <1>2, <1>3, <1>4, ReturnStep
<1> QED BY <1>5, RestKept, StateParts

LEMMA DepRedOK ==
    ASSUME NEW c, InContext(c), StateOK(c), NEW t \in Threads, DepRed(t)
    PROVE  StateOK(c)'
<1>1. At(t, {"mark", "forced"}) /\ Context(c)
  BY DEF DepRed, AtDep, InContext
<1>2. Top(t) \in Frames(c) /\ Top(t) \in FrameType(c) /\ Top(t).pc \in {"mark", "forced"}
  BY <1>1, TopFrame
<1>3. At(t, MarkLabels)
  BY <1>1 DEF At, MarkLabels
<1>4. PICK n, i : n = Top(t).n /\ i = Top(t).i
  OBVIOUS
<1>5. n \in OldNodes(c) /\ i \in Nat \ {0}
  BY <1>2, <1>4 DEF Frames, MarkLabels, MarkFrame, FrameType
<1>6. i <= Len(OldDeps(c, n)) /\ colour[OldDeps(c, n)[i]] = "red"
  BY <1>4, PrevContext DEF DepRed, AtDep, Dep
<1>7. /\ OldDeps(c, n)[i] \in OldNodes(c) /\ OldDeps(c, n)[i] \in ToSet(OldDeps(c, n))
  <2>1. i \in 1..Len(OldDeps(c, n))
    BY <1>1, <1>5, <1>6, OldDepsTypes
  <2> QED BY <1>1, <1>5, <2>1, OldDepsTypes
<1>8. Clean(c, OldDeps(c, n)[i]) => OldDeps(c, n)[i] \notin Greens(c)
  BY <1>6, <1>7 DEF StateOK, GraphOK
<1>9. MustRun(c, n)
  <2>1. Clean(c, n) => Clean(c, OldDeps(c, n)[i])
    BY <1>5, <1>7, CleanDeps
  <2> QED BY <1>7, <1>8, <2>1 DEF MustRun, Markable
<1>10. Return(t, FALSE) /\ UNCHANGED <<graph, effects, jobs>> /\ UNCHANGED control
  BY DEF DepRed, AtDep, NoFailure
<1> QED BY <1>3, <1>4, <1>9, <1>10, ReturnMarkFails

(* The dependency a frame is at, and that it is wanted. *)
LEMMA AtDepWanted ==
    ASSUME NEW c, Context(c), StateOK(c), NEW f \in Frames(c), f.pc \in {"mark", "tried"},
           FrameDyn(c, colour, promoted, fresh, f), f.i <= Len(OldDeps(c, f.n))
    PROVE  /\ f.n \in OldNodes(c) /\ f.n \notin c.w.inputs /\ f.i \in 1..Len(OldDeps(c, f.n))
           /\ OldDeps(c, f.n)[f.i] \in OldNodes(c)
           /\ OldDeps(c, f.n)[f.i] \in ToSet(OldDeps(c, f.n))
           /\ Wanted(c, OldDeps(c, f.n)[f.i])
           /\ OldDeps(c, f.n)[f.i] \in Queries => OldDeps(c, f.n)[f.i] \in c.now.needed
<1>1. f \in FrameType(c) /\ MarkFrame(c, f)
  BY DEF Frames, MarkLabels
<1>2. f.n \in OldNodes(c) /\ f.n \notin c.w.inputs /\ Wanted(c, f.n) /\ f.i \in Nat \ {0}
  BY <1>1 DEF MarkFrame, FrameType
<1>3. f.i \in 1..Len(OldDeps(c, f.n)) /\ Len(OldDeps(c, f.n)) \in Nat
  BY <1>2, OldDepsTypes
<1>4. /\ OldDeps(c, f.n)[f.i] \in OldNodes(c)
      /\ OldDeps(c, f.n)[f.i] \in ToSet(OldDeps(c, f.n))
  BY <1>2, <1>3, OldDepsTypes
<1>5. \A j \in 1..(f.i - 1) : Stable(c, OldDeps(c, f.n)[j])
  <2> SUFFICES ASSUME NEW j \in 1..(f.i - 1) PROVE Stable(c, OldDeps(c, f.n)[j])
    OBVIOUS
  <2>1. colour[OldDeps(c, f.n)[j]] = "green"
    BY DEF FrameDyn, MarkLabels
  <2>2. j \in 1..Len(OldDeps(c, f.n))
    BY <1>2, <1>3
  <2>3. OldDeps(c, f.n)[j] \in OldNodes(c)
    BY <1>2, <2>2, OldDepsTypes
  <2> QED BY <2>1, <2>3 DEF StateOK, GraphOK
<1>6. Wanted(c, OldDeps(c, f.n)[f.i])
  BY <1>2, <1>3, <1>5, DepWanted DEF OldDeps
<1>7. ASSUME OldDeps(c, f.n)[f.i] \in Queries PROVE OldDeps(c, f.n)[f.i] \in c.now.needed
  <2>1. PICK r : DirectFor(c, OldDeps(c, f.n)[f.i], r)
    BY <1>6, WantedDirect
  <2>2. /\ r \in c.now.needed /\ r \in c.old.needed /\ Direct(c.w, c.old, r)
        /\ c.old.nodeOf[r] = OldDeps(c, f.n)[f.i]
    BY <2>1 DEF DirectFor, Both
  <2>3. IsSession(c.w, c.before, c.old)
    BY DEF Context
  <2>4. c.old.nodeOf[r] = r
    BY <1>7, <2>2, <2>3, DirectNode
  <2> QED BY <2>2, <2>4
<1> QED BY <1>2, <1>3, <1>4, <1>6, <1>7

(* A mark frame keeps its place in the list and changes its label. *)
LEMMA RelabelMark ==
    ASSUME NEW c, NEW f \in Frames(c), f.pc \in {"mark", "tried"},
           f.i <= Len(OldDeps(c, f.n)), NEW l \in {"tried", "forced"},
           NEW col, NEW pro, NEW fre, FrameDyn(c, col, pro, fre, f),
           NEW g \in FrameType(c), g.pc = l, g.n = f.n, g.i = f.i, g.green = f.green
    PROVE  /\ g \in Frames(c) /\ Replaces(g, f) /\ ~IsJob(f) /\ ~IsJob(g)
           /\ FrameDyn(c, col, pro, fre, g)
<1>1. ~f.green /\ MarkFrame(c, f)
  BY DEF Frames, MarkLabels
<1>2. MarkFrame(c, g)
  BY <1>1 DEF MarkFrame
<1>3. g \in Frames(c)
  BY <1>1, <1>2 DEF Frames, QueryLabels, CalledLabels, JobLabels
<1>4. FrameDyn(c, col, pro, fre, g)
  BY <1>1 DEF FrameDyn, MarkLabels
<1> QED BY <1>3, <1>4 DEF Replaces, IsJob, MarkLabels, CalledLabels, JobLabels

LEMMA DepUnknownOK ==
    ASSUME NEW c, InContext(c), StateOK(c), NEW t \in Threads, DepUnknown(t)
    PROVE  StateOK(c)'
<1>1. At(t, {"mark", "forced"}) /\ Context(c)
  BY DEF DepUnknown, AtDep, InContext
<1>2. /\ stack[t] # << >> /\ Top(t) = stack[t][Len(stack[t])] /\ Top(t) \in Frames(c)
      /\ Top(t) \in FrameType(c)
      /\ Top(t).pc \in {"mark", "forced"} /\ FrameDyn(c, colour, promoted, fresh, Top(t))
      /\ TopOK(c, colour, Top(t))
  BY <1>1, TopFrame
<1>3. PICK f \in Frames(c) : f = Top(t)
  BY <1>2
<1>4. PICK d : d = OldDeps(c, f.n)[f.i]
  OBVIOUS
<1>5. f.i <= Len(OldDeps(c, f.n)) /\ colour[d] = "none" /\ Dep(t) = d
  <2>1. \A n : PrevDeps(n) = OldDeps(c, n)
    BY PrevContext
  <2>2. Dep(t) = d
    BY <1>3, <1>4, <2>1 DEF Dep
  <2> QED BY <1>3, <2>1, <2>2 DEF DepUnknown, AtDep
<1>6. f.pc = "mark"
  BY <1>2, <1>3, <1>4, <1>5 DEF TopOK
<1>7. /\ IF d \in c.w.inputs THEN Continue(t, [f EXCEPT !.pc = "tried", !.ok = FALSE])
                             ELSE Call(t, [f EXCEPT !.pc = "tried"], Frame("mark", d))
      /\ UNCHANGED <<graph, effects, jobs>> /\ UNCHANGED control
  BY <1>3, <1>5, <1>6, PrevContext DEF DepUnknown, AtDep, NoFailure, IsEvalAlways
<1>8. UNCHANGED <<colour, promoted, fresh, active>>
  BY <1>7 DEF graph, jobs
<1>9. d \in OldNodes(c) /\ Wanted(c, d)
  BY <1>1, <1>2, <1>3, <1>4, <1>5, <1>6, AtDepWanted
<1>10. "tried" \in Labels
  BY DEF Labels
<1>11. CASE d \in c.w.inputs
  <2>1. PICK g : g = [f EXCEPT !.pc = "tried", !.ok = FALSE]
    OBVIOUS
  <2>2. /\ g \in FrameType(c) /\ g.pc = "tried" /\ g.n = f.n /\ g.i = f.i
        /\ g.green = f.green /\ ~g.ok
    BY <1>2, <1>3, <1>10, <2>1 DEF FrameType
  <2>3. /\ g \in Frames(c) /\ Replaces(g, f) /\ ~IsJob(f) /\ ~IsJob(g)
        /\ FrameDyn(c, colour, promoted, fresh, g)
    BY <1>2, <1>3, <1>5, <1>6, <2>2, RelabelMark
  <2>4. TopOK(c, colour, g)
    BY <1>4, <1>11, <2>2 DEF TopOK, MustRun
  <2>5. StacksOK(c)'
    BY <1>2, <1>3, <1>7, <1>8, <1>11, <2>1, <2>3, <2>4, ContinueStep
  <2> QED BY <1>7, <2>5, RestKept, StateParts
<1>12. CASE d \notin c.w.inputs
  <2>1. PICK g : g = [f EXCEPT !.pc = "tried"]
    OBVIOUS
  <2>2. /\ g \in FrameType(c) /\ g.pc = "tried" /\ g.n = f.n /\ g.i = f.i
        /\ g.green = f.green
    BY <1>2, <1>3, <1>10, <2>1 DEF FrameType
  <2>3. /\ g \in Frames(c) /\ Replaces(g, f) /\ ~IsJob(f) /\ ~IsJob(g)
        /\ FrameDyn(c, colour, promoted, fresh, g)
    BY <1>2, <1>3, <1>5, <1>6, <2>2, RelabelMark
  <2>4. PICK h : h = Frame("mark", d)
    OBVIOUS
  <2>5. /\ h \in Frames(c) /\ h.pc = "mark" /\ h.n = d
        /\ FrameDyn(c, colour, promoted, fresh, h) /\ TopOK(c, colour, h)
    BY <1>1, <1>9, <1>12, <2>4, MarkCalled
  <2>6. Linked(c, g, h) /\ ~IsJob(h)
    BY <1>4, <2>2, <2>5 DEF Linked, IsJob, JobLabels, MarkLabels
  <2>7. Call(t, g, h)
    BY <1>7, <1>12, <2>1, <2>4
  <2>8. StacksOK(c)'
    BY <1>2, <1>3, <1>8, <2>3, <2>5, <2>6, <2>7, CallStep
  <2> QED BY <1>7, <2>8, RestKept, StateParts
<1> QED BY <1>11, <1>12

LEMMA TryForceOK ==
    ASSUME NEW c, InContext(c), StateOK(c), NEW t \in Threads, TryForce(t)
    PROVE  StateOK(c)'
<1>1. At(t, {"tried"}) /\ Context(c)
  BY DEF TryForce, InContext
<1>2. /\ stack[t] # << >> /\ Top(t) = stack[t][Len(stack[t])] /\ Top(t) \in Frames(c)
      /\ Top(t) \in FrameType(c)
      /\ Top(t).pc \in {"tried"} /\ FrameDyn(c, colour, promoted, fresh, Top(t))
      /\ TopOK(c, colour, Top(t))
  BY <1>1, TopFrame
<1>3. PICK f \in Frames(c) : f = Top(t)
  BY <1>2
<1>4. PICK d : d = OldDeps(c, f.n)[f.i]
  OBVIOUS
<1>5. Dep(t) = d
  <2>1. \A n : PrevDeps(n) = OldDeps(c, n)
    BY PrevContext
  <2> QED BY <1>3, <1>4, <2>1 DEF Dep
<1>6. MustRun(c, d)
  <2>1. ~f.ok
    BY <1>3 DEF TryForce
  <2> QED BY <1>2, <1>3, <1>4, <2>1 DEF TopOK
<1>7. f.i <= Len(OldDeps(c, f.n)) /\ f.pc \in {"mark", "tried"}
  BY <1>2, <1>3 DEF Frames, MarkFrame, MarkLabels
<1>8. /\ f.n \in OldNodes(c) /\ d \in OldNodes(c) /\ d \in ToSet(OldDeps(c, f.n))
      /\ d \in Queries => d \in c.now.needed
  BY <1>1, <1>2, <1>3, <1>4, <1>7, AtDepWanted
<1>9. /\ IF d \in Queries /\ d \notin c.w.unforceable
         THEN Call(t, [f EXCEPT !.pc = "forced"], Frame("get", d))
         ELSE Return(t, FALSE)
      /\ UNCHANGED <<graph, effects, jobs>> /\ UNCHANGED control
  <2>1. world = c.w
    BY PrevContext
  <2> QED BY <1>3, <1>5, <2>1 DEF TryForce, Forceable, NoFailure
<1>10. CASE d \in Queries /\ d \notin c.w.unforceable
  <2>1. PICK g : g = [f EXCEPT !.pc = "forced"]
    OBVIOUS
  <2>2. "forced" \in Labels
    BY DEF Labels
  <2>3. g \in FrameType(c) /\ g.pc = "forced" /\ g.n = f.n /\ g.i = f.i /\ g.green = f.green
    BY <1>2, <1>3, <2>1, <2>2 DEF FrameType
  <2>4. /\ g \in Frames(c) /\ Replaces(g, f) /\ ~IsJob(f) /\ ~IsJob(g)
        /\ FrameDyn(c, colour, promoted, fresh, g)
    BY <1>2, <1>3, <1>7, <2>3, RelabelMark
  <2>5. PICK h : h = Frame("get", d)
    OBVIOUS
  <2>6. d \in c.now.needed
    BY <1>8, <1>10
  <2>7. /\ h \in Frames(c) /\ h.pc = "get" /\ h.n = d
        /\ FrameDyn(c, colour, promoted, fresh, h) /\ TopOK(c, colour, h)
    BY <1>1, <2>5, <2>6, QueryCalled
  <2>8. Linked(c, g, h) /\ ~IsJob(h)
    BY <1>4, <2>3, <2>7 DEF Linked, IsJob, JobLabels, CalledLabels
  <2>9. Call(t, g, h) /\ UNCHANGED <<colour, promoted, fresh, active>>
    BY <1>9, <1>10, <2>1, <2>5 DEF graph, jobs
  <2>10. StacksOK(c)'
    BY <1>2, <1>3, <2>4, <2>7, <2>8, <2>9, CallStep
  <2> QED BY <1>9, <2>10, RestKept, StateParts
<1>11. CASE ~(d \in Queries /\ d \notin c.w.unforceable)
  <2>1. MustRun(c, f.n)
    <3> SUFFICES ASSUME Clean(c, f.n) PROVE ~Markable(c, f.n)
      BY DEF MustRun
    <3>1. Clean(c, d)
      BY <1>8, CleanDeps
    <3>2. d \notin Queries
      BY <1>8, <1>11, <3>1, CleanDeps
    <3>3. c.w.inputs \subseteq Queries
      BY <1>1, GraphAssumption DEF Context
    <3>4. ~GreenBy(c, d, Greens(c))
      BY <1>6, <3>1, <3>2, <3>3 DEF MustRun, Markable, GreenBy, Unchanged
    <3>5. d \notin Greens(c)
      BY <1>8, <3>4, GreensFixpoint
    <3> QED BY <1>8, <3>5 DEF Markable
  <2>2. At(t, MarkLabels)
    BY <1>1 DEF At, MarkLabels
  <2> QED BY <1>3, <1>9, <1>11, <2>1, <2>2, ReturnMarkFails
<1> QED BY <1>10, <1>11

(* A query frame that has no values yet changes its label and its answer. *)
LEMMA RelabelQuery ==
    ASSUME NEW c, NEW f \in Frames(c), f.pc \in {"ensure", "ensured", "get", "start", "marked"},
           NEW g \in FrameType(c), g.n = f.n, g.vals = f.vals, g.reads = f.reads,
           g.green = f.green,
           \/ f.pc \in {"ensure", "ensured"} /\ g.pc \in {"ensured", "get"}
           \/ f.pc = "get" /\ g.pc = "start"
           \/ f.pc = "start" /\ g.pc = "marked",
           g.pc \in {"get", "start"} => ~g.ok
    PROVE  g \in Frames(c) /\ Replaces(g, f) /\ ~g.green /\ ~f.green
<1>1. QueryFrame(c, f) /\ ~f.green
  BY DEF Frames, QueryLabels, CalledLabels, JobLabels
<1>2. QueryFrame(c, g)
  BY <1>1 DEF QueryFrame
<1>3. g \in Frames(c)
  BY <1>1, <1>2 DEF Frames, MarkLabels
<1> QED BY <1>1, <1>3 DEF Replaces, MarkLabels, CalledLabels, JobLabels

LEMMA NeededOldNode ==
    ASSUME NEW c, Context(c), NEW n \in c.now.needed, n \in OldNodes(c)
    PROVE  /\ n \in Queries /\ n \in c.old.needed /\ n \in Both(c) /\ n \notin c.w.anon
           /\ c.old.nodeOf[n] = n /\ Wanted(c, n)
<1>1. IsSession(c.w, c.inp, c.now) /\ IsSession(c.w, c.before, c.old)
  BY DEF Context
<1>2. n \in Queries
  BY <1>1, SessionReads
<1>3. n \in c.old.needed /\ n \notin c.w.anon /\ c.old.nodeOf[n] = n
  BY <1>1, <1>2, NodeHasQuery DEF OldNodes
<1> QED BY <1>2, <1>3 DEF Both, Wanted

(* try_mark_green, from ensure_must_run and from execute_job_incr. *)
LEMMA TryMarkGreenStep ==
    ASSUME NEW c, InContext(c), StateOK(c), NEW t \in Threads,
           NEW k \in {"ensure", "start"}, At(t, {k}), Top(t).n \notin c.w.inputs,
           NEW l \in {"ensured", "marked"}, k = "ensure" <=> l = "ensured",
           TryMarkGreen(t, l), UNCHANGED <<colour, promoted, fresh, active>>
    PROVE  StacksOK(c)'
<1>1. /\ stack[t] # << >> /\ Top(t) = stack[t][Len(stack[t])] /\ Top(t) \in Frames(c)
      /\ Top(t) \in FrameType(c)
      /\ Top(t).pc = k /\ FrameDyn(c, colour, promoted, fresh, Top(t))
  <2>1. Context(c)
    BY DEF InContext
  <2>2. /\ stack[t] # << >> /\ Top(t) = stack[t][Len(stack[t])] /\ Top(t) \in Frames(c)
        /\ Top(t) \in FrameType(c)
        /\ Top(t).pc \in {k} /\ FrameDyn(c, colour, promoted, fresh, Top(t))
    BY <2>1, TopFrame
  <2> QED BY <2>2
<1>2. PICK f \in Frames(c) : f = Top(t)
  BY <1>1
<1>3. Context(c)
  BY DEF InContext
<1>4. f.n \in c.now.needed
  BY <1>1, <1>2 DEF Frames, QueryFrame, QueryLabels, CalledLabels, JobLabels
<1>5. l \in Labels
  BY DEF Labels
<1>6. CASE Known(f.n) /\ colour[f.n] = "none"
  <2>1. PICK g : g = [f EXCEPT !.pc = l]
    OBVIOUS
  <2>2. /\ g \in FrameType(c) /\ g.pc = l /\ g.n = f.n /\ g.vals = f.vals /\ g.reads = f.reads
        /\ g.green = f.green
    BY <1>1, <1>2, <1>5, <2>1 DEF FrameType
  <2>3. g \in Frames(c) /\ Replaces(g, f) /\ ~g.green /\ ~f.green
    BY <1>1, <1>2, <2>2, RelabelQuery
  <2>4. FrameDyn(c, colour, promoted, fresh, g)
    BY <1>1, <1>2, <2>2, <2>3 DEF FrameDyn, MarkLabels
  <2>5. IsJob(g) <=> IsJob(f)
    BY <1>1, <1>2, <2>2 DEF IsJob, JobLabels
  <2>6. f.n \in OldNodes(c) /\ f.n \notin c.w.inputs
    BY <1>2, <1>6, KnownNodes
  <2>7. Wanted(c, f.n)
    BY <1>3, <1>4, <2>6, NeededOldNode
  <2>8. PICK h : h = Frame("mark", f.n)
    OBVIOUS
  <2>9. /\ h \in Frames(c) /\ h.pc = "mark" /\ h.n = f.n
        /\ FrameDyn(c, colour, promoted, fresh, h) /\ TopOK(c, colour, h)
    BY <1>3, <2>6, <2>7, <2>8, MarkCalled
  <2>10. Linked(c, g, h) /\ ~IsJob(h)
    BY <2>2, <2>9 DEF Linked, IsJob, JobLabels, MarkLabels
  <2>11. Call(t, g, h)
    BY <1>2, <1>6, <2>1, <2>8 DEF TryMarkGreen
  <2> QED BY <1>1, <1>2, <2>3, <2>4, <2>5, <2>9, <2>10, <2>11, CallStep
<1>7. CASE ~(Known(f.n) /\ colour[f.n] = "none")
  <2>1. PICK b \in BOOLEAN : b = (Known(f.n) /\ colour[f.n] = "green")
    OBVIOUS
  <2>2. PICK g : g = [f EXCEPT !.pc = l, !.ok = b]
    OBVIOUS
  <2>3. /\ g \in FrameType(c) /\ g.pc = l /\ g.n = f.n /\ g.vals = f.vals /\ g.reads = f.reads
        /\ g.green = f.green /\ g.ok = b
    BY <1>1, <1>2, <1>5, <2>2 DEF FrameType
  <2>4. g \in Frames(c) /\ Replaces(g, f) /\ ~g.green /\ ~f.green
    BY <1>1, <1>2, <2>3, RelabelQuery
  <2>5. FrameDyn(c, colour, promoted, fresh, g)
    BY <1>1, <1>2, <2>3, <2>4 DEF FrameDyn, MarkLabels
  <2>6. IsJob(g) <=> IsJob(f)
    BY <1>1, <1>2, <2>3 DEF IsJob, JobLabels
  <2>7. b => f.n \in OldNodes(c) /\ colour[f.n] = "green"
    BY <2>1, KnownNodes
  <2>8. ~b /\ f.n \in OldNodes(c) => MustRun(c, f.n)
    <3> SUFFICES ASSUME ~b, f.n \in OldNodes(c) PROVE MustRun(c, f.n)
      OBVIOUS
    <3>1. colour[f.n] = "red"
      BY <1>7, <2>1, KnownNodes
    <3>2. Clean(c, f.n) => f.n \notin Greens(c)
      BY <3>1 DEF StateOK, GraphOK
    <3> QED BY <3>2, GreensFixpoint DEF GreenBy, MustRun, Markable
  <2>9. TopOK(c, colour, g)
    BY <2>3, <2>7, <2>8 DEF TopOK
  <2>10. Continue(t, g)
    BY <1>2, <1>7, <2>1, <2>2 DEF TryMarkGreen
  <2> QED BY <1>1, <1>2, <2>4, <2>5, <2>6, <2>9, <2>10, ContinueStep
<1> QED BY <1>6, <1>7

LEMMA EnsureOK ==
    ASSUME NEW c, InContext(c), StateOK(c), NEW t \in Threads, Ensure(t)
    PROVE  StateOK(c)'
<1>1. At(t, {"ensure"}) /\ Context(c) /\ UNCHANGED <<graph, effects, jobs>> /\ UNCHANGED control
  BY DEF Ensure, InContext, NoFailure
<1>2. /\ stack[t] # << >> /\ Top(t) = stack[t][Len(stack[t])] /\ Top(t) \in Frames(c)
      /\ Top(t) \in FrameType(c) /\ Top(t).pc \in {"ensure"}
  BY <1>1, TopFrame
<1>3. PICK f \in Frames(c) : f = Top(t)
  BY <1>2
<1>4. UNCHANGED <<colour, promoted, fresh, active>>
  BY <1>1 DEF graph, jobs
<1>5. IF f.n \in c.w.inputs THEN Goto(t, "get") ELSE TryMarkGreen(t, "ensured")
  <2>1. world = c.w
    BY PrevContext
  <2> QED BY <1>3, <2>1 DEF Ensure, IsEvalAlways
<1>6. CASE f.n \in c.w.inputs
  <2>1. PICK g : g = [f EXCEPT !.pc = "get"]
    OBVIOUS
  <2>2. "get" \in Labels
    BY DEF Labels
  <2>3. /\ g \in FrameType(c) /\ g.pc = "get" /\ g.n = f.n /\ g.vals = f.vals
        /\ g.reads = f.reads /\ g.green = f.green /\ g.ok = f.ok
    BY <1>2, <1>3, <2>1, <2>2 DEF FrameType
  <2>4. ~f.ok
    BY <1>2, <1>3 DEF Frames, QueryFrame, QueryLabels
  <2>5. g \in Frames(c) /\ Replaces(g, f) /\ ~g.green
    BY <1>2, <1>3, <2>3, <2>4, RelabelQuery
  <2>6. FrameDyn(c, colour, promoted, fresh, g) /\ TopOK(c, colour, g)
    BY <2>3, <2>5 DEF FrameDyn, TopOK, MarkLabels
  <2>7. IsJob(g) <=> IsJob(f)
    BY <1>2, <1>3, <2>3 DEF IsJob, JobLabels
  <2>8. Continue(t, g)
    BY <1>3, <1>5, <1>6, <2>1 DEF Goto
  <2>9. StacksOK(c)'
    BY <1>2, <1>3, <1>4, <2>5, <2>6, <2>7, <2>8, ContinueStep
  <2> QED BY <1>1, <2>9, RestKept, StateParts
<1>7. CASE f.n \notin c.w.inputs
  <2>1. StacksOK(c)'
    BY <1>1, <1>3, <1>4, <1>5, <1>7, TryMarkGreenStep
  <2> QED BY <1>1, <2>1, RestKept, StateParts
<1> QED BY <1>6, <1>7

LEMMA EnsuredOK ==
    ASSUME NEW c, InContext(c), StateOK(c), NEW t \in Threads, Ensured(t)
    PROVE  StateOK(c)'
<1>1. At(t, {"ensured"}) /\ Context(c) /\ UNCHANGED <<graph, effects, jobs>> /\ UNCHANGED control
  BY DEF Ensured, InContext, NoFailure
<1>2. /\ stack[t] # << >> /\ Top(t) = stack[t][Len(stack[t])] /\ Top(t) \in Frames(c)
      /\ Top(t) \in FrameType(c) /\ Top(t).pc \in {"ensured"}
  BY <1>1, TopFrame
<1>3. PICK f \in Frames(c) : f = Top(t)
  BY <1>2
<1>4. UNCHANGED <<colour, promoted, fresh, active>>
  BY <1>1 DEF graph, jobs
<1>5. IF f.ok THEN Return(t, TRUE) ELSE Goto(t, "get")
  BY <1>3 DEF Ensured
<1>6. CASE ~f.ok
  <2>1. PICK g : g = [f EXCEPT !.pc = "get"]
    OBVIOUS
  <2>2. "get" \in Labels
    BY DEF Labels
  <2>3. /\ g \in FrameType(c) /\ g.pc = "get" /\ g.n = f.n /\ g.vals = f.vals
        /\ g.reads = f.reads /\ g.green = f.green /\ g.ok = f.ok
    BY <1>2, <1>3, <2>1, <2>2 DEF FrameType
  <2>4. g \in Frames(c) /\ Replaces(g, f) /\ ~g.green
    BY <1>2, <1>3, <1>6, <2>3, RelabelQuery
  <2>5. FrameDyn(c, colour, promoted, fresh, g) /\ TopOK(c, colour, g)
    BY <2>3, <2>4 DEF FrameDyn, TopOK, MarkLabels
  <2>6. IsJob(g) <=> IsJob(f)
    BY <1>2, <1>3, <2>3 DEF IsJob, JobLabels
  <2>7. Continue(t, g)
    BY <1>3, <1>5, <1>6, <2>1 DEF Goto
  <2>8. StacksOK(c)'
    BY <1>2, <1>3, <1>4, <2>4, <2>5, <2>6, <2>7, ContinueStep
  <2> QED BY <1>1, <2>8, RestKept, StateParts
<1>7. CASE f.ok
  <2>1. \A b \in Frames(c) : ~Linked(c, b, f)
    BY <1>2, <1>3 DEF Linked, CalledLabels, JobLabels, MarkLabels
  <2>2. ~IsJob(f) /\ TRUE \in BOOLEAN /\ Return(t, TRUE)
    BY <1>2, <1>3, <1>5, <1>7 DEF IsJob, JobLabels
  <2>3. StacksOK(c)'
    BY <1>2, <1>3, <1>4, <2>1, <2>2, ReturnStep
  <2> QED BY <1>1, <2>3, RestKept, StateParts
<1> QED BY <1>6, <1>7

(* The answer of a query: whoever forced it finds its node coloured. *)
LEMMA QueryAnswers ==
    ASSUME NEW c, Context(c), NEW f, f.pc \in CalledLabels, NEW col,
           f.n \in OldNodes(c) => col[f.n] # "none"
    PROVE  \A b \in Frames(c) : Linked(c, b, f) => TopOK(c, col, [b EXCEPT !.ok = TRUE])
<1> SUFFICES ASSUME NEW b \in Frames(c), Linked(c, b, f) PROVE TopOK(c, col, [b EXCEPT !.ok = TRUE])
  OBVIOUS
<1>1. b.pc \in {"ensured", "marked", "tried", "forced", "run"}
  BY CallerLabels
<1>2. PICK g : g = [b EXCEPT !.ok = TRUE]
  OBVIOUS
<1>3. TRUE \in BOOLEAN
  OBVIOUS
<1>4. g.pc = b.pc /\ g.n = b.n /\ g.i = b.i /\ g.ok
  BY <1>1, <1>2, <1>3, AnswerKept
<1>5. b.pc = "run" \/ (b.pc = "forced" /\ f.n = OldDeps(c, b.n)[b.i])
  BY DEF Linked, MarkLabels, CalledLabels, JobLabels
<1>6. ASSUME b.pc = "forced" PROVE f.n \in OldNodes(c)
  <2>1. b.n \in OldNodes(c) /\ b.i <= Len(OldDeps(c, b.n)) /\ b.i \in Nat \ {0}
    BY <1>6 DEF Frames, FrameType, MarkFrame, MarkLabels
  <2>2. b.i \in 1..Len(OldDeps(c, b.n))
    BY <2>1, OldDepsTypes
  <2> QED BY <1>5, <1>6, <2>1, <2>2, OldDepsTypes
<1>7. TopOK(c, col, g)
  BY <1>4, <1>5, <1>6 DEF TopOK
<1> QED BY <1>2, <1>7

LEMMA CacheHitOK ==
    ASSUME NEW c, InContext(c), StateOK(c), NEW t \in Threads, CacheHit(t)
    PROVE  StateOK(c)'
<1>1. At(t, {"get"}) /\ Context(c) /\ UNCHANGED <<graph, effects, jobs>> /\ UNCHANGED control
  BY DEF CacheHit, InContext, NoFailure
<1>2. /\ stack[t] # << >> /\ Top(t) = stack[t][Len(stack[t])] /\ Top(t) \in Frames(c)
      /\ Top(t).pc \in {"get"}
  BY <1>1, TopFrame
<1>3. Top(t).n \in OldNodes(c) => colour[Top(t).n] # "none"
  BY DEF CacheHit, StateOK, CacheOK
<1>4. \A b \in Frames(c) : Linked(c, b, Top(t)) => TopOK(c, colour, [b EXCEPT !.ok = TRUE])
  <2>1. Top(t).pc \in CalledLabels
    BY <1>2 DEF CalledLabels
  <2> QED BY <1>1, <1>3, <2>1, QueryAnswers
<1>5. ~IsJob(Top(t)) /\ TRUE \in BOOLEAN /\ Return(t, TRUE)
  BY <1>2 DEF IsJob, JobLabels, CacheHit
<1>6. UNCHANGED <<colour, promoted, fresh, active>>
  BY <1>1 DEF graph, jobs
<1>7. StacksOK(c)'
  BY <1>2, <1>4, <1>5, <1>6, ReturnStep
<1> QED BY <1>1, <1>7, RestKept, StateParts

LEMMA TryLoadOK ==
    ASSUME NEW c, InContext(c), StateOK(c), NEW t \in Threads, TryLoad(t)
    PROVE  StateOK(c)'
<1>1. At(t, {"start"}) /\ Context(c) /\ UNCHANGED <<graph, effects, jobs>> /\ UNCHANGED control
  BY DEF TryLoad, InContext, NoFailure
<1>2. /\ stack[t] # << >> /\ Top(t) = stack[t][Len(stack[t])] /\ Top(t) \in Frames(c)
      /\ Top(t) \in FrameType(c) /\ Top(t).pc \in {"start"}
      /\ FrameDyn(c, colour, promoted, fresh, Top(t))
  BY <1>1, TopFrame
<1>3. PICK f \in Frames(c) : f = Top(t)
  BY <1>2
<1>4. UNCHANGED <<colour, promoted, fresh, active>>
  BY <1>1 DEF graph, jobs
<1>5. IF f.n \in c.w.anon \union c.w.inputs THEN Goto(t, "marked") ELSE TryMarkGreen(t, "marked")
  <2>1. world = c.w
    BY PrevContext
  <2> QED BY <1>3, <2>1 DEF TryLoad
<1>6. CASE f.n \in c.w.anon \union c.w.inputs
  <2>1. PICK g : g = [f EXCEPT !.pc = "marked"]
    OBVIOUS
  <2>2. "marked" \in Labels
    BY DEF Labels
  <2>3. /\ g \in FrameType(c) /\ g.pc = "marked" /\ g.n = f.n /\ g.vals = f.vals
        /\ g.reads = f.reads /\ g.green = f.green /\ g.ok = f.ok
    BY <1>2, <1>3, <2>1, <2>2 DEF FrameType
  <2>4. ~f.ok /\ f.n \in c.now.needed
    BY <1>2, <1>3 DEF Frames, QueryFrame, QueryLabels, CalledLabels, JobLabels
  <2>5. g \in Frames(c) /\ Replaces(g, f) /\ ~g.green /\ ~f.green
    BY <1>2, <1>3, <2>3, RelabelQuery
  <2>6. FrameDyn(c, colour, promoted, fresh, g)
    BY <1>2, <1>3, <2>3, <2>5 DEF FrameDyn, MarkLabels
  <2>7. f.n \in OldNodes(c) => f.n \in c.w.inputs
    BY <1>1, <1>6, <2>4, NeededOldNode
  <2>8. TopOK(c, colour, g)
    BY <2>3, <2>4, <2>7 DEF TopOK, MustRun
  <2>9. IsJob(g) <=> IsJob(f)
    BY <1>2, <1>3, <2>3 DEF IsJob, JobLabels
  <2>10. Continue(t, g)
    BY <1>3, <1>5, <1>6, <2>1 DEF Goto
  <2>11. StacksOK(c)'
    BY <1>2, <1>3, <1>4, <2>5, <2>6, <2>8, <2>9, <2>10, ContinueStep
  <2> QED BY <1>1, <2>11, RestKept, StateParts
<1>7. CASE f.n \notin c.w.anon \union c.w.inputs
  <2>1. TryMarkGreen(t, "marked") /\ Top(t).n \notin c.w.inputs
    BY <1>3, <1>5, <1>7
  <2>2. StacksOK(c)'
    BY <1>1, <1>4, <2>1, TryMarkGreenStep
  <2> QED BY <1>1, <2>2, RestKept, StateParts
<1> QED BY <1>6, <1>7

LEMMA SeenNothing ==
    ASSUME NEW s, NEW q
    PROVE  Seen(s, q, 0) = << >>
BY DEF Seen

LEMMA LoadGreenOK ==
    ASSUME NEW c, InContext(c), StateOK(c), NEW t \in Threads, LoadGreen(t)
    PROVE  StateOK(c)'
<1>1. At(t, {"marked"}) /\ Context(c) /\ UNCHANGED <<graph, effects, jobs>> /\ UNCHANGED control
  BY DEF LoadGreen, InContext, NoFailure
<1>2. /\ stack[t] # << >> /\ Top(t) = stack[t][Len(stack[t])] /\ Top(t) \in Frames(c)
      /\ Top(t) \in FrameType(c) /\ Top(t).pc \in {"marked"}
      /\ TopOK(c, colour, Top(t))
  BY <1>1, TopFrame
<1>3. PICK f \in Frames(c) : f = Top(t)
  BY <1>2
<1>4. UNCHANGED <<colour, promoted, fresh, active>>
  BY <1>1 DEF graph, jobs
<1>5. f.n \in OldNodes(c) /\ colour[f.n] = "green"
  <2>1. f.ok
    BY <1>3 DEF LoadGreen
  <2> QED BY <1>2, <1>3, <2>1 DEF TopOK
<1>6. f.n \in c.now.needed /\ f.vals = << >> /\ f.reads = << >>
  BY <1>2, <1>3 DEF Frames, QueryFrame, QueryLabels, CalledLabels, JobLabels
<1>7. c.now.value[f.n] = c.old.value[f.n] /\ c.now.value[f.n] \in Nat
  <2>1. Stable(c, f.n)
    BY <1>5 DEF StateOK, GraphOK
  <2>2. f.n \in Both(c) /\ c.old.nodeOf[f.n] = f.n
    BY <1>1, <1>5, <1>6, NeededOldNode
  <2>3. IsSession(c.w, c.inp, c.now)
    BY <1>1 DEF Context
  <2>4. c.now.value[f.n] \in Values
    BY <1>6, <2>3, SessionReads
  <2> QED BY <2>1, <2>2, <2>4, GraphAssumption DEF Stable, Same
<1>8. IF f.n \in c.w.disk
      THEN Continue(t, [f EXCEPT !.pc = "complete", !.green = TRUE, !.val = c.now.value[f.n]])
      ELSE Continue(t, [f EXCEPT !.pc = "run", !.green = TRUE])
  <2>1. world = c.w /\ prev.value[f.n] = c.now.value[f.n]
    BY <1>7, PrevContext
  <2> QED BY <1>3, <2>1 DEF LoadGreen
<1>9. ASSUME NEW g \in FrameType(c), Continue(t, g), g.n = f.n, g.green,
             g.pc \in {"run", "complete"},
             g.pc = "run" => g.vals = << >>, g.pc = "complete" => g.val = c.now.value[f.n]
      PROVE  StateOK(c)'
  <2>1. QueryFrame(c, g)
    BY <1>6, <1>9 DEF QueryFrame
  <2>2. RunFrame(c, g)
    <3>1. Len(c.now.reads[f.n]) \in Nat
      BY <1>1, <1>6, SessionReads DEF Context
    <3>2. ASSUME g.pc = "run"
          PROVE  Len(g.vals) <= Len(c.now.reads[g.n]) /\ g.vals = Seen(c.now, g.n, Len(g.vals))
      <4>1. g.vals = << >> /\ Len(g.vals) = 0
        BY <1>9, <3>2
      <4> QED BY <1>9, <3>1, <4>1, SeenNothing
    <3> QED BY <1>9, <3>2 DEF RunFrame
  <2>3. g \in Frames(c)
    BY <1>5, <1>9, <2>1, <2>2 DEF Frames, MarkLabels
  <2>4. FrameDyn(c, colour, promoted, fresh, g) /\ TopOK(c, colour, g)
    BY <1>5, <1>9 DEF FrameDyn, TopOK, MarkLabels
  <2>5. Replaces(g, f) /\ (IsJob(g) <=> IsJob(f))
    BY <1>2, <1>3, <1>9 DEF Replaces, IsJob, JobLabels, CalledLabels, MarkLabels
  <2>6. StacksOK(c)'
    BY <1>2, <1>3, <1>4, <1>9, <2>3, <2>4, <2>5, ContinueStep
  <2> QED BY <1>1, <2>6, RestKept, StateParts
<1>10. "complete" \in Labels /\ "run" \in Labels
  BY DEF Labels
<1>11. CASE f.n \in c.w.disk
  <2>1. PICK g : g = [f EXCEPT !.pc = "complete", !.green = TRUE, !.val = c.now.value[f.n]]
    OBVIOUS
  <2>2. /\ g \in FrameType(c) /\ g.pc = "complete" /\ g.n = f.n /\ g.green
        /\ g.val = c.now.value[f.n]
    BY <1>2, <1>3, <1>7, <1>10, <2>1 DEF FrameType
  <2> QED BY <1>8, <1>9, <1>11, <2>1, <2>2
<1>12. CASE f.n \notin c.w.disk
  <2>1. PICK g : g = [f EXCEPT !.pc = "run", !.green = TRUE]
    OBVIOUS
  <2>2. g \in FrameType(c) /\ g.pc = "run" /\ g.n = f.n /\ g.green /\ g.vals = f.vals
    BY <1>2, <1>3, <1>10, <2>1 DEF FrameType
  <2> QED BY <1>6, <1>8, <1>9, <1>12, <2>1, <2>2
<1> QED BY <1>11, <1>12

LEMMA StartTaskOK ==
    ASSUME NEW c, InContext(c), StateOK(c), NEW t \in Threads, StartTask(t)
    PROVE  StateOK(c)'
<1>1. At(t, {"marked"}) /\ Context(c) /\ UNCHANGED <<graph, effects, jobs>>
  BY DEF StartTask, InContext
<1>2. /\ stack[t] # << >> /\ Top(t) = stack[t][Len(stack[t])] /\ Top(t) \in Frames(c)
      /\ Top(t) \in FrameType(c) /\ Top(t).pc \in {"marked"}
      /\ TopOK(c, colour, Top(t)) /\ FrameDyn(c, colour, promoted, fresh, Top(t))
  BY <1>1, TopFrame
<1>3. PICK f \in Frames(c) : f = Top(t)
  BY <1>2
<1>4. f.n \in OldNodes(c) => MustRun(c, f.n)
  <2>1. ~f.ok
    BY <1>3 DEF StartTask
  <2> QED BY <1>2, <1>3, <2>1 DEF TopOK
<1>5. f.n \in c.now.needed /\ f.vals = << >> /\ f.reads = << >> /\ ~f.green
  BY <1>2, <1>3 DEF Frames, QueryFrame, QueryLabels, CalledLabels, JobLabels
<1>6. CASE f.n \notin world.anon /\ Exists(f.n)
  <2>1. /\ failure' = [why |-> "forcing query with existing node", n |-> f.n]
        /\ UNCHANGED <<todo, left>> /\ UNCHANGED stack
    BY <1>3, <1>6 DEF StartTask, Fail
  <2>2. ~Clean(c, f.n)
    <3>1. f.n \in OldNodes(c) <=> Known(f.n)
      BY KnownNodes
    <3>2. /\ f.n \in OldNodes(c) /\ Clean(c, f.n) /\ MustRun(c, f.n) => f.n \notin DOMAIN promoted
          /\ f.n \notin OldNodes(c) => f.n \notin DOMAIN fresh
      BY <1>2, <1>3, <1>5 DEF FrameDyn
    <3> QED BY <1>4, <1>6, <3>1, <3>2 DEF Exists
  <2>3. ControlOK(c, todo', left', failure')
    BY <2>1, <2>2 DEF StateOK, ControlOK
  <2> QED BY <1>1, <2>1, <2>3 DEF StateOK, graph, effects, jobs
<1>7. CASE ~(f.n \notin world.anon /\ Exists(f.n))
  <2>1. Goto(t, "run") /\ UNCHANGED control
    BY <1>3, <1>7 DEF StartTask, NoFailure
  <2>2. PICK g : g = [f EXCEPT !.pc = "run"]
    OBVIOUS
  <2>3. "run" \in Labels
    BY DEF Labels
  <2>4. /\ g \in FrameType(c) /\ g.pc = "run" /\ g.n = f.n /\ g.vals = f.vals
        /\ g.reads = f.reads /\ g.green = f.green
    BY <1>2, <1>3, <2>2, <2>3 DEF FrameType
  <2>5. QueryFrame(c, g)
    BY <1>5, <2>4 DEF QueryFrame
  <2>6. RunFrame(c, g)
    <3>1. IsSession(c.w, c.inp, c.now)
      BY <1>1 DEF Context
    <3>2. Len(c.now.reads[f.n]) \in Nat /\ c.now.trail[f.n][0] = << >>
      BY <1>5, <3>1, SessionReads, SessionTrail
    <3>3. g.vals = << >> /\ Len(g.vals) = 0 /\ g.reads = << >>
      BY <1>5, <2>4
    <3>4. g.vals = Seen(c.now, g.n, Len(g.vals))
      BY <3>3, SeenNothing
    <3> QED BY <1>4, <2>4, <3>2, <3>3, <3>4 DEF RunFrame
  <2>7. g \in Frames(c)
    BY <1>5, <2>4, <2>5, <2>6 DEF Frames, MarkLabels
  <2>8. FrameDyn(c, colour, promoted, fresh, g) /\ TopOK(c, colour, g)
    BY <1>2, <1>3, <1>5, <2>4 DEF FrameDyn, TopOK, MarkLabels
  <2>9. Replaces(g, f) /\ (IsJob(g) <=> IsJob(f))
    BY <1>2, <1>3, <2>4 DEF Replaces, IsJob, JobLabels, CalledLabels, MarkLabels
  <2>10. Continue(t, g) /\ UNCHANGED <<colour, promoted, fresh, active>>
    BY <1>1, <1>3, <2>1, <2>2 DEF Goto, graph, jobs
  <2>11. StacksOK(c)'
    BY <1>2, <1>3, <2>7, <2>8, <2>9, <2>10, ContinueStep
  <2> QED BY <1>1, <2>1, <2>11, RestKept, StateParts
<1> QED BY <1>6, <1>7

(* The provider of a frame takes the step that it takes from scratch. *)
LEMMA RunNext ==
    ASSUME NEW c, Context(c), NEW f \in Frames(c), f.pc = "run",
           NEW k, k = Len(f.vals), NEW s, s = Step(c.w, f.n, c.inp, f.vals)
    PROVE  /\ f.n \in c.now.needed /\ k \in 0..Len(c.now.reads[f.n])
           /\ Len(c.now.reads[f.n]) \in Nat /\ f.vals = Seen(c.now, f.n, k)
           /\ k < Len(c.now.reads[f.n]) => /\ s.read = c.now.reads[f.n][k + 1]
                                           /\ s.read \in c.now.needed /\ s.read \in Queries
           /\ k = Len(c.now.reads[f.n]) => /\ s.read = NoQuery /\ s.read \notin Queries
                                           /\ s.value = c.now.value[f.n]
<1>1. IsSession(c.w, c.inp, c.now)
  BY DEF Context
<1>2. QueryFrame(c, f) /\ RunFrame(c, f) /\ f \in FrameType(c)
  BY DEF Frames, QueryLabels, CalledLabels, JobLabels
<1>3. /\ f.n \in c.now.needed /\ k <= Len(c.now.reads[f.n]) /\ f.vals = Seen(c.now, f.n, k)
  BY <1>2 DEF QueryFrame, RunFrame
<1>4. k \in Nat
  BY <1>2 DEF FrameType
<1>5. /\ Len(c.now.reads[f.n]) \in Nat /\ c.now.needed \subseteq Queries
      /\ \A j \in 1..Len(c.now.reads[f.n]) : c.now.reads[f.n][j] \in c.now.needed
  BY <1>1, <1>3, SessionReads
<1>6. k \in 0..Len(c.now.reads[f.n])
  BY <1>3, <1>4, <1>5
<1>7. /\ k < Len(c.now.reads[f.n]) => s.read = c.now.reads[f.n][k + 1]
      /\ k = Len(c.now.reads[f.n]) => s.read = NoQuery /\ s.value = c.now.value[f.n]
  BY <1>1, <1>3, <1>6, StepOf
<1>8. k < Len(c.now.reads[f.n]) => c.now.reads[f.n][k + 1] \in c.now.needed
  <2> SUFFICES ASSUME k < Len(c.now.reads[f.n]) PROVE c.now.reads[f.n][k + 1] \in c.now.needed
    OBVIOUS
  <2>1. k + 1 \in 1..Len(c.now.reads[f.n])
    BY <1>4, <1>5
  <2> QED BY <1>5, <2>1
<1> QED BY <1>3, <1>5, <1>6, <1>7, <1>8, GraphAssumption

LEMMA AskOK ==
    ASSUME NEW c, InContext(c), StateOK(c), NEW t \in Threads, Ask(t)
    PROVE  StateOK(c)'
<1>1. At(t, {"run"}) /\ Context(c) /\ UNCHANGED <<graph, effects, jobs>> /\ UNCHANGED control
  BY DEF Ask, InContext, NoFailure
<1>2. /\ stack[t] # << >> /\ Top(t) = stack[t][Len(stack[t])] /\ Top(t) \in Frames(c)
      /\ Top(t).pc \in {"run"} /\ FrameDyn(c, colour, promoted, fresh, Top(t))
  BY <1>1, TopFrame
<1>3. PICK f \in Frames(c) : f = Top(t)
  BY <1>2
<1>4. PICK s, k : s = Step(c.w, f.n, c.inp, f.vals) /\ k = Len(f.vals)
  OBVIOUS
<1>5. NextStep(t) = s
  BY <1>3, <1>4, PrevContext DEF NextStep
<1>6. s.read \in c.now.needed
  <2>1. s.read \in Queries
    BY <1>5 DEF Ask
  <2> QED BY <1>1, <1>2, <1>3, <1>4, <2>1, RunNext
<1>7. PICK h : h = Frame("get", s.read)
  OBVIOUS
<1>8. /\ h \in Frames(c) /\ h.pc = "get" /\ h.n = s.read
      /\ FrameDyn(c, colour, promoted, fresh, h) /\ TopOK(c, colour, h)
  BY <1>1, <1>6, <1>7, QueryCalled
<1>9. Linked(c, f, h) /\ ~IsJob(h) /\ Replaces(f, f)
  BY <1>2, <1>3, <1>8 DEF Linked, IsJob, JobLabels, CalledLabels, Replaces
<1>10. Call(t, f, h) /\ UNCHANGED <<colour, promoted, fresh, active>>
  BY <1>1, <1>3, <1>5, <1>7 DEF Ask, graph, jobs
<1>11. StacksOK(c)'
  BY <1>2, <1>3, <1>8, <1>9, <1>10, CallStep
<1> QED BY <1>1, <1>11, RestKept, StateParts

LEMMA SeenNext ==
    ASSUME NEW s, NEW q, NEW k \in Nat, NEW vals \in Seq(Values), Len(vals) = k,
           vals = Seen(s, q, k), NEW v, v = s.value[s.reads[q][k + 1]], v \in Values
    PROVE  /\ Append(vals, v) \in Seq(Values) /\ Len(Append(vals, v)) = k + 1
           /\ Append(vals, v) = Seen(s, q, k + 1)
<1>1. /\ Append(vals, v) \in Seq(Values) /\ Len(Append(vals, v)) = k + 1
      /\ \A j \in 1..k : Append(vals, v)[j] = vals[j]
      /\ Append(vals, v)[k + 1] = v
  OBVIOUS
<1>2. \A j \in 1..k : vals[j] = s.value[s.reads[q][j]]
  BY DEF Seen
<1>3. \A j \in 1..(k + 1) : Append(vals, v)[j] = s.value[s.reads[q][j]]
  BY <1>1, <1>2
<1>4. Append(vals, v) = [j \in 1..(k + 1) |-> Append(vals, v)[j]]
  <2>1. PICK xs : xs = Append(vals, v)
    OBVIOUS
  <2>2. xs \in Seq(Values) /\ Len(xs) = k + 1
    BY <1>1, <2>1
  <2>3. xs = [j \in 1..(k + 1) |-> xs[j]]
    BY <2>2
  <2> QED BY <2>1, <2>3
<1> QED BY <1>1, <1>3, <1>4 DEF Seen

LEMMA ReadOK ==
    ASSUME NEW c, InContext(c), StateOK(c), NEW t \in Threads, Read(t)
    PROVE  StateOK(c)'
<1>1. At(t, {"run"}) /\ Context(c) /\ UNCHANGED <<graph, effects, jobs>> /\ UNCHANGED control
  BY DEF Read, InContext, NoFailure
<1>2. /\ stack[t] # << >> /\ Top(t) = stack[t][Len(stack[t])] /\ Top(t) \in Frames(c)
      /\ Top(t) \in FrameType(c)
      /\ Top(t).pc \in {"run"} /\ FrameDyn(c, colour, promoted, fresh, Top(t))
  BY <1>1, TopFrame
<1>3. PICK f \in Frames(c) : f = Top(t)
  BY <1>2
<1>4. PICK s, k : s = Step(c.w, f.n, c.inp, f.vals) /\ k = Len(f.vals)
  OBVIOUS
<1>5. NextStep(t) = s
  BY <1>3, <1>4, PrevContext DEF NextStep
<1>6. IsSession(c.w, c.inp, c.now)
  BY <1>1 DEF Context
<1>7. /\ s.read \in DOMAIN cache /\ s.read \in c.now.needed
      /\ cache[s.read].val = c.now.value[s.read] /\ cache[s.read].node = c.now.nodeOf[s.read]
  BY <1>5 DEF Read, StateOK, CacheOK
<1>8. /\ f.n \in c.now.needed /\ k \in 0..Len(c.now.reads[f.n])
      /\ Len(c.now.reads[f.n]) \in Nat /\ f.vals = Seen(c.now, f.n, k)
      /\ k < Len(c.now.reads[f.n]) /\ s.read = c.now.reads[f.n][k + 1]
  <2>1. s.read \in Queries
    BY <1>6, <1>7, SessionReads
  <2>2. /\ f.n \in c.now.needed /\ k \in 0..Len(c.now.reads[f.n])
        /\ Len(c.now.reads[f.n]) \in Nat /\ f.vals = Seen(c.now, f.n, k)
        /\ k < Len(c.now.reads[f.n]) => s.read = c.now.reads[f.n][k + 1]
        /\ k = Len(c.now.reads[f.n]) => s.read \notin Queries
    BY ZenonT(60), <1>1, <1>2, <1>3, <1>4, RunNext
  <2> QED BY <2>1, <2>2
<1>9. PICK vs : vs = Append(f.vals, cache[s.read].val)
  OBVIOUS
<1>10. vs \in Seq(Values) /\ Len(vs) = k + 1 /\ vs = Seen(c.now, f.n, k + 1)
  <2>1. cache[s.read].val = c.now.value[c.now.reads[f.n][k + 1]] /\ cache[s.read].val \in Values
    BY <1>6, <1>7, <1>8, SessionReads
  <2>2. k \in Nat /\ f.vals \in Seq(Values) /\ Len(f.vals) = k
    <3>1. f.vals \in Seq(Values)
      BY <1>2, <1>3 DEF FrameType
    <3> QED BY <1>4, <3>1
  <2>3. f.vals = Seen(c.now, f.n, k)
    BY <1>8
  <2>4. PICK xs, v, q : xs = f.vals /\ v = cache[s.read].val /\ q = f.n
    OBVIOUS
  <2>5. /\ k \in Nat /\ xs \in Seq(Values) /\ Len(xs) = k /\ xs = Seen(c.now, q, k)
        /\ v = c.now.value[c.now.reads[q][k + 1]] /\ v \in Values
    BY <2>1, <2>2, <2>3, <2>4
  <2>6. /\ Append(xs, v) \in Seq(Values) /\ Len(Append(xs, v)) = k + 1
        /\ Append(xs, v) = Seen(c.now, q, k + 1)
    BY <2>5, SeenNext
  <2> QED BY <1>9, <2>4, <2>6
<1>11. PICK rs : rs = IF f.green THEN f.reads ELSE AddRead(f.reads, cache[s.read].node)
  OBVIOUS
<1>12. rs \in Seq(DOMAIN c.now.node) /\ (~f.green => rs = c.now.trail[f.n][k + 1])
  <2>1. CASE f.green
    BY <1>2, <1>3, <1>11, <2>1 DEF FrameType
  <2>2. CASE ~f.green
    <3>1. f.reads = c.now.trail[f.n][k]
      BY <1>2, <1>3, <1>4, <2>2 DEF Frames, RunFrame
    <3>2. rs = c.now.trail[f.n][k + 1]
      <4>1. c.now.trail[f.n][k + 1] =
               AddRead(c.now.trail[f.n][k], c.now.nodeOf[c.now.reads[f.n][k + 1]])
        BY <1>6, <1>8, TrailNext
      <4> QED BY <1>7, <1>8, <1>11, <2>2, <3>1, <4>1
    <3>3. PICK l \in 0..Len(c.now.reads[f.n]) : l = k + 1
      BY <1>8
    <3>4. c.now.trail[f.n][l] \in Seq(NodesOf(c.now))
      BY <1>6, <1>8, TrailSet
    <3>5. c.now.trail[f.n][l] \in Seq(DOMAIN c.now.node)
      BY <1>6, <3>4, NodeOfIsNode, SeqMonotonic
    <3> QED BY <3>2, <3>3, <3>5
  <2> QED BY <2>1, <2>2
<1>13. PICK g : g = [f EXCEPT !.vals = vs, !.reads = rs]
  OBVIOUS
<1>14. /\ g \in FrameType(c) /\ g.pc = "run" /\ g.n = f.n /\ g.vals = vs
       /\ g.reads = rs /\ g.green = f.green
  BY <1>2, <1>3, <1>10, <1>12, <1>13 DEF FrameType
<1>15. g \in Frames(c)
  <2>1. QueryFrame(c, g)
    BY <1>8, <1>14 DEF QueryFrame
  <2>2. ~f.green /\ f.n \in OldNodes(c) => MustRun(c, f.n)
    BY <1>2, <1>3 DEF Frames, RunFrame
  <2>3. k + 1 <= Len(c.now.reads[f.n])
    BY <1>8
  <2>4. RunFrame(c, g)
    BY <1>10, <1>12, <1>14, <2>2, <2>3 DEF RunFrame
  <2>5. f.green => f.n \in OldNodes(c)
    BY DEF Frames
  <2> QED BY <1>14, <2>1, <2>4, <2>5 DEF Frames, MarkLabels
<1>16. FrameDyn(c, colour, promoted, fresh, g) /\ TopOK(c, colour, g)
  BY <1>2, <1>3, <1>14 DEF FrameDyn, TopOK, MarkLabels
<1>17. Replaces(g, f) /\ (IsJob(g) <=> IsJob(f))
  BY <1>2, <1>3, <1>14 DEF Replaces, IsJob, JobLabels, CalledLabels, MarkLabels
<1>18. Continue(t, g) /\ UNCHANGED <<colour, promoted, fresh, active>>
  BY <1>1, <1>3, <1>5, <1>9, <1>11, <1>13 DEF Read, graph, jobs
<1>19. StacksOK(c)'
  BY <1>2, <1>3, <1>15, <1>16, <1>17, <1>18, ContinueStep
<1> QED BY <1>1, <1>19, RestKept, StateParts

LEMMA FinishOK ==
    ASSUME NEW c, InContext(c), StateOK(c), NEW t \in Threads, Finish(t)
    PROVE  StateOK(c)'
<1>1. At(t, {"run"}) /\ Context(c) /\ UNCHANGED <<graph, processed, stored, jobs>>
  BY DEF Finish, InContext
<1>2. /\ stack[t] # << >> /\ Top(t) = stack[t][Len(stack[t])] /\ Top(t) \in Frames(c)
      /\ Top(t) \in FrameType(c)
      /\ Top(t).pc \in {"run"} /\ FrameDyn(c, colour, promoted, fresh, Top(t))
  BY <1>1, TopFrame
<1>3. PICK f \in Frames(c) : f = Top(t)
  BY <1>2
<1>4. PICK s, k : s = Step(c.w, f.n, c.inp, f.vals) /\ k = Len(f.vals)
  OBVIOUS
<1>5. NextStep(t) = s
  BY <1>3, <1>4, PrevContext DEF NextStep
<1>6. IsSession(c.w, c.inp, c.now) /\ IsSession(c.w, c.before, c.old)
  BY <1>1 DEF Context
<1>7. f.n \in c.now.needed /\ k = Len(c.now.reads[f.n]) /\ s.value = c.now.value[f.n]
  <2>1. s.read \notin Queries
    BY <1>5, GraphAssumption DEF Finish
  <2>2. /\ f.n \in c.now.needed /\ k \in 0..Len(c.now.reads[f.n])
        /\ Len(c.now.reads[f.n]) \in Nat
        /\ k < Len(c.now.reads[f.n]) => s.read \in Queries
        /\ k = Len(c.now.reads[f.n]) => s.value = c.now.value[f.n]
    <3>1. f.pc = "run" /\ Context(c)
      BY <1>1, <1>2, <1>3
    <3> QED BY <1>4, <3>1, RunNext
  <2> QED BY <2>1, <2>2
<1>8. s.value \in Nat
  BY <1>6, <1>7, SessionReads, GraphAssumption
<1>9. world = c.w
  BY PrevContext
<1>10. ASSUME f.green
       PROVE  f.n \in OldNodes(c) /\ colour[f.n] = "green" /\ Fingerprint(f.n, s.value) = prev.node[f.n].fp
  <2>1. f.n \in OldNodes(c) /\ colour[f.n] = "green"
    BY <1>2, <1>3, <1>10 DEF Frames, FrameDyn
  <2>2. Stable(c, f.n)
    BY <2>1 DEF StateOK, GraphOK
  <2>3. /\ f.n \in Both(c) /\ c.old.nodeOf[f.n] = f.n /\ f.n \notin c.w.anon
        /\ f.n \in c.old.needed
    BY <1>1, <1>7, <2>1, NeededOldNode
  <2>4. c.now.value[f.n] = c.old.value[f.n]
    BY <2>2, <2>3 DEF Stable, Same
  <2>5. c.old.node[f.n] = NodeRecord(c.w, c.old, f.n)
    <3>1. Direct(c.w, c.old, f.n)
      BY <2>3 DEF Direct
    <3> QED BY <1>6, <2>3, <3>1, DirectNode
  <2>6. prev.node[f.n].fp = IF f.n \in c.w.nohash THEN ZERO ELSE c.old.value[f.n]
    BY <2>3, <2>5, PrevContext DEF NodeRecord
  <2> QED BY <1>7, <1>9, <2>1, <2>4, <2>6 DEF Fingerprint
<1>11. PICK l : l = IF f.green THEN "complete" ELSE "intern"
  OBVIOUS
<1>12. PICK g : g = [f EXCEPT !.pc = l, !.val = s.value]
  OBVIOUS
<1>13. /\ emitted' = emitted \union ({f.n} \intersect c.w.warns)
       /\ Continue(t, g) /\ UNCHANGED control
  BY <1>3, <1>5, <1>9, <1>10, <1>11, <1>12 DEF Finish, NoFailure
<1>14. l \in Labels
  BY <1>11 DEF Labels
<1>15. /\ g \in FrameType(c) /\ g.pc = l /\ g.n = f.n /\ g.val = s.value
       /\ g.reads = f.reads /\ g.green = f.green
  BY <1>2, <1>3, <1>8, <1>12, <1>14 DEF FrameType
<1>16. g \in Frames(c)
  <2>1. QueryFrame(c, g)
    BY <1>7, <1>11, <1>15 DEF QueryFrame
  <2>2. ~f.green => f.reads = Edges(c.now, f.n)
    BY <1>2, <1>3, <1>4, <1>7 DEF Frames, RunFrame, Edges
  <2>3. ~f.green /\ f.n \in OldNodes(c) => MustRun(c, f.n)
    BY <1>2, <1>3 DEF Frames, RunFrame
  <2>4. RunFrame(c, g)
    BY <1>7, <1>11, <1>15, <2>2, <2>3 DEF RunFrame
  <2> QED BY <1>10, <1>11, <1>15, <2>1, <2>4 DEF Frames, MarkLabels
<1>17. FrameDyn(c, colour, promoted, fresh, g) /\ TopOK(c, colour, g)
  BY <1>2, <1>3, <1>10, <1>11, <1>15 DEF FrameDyn, TopOK, MarkLabels
<1>18. Replaces(g, f) /\ (IsJob(g) <=> IsJob(f))
  BY <1>2, <1>3, <1>11, <1>15 DEF Replaces, IsJob, JobLabels, CalledLabels, MarkLabels
<1>19. StacksOK(c)'
  BY <1>1, <1>2, <1>3, <1>13, <1>16, <1>17, <1>18, ContinueStep DEF graph, jobs
<1>20. EffectsOK(c, processed', stored', emitted', cache')
  BY <1>1, <1>13 DEF StateOK, EffectsOK, jobs
<1>21. RestOK(c)'
  BY <1>1, <1>13, <1>20 DEF StateOK, RestOK, graph, jobs, control
<1> QED BY <1>19, <1>21, StateParts

LEMMA StartStep ==
    ASSUME NEW c, Context(c), StateOK(c), NEW t \in Threads, stack[t] = << >>,
           NEW l \in {"get", "ensure"}, NEW q \in c.now.needed,
           stack' = [stack EXCEPT ![t] = <<Frame(l, q)>>],
           UNCHANGED <<colour, promoted, fresh, active>>
    PROVE  StacksOK(c)'
<1>1. StackOK(c, stack) /\ StackDyn(c, colour, promoted, fresh, stack) /\ JobsOK(active, stack)
  BY DEF StateOK
<1>2. PICK g : g = Frame(l, q)
  OBVIOUS
<1>3. /\ g \in Frames(c) /\ g.pc = l
      /\ FrameDyn(c, colour, promoted, fresh, g) /\ TopOK(c, colour, g)
  BY <1>2, QueryCalled
<1>4. ~IsJob(g)
  BY <1>3 DEF IsJob, JobLabels
<1>5. Changes(stack, stack', t, <<g>>)
  BY <1>1, <1>2, ChangesExcept
<1>6. OthersDyn(c, colour, promoted, fresh, stack, t)
  BY <1>1, SameGraph
<1>7. StackOK(c, stack') /\ StackDyn(c, colour, promoted, fresh, stack')
  BY <1>1, <1>3, <1>5, <1>6, StartStack
<1>8. JobsOK(active, stack')
  BY <1>1, <1>3, <1>4, <1>5, StartJobs
<1> QED BY <1>7, <1>8 DEF StacksOK

LEMMA BeginOK ==
    ASSUME NEW c, InContext(c), StateOK(c), NEW t \in Threads, Begin(t)
    PROVE  StateOK(c)'
<1>1. Context(c) /\ UNCHANGED <<graph, effects, jobs, left, failure>> /\ stack[t] = << >>
  BY DEF Begin, InContext
<1>2. PICK T : T = [q : c.now.needed, ensure : BOOLEAN]
  OBVIOUS
<1>3. todo \in [Threads -> Seq(T)] /\ todo[t] # << >>
  BY <1>2 DEF StateOK, ControlOK, Begin
<1>4. Head(todo[t]) \in T /\ Tail(todo[t]) \in Seq(T)
  BY <1>3
<1>5. todo' \in [Threads -> Seq(T)]
  BY <1>3, <1>4 DEF Begin
<1>6. PICK l \in {"get", "ensure"} : l = IF Head(todo[t]).ensure THEN "ensure" ELSE "get"
  OBVIOUS
<1>7. Head(todo[t]).q \in c.now.needed
  BY <1>2, <1>4
<1>8. stack' = [stack EXCEPT ![t] = <<Frame(l, Head(todo[t]).q)>>]
  BY <1>6 DEF Begin
<1>9. StacksOK(c)'
  BY <1>1, <1>7, <1>8, StartStep DEF graph, jobs
<1>10. ControlOK(c, todo', left', failure')
  BY <1>1, <1>2, <1>5 DEF StateOK, ControlOK
<1>11. RestOK(c)'
  BY <1>1, <1>10 DEF StateOK, RestOK, graph, effects, jobs
<1> QED BY <1>9, <1>11, StateParts

LEMMA CachePromotionOK ==
    ASSUME NEW c, InContext(c), StateOK(c), CachePromotion
    PROVE  StateOK(c)'
<1>1. Context(c) /\ UNCHANGED <<graph, effects, jobs, todo, failure>>
  BY DEF CachePromotion, InContext
<1>2. left \in Seq(OldNodes(c)) /\ left # << >>
  BY DEF StateOK, ControlOK, CachePromotion
<1>3. PICK n : n = Head(left)
  OBVIOUS
<1>4. n \in OldNodes(c) /\ left' \in Seq(OldNodes(c))
  <2>1. PICK N : N = OldNodes(c)
    OBVIOUS
  <2>2. left \in Seq(N) /\ left # << >>
    BY <1>2, <2>1
  <2>3. Head(left) \in N /\ Tail(left) \in Seq(N)
    BY <2>2
  <2> QED BY <1>3, <2>1, <2>3 DEF CachePromotion
<1>5. RestOK(c)'
  <2>1. ControlOK(c, todo', left', failure')
    BY <1>1, <1>4 DEF StateOK, ControlOK
  <2> QED BY <1>1, <2>1 DEF StateOK, RestOK, graph, effects, jobs
<1>6. CASE ~CachePromotable(n) \/ Main \notin Threads
  <2>1. stack' = stack
    <3>1. stack = [u \in Threads |-> stack[u]]
      BY DEF StateOK, StackOK
    <3>2. Main \notin Threads => [stack EXCEPT ![Main] = <<Frame("get", n)>>] = stack
      BY <3>1
    <3> QED BY <1>3, <1>6, <3>2 DEF CachePromotion
  <2>2. StacksOK(c)'
    BY <1>1, <2>1 DEF StateOK, StacksOK, graph, jobs
  <2> QED BY <1>5, <2>2, StateParts
<1>7. CASE CachePromotable(n) /\ Main \in Threads
  <2>1. n \in Queries /\ Stable(c, n)
    BY <1>4, <1>7 DEF CachePromotable, Forceable, StateOK, GraphOK
  <2>2. n \in c.now.needed
    <3>1. IsSession(c.w, c.inp, c.now)
      BY <1>1 DEF Context
    <3> QED BY <2>1, <3>1, NodeHasQuery DEF Stable
  <2>3. stack[Main] = << >> /\ stack' = [stack EXCEPT ![Main] = <<Frame("get", n)>>]
    BY <1>3, <1>7 DEF CachePromotion, AllIdle
  <2>4. StacksOK(c)'
    BY <1>1, <1>7, <2>2, <2>3, StartStep DEF graph, jobs
  <2> QED BY <1>5, <2>4, StateParts
<1> QED BY <1>6, <1>7

-----------------------------------------------------------------------------
(* Steps that change the graph, the jobs or the diagnostics *)

LEMMA AddedEntry ==
    ASSUME NEW m, NEW n, NEW e
    PROVE  /\ DOMAIN Added(m, n, e) = DOMAIN m \union {n}
           /\ \A x \in DOMAIN m : Added(m, n, e)[x] = m[x]
           /\ n \notin DOMAIN m => Added(m, n, e)[n] = e
BY DEF Added

LEMMA GraphGrows ==
    ASSUME NEW c, NEW col, NEW pro, NEW fre, GraphOK(c, col, pro, fre),
           NEW n \in DOMAIN c.now.node, NEW e, e = c.now.node[n]
    PROVE  /\ n \in OldNodes(c) => GraphOK(c, col, Added(pro, n, e), fre)
           /\ (n \in Queries => n \notin OldNodes(c)) => GraphOK(c, col, pro, Added(fre, n, e))
<1>1. ASSUME n \in OldNodes(c) PROVE GraphOK(c, col, Added(pro, n, e), fre)
  <2>1. PICK p : p = Added(pro, n, e)
    OBVIOUS
  <2>2. /\ DOMAIN p = DOMAIN pro \union {n} /\ \A x \in DOMAIN pro : p[x] = pro[x]
        /\ n \notin DOMAIN pro => p[n] = e
    BY <2>1 DEF Added
  <2>3. \A x \in DOMAIN p : p[x] = c.now.node[x]
    <3>1. \A x \in DOMAIN pro : pro[x] = c.now.node[x]
      BY DEF GraphOK
    <3> QED BY <2>2, <3>1
  <2>4. GraphOK(c, col, p, fre)
    BY <1>1, <2>2, <2>3 DEF GraphOK
  <2> QED BY <2>1, <2>4
<1>2. ASSUME n \in Queries => n \notin OldNodes(c) PROVE GraphOK(c, col, pro, Added(fre, n, e))
  <2>1. PICK p : p = Added(fre, n, e)
    OBVIOUS
  <2>2. /\ DOMAIN p = DOMAIN fre \union {n} /\ \A x \in DOMAIN fre : p[x] = fre[x]
        /\ n \notin DOMAIN fre => p[n] = e
    BY <2>1 DEF Added
  <2>3. \A x \in DOMAIN p : p[x] = c.now.node[x] /\ (x \in Queries => x \notin OldNodes(c))
    <3>1. \A x \in DOMAIN fre : fre[x] = c.now.node[x] /\ (x \in Queries => x \notin OldNodes(c))
      BY DEF GraphOK
    <3> QED BY <1>2, <2>2, <3>1
  <2>4. GraphOK(c, col, pro, p)
    BY <2>2, <2>3 DEF GraphOK
  <2> QED BY <2>1, <2>4
<1> QED BY <1>1, <1>2

(* Other jobs are for other queries. *)
LEMMA OthersChange ==
    ASSUME NEW c, NEW st, StackOK(c, st), NEW t \in Threads, st[t] # << >>,
           NEW act, JobsOK(act, st),
           NEW col, NEW pro, NEW fre, StackDyn(c, col, pro, fre, st),
           NEW col2, NEW pro2, NEW fre2,
           \A f \in Frames(c) :
              /\ FrameDyn(c, col, pro, fre, f)
              /\ IsJob(f) /\ IsJob(st[t][Len(st[t])]) => f.n # st[t][Len(st[t])].n
              => FrameDyn(c, col2, pro2, fre2, f),
           \A f \in Frames(c) : TopOK(c, col, f) => TopOK(c, col2, f)
    PROVE  OthersDyn(c, col2, pro2, fre2, st, t)
<1>1. ASSUME NEW u \in Threads, NEW i \in 1..Len(st[u]), (u = t => i < Len(st[t]))
      PROVE  FrameDyn(c, col2, pro2, fre2, st[u][i])
  <2>1. st[u][i] \in Frames(c)
    BY StackTypes
  <2>2. FrameDyn(c, col, pro, fre, st[u][i])
    BY DEF StackDyn
  <2>3. Len(st[t]) \in 1..Len(st[t]) /\ Len(st[t]) \in Nat
    BY StackTypes
  <2>4. IsJob(st[u][i]) /\ IsJob(st[t][Len(st[t])]) => st[u][i].n # st[t][Len(st[t])].n
    BY <1>1, <2>3 DEF JobsOK, IsJob
  <2> QED BY <2>1, <2>2, <2>4
<1>2. ASSUME NEW u \in Threads, u # t, st[u] # << >>
      PROVE  TopOK(c, col2, st[u][Len(st[u])])
  <2>1. st[u][Len(st[u])] \in Frames(c)
    BY <1>2, StackTypes
  <2>2. TopOK(c, col, st[u][Len(st[u])])
    BY <1>2 DEF StackDyn
  <2> QED BY <2>1, <2>2
<1> QED BY <1>1, <1>2 DEF OthersDyn

LEMMA ContinueChange ==
    ASSUME NEW c, StateOK(c), NEW t \in Threads, stack[t] # << >>, Top(t) = stack[t][Len(stack[t])],
           NEW f \in Frames(c), Replaces(f, Top(t)), IsJob(f) <=> IsJob(Top(t)),
           OthersDyn(c, colour', promoted', fresh', stack, t),
           FrameDyn(c, colour', promoted', fresh', f), TopOK(c, colour', f),
           Continue(t, f), active' = active
    PROVE  StacksOK(c)'
<1>1. StackOK(c, stack) /\ JobsOK(active, stack)
  BY DEF StateOK
<1>2. Changes(stack, stack', t, Append(Front(stack[t]), f))
  BY <1>1, ChangesExcept DEF Continue
<1>3. StackOK(c, stack') /\ StackDyn(c, colour', promoted', fresh', stack')
  BY <1>1, <1>2, ContinueStack
<1>4. JobsOK(active, stack')
  BY <1>1, <1>2, ContinueJobs DEF Replaces
<1> QED BY <1>3, <1>4 DEF StacksOK

(* All the dependencies of a node are green: the node is the one of a build *)
(* from scratch.                                                            *)
LEMMA AllDepsGreen ==
    ASSUME NEW c, Context(c), StateOK(c), NEW f \in Frames(c), f.pc = "mark",
           FrameDyn(c, colour, promoted, fresh, f), f.i > Len(OldDeps(c, f.n))
    PROVE  /\ f.n \in OldNodes(c) /\ f.n \notin c.w.inputs
           /\ ToSet(OldDeps(c, f.n)) \subseteq DOMAIN promoted
           /\ Stable(c, f.n) /\ c.now.node[f.n] = c.old.node[f.n]
           /\ Clean(c, f.n) => Markable(c, f.n)
<1>1. MarkFrame(c, f) /\ f \in FrameType(c)
  BY DEF Frames, MarkLabels
<1>2. f.n \in OldNodes(c) /\ f.n \notin c.w.inputs /\ Wanted(c, f.n) /\ f.i \in Nat \ {0}
  BY <1>1 DEF MarkFrame, FrameType
<1>3. ASSUME NEW d \in ToSet(OldDeps(c, f.n))
      PROVE  /\ d \in OldNodes(c) /\ d \in DOMAIN promoted /\ Stable(c, d)
             /\ Clean(c, d) => d \in Greens(c)
  <2>1. d \in OldNodes(c) /\ \E i \in 1..Len(OldDeps(c, f.n)) : d = OldDeps(c, f.n)[i]
    BY <1>2, OldDepsTypes
  <2>2. PICK j \in 1..Len(OldDeps(c, f.n)) : d = OldDeps(c, f.n)[j]
    BY <2>1
  <2>3. j \in 1..(f.i - 1)
    BY <1>2, OldDepsTypes
  <2>4. colour[d] = "green"
    BY <2>2, <2>3 DEF FrameDyn, MarkLabels
  <2> QED BY <2>1, <2>4 DEF StateOK, GraphOK
<1>4. Stable(c, f.n) /\ c.now.node[f.n] = c.old.node[f.n]
  BY <1>2, <1>3, StableByDeps DEF OldDeps
<1>5. Clean(c, f.n) => Markable(c, f.n)
  BY <1>2, <1>3, CleanDeps DEF Markable
<1> QED BY <1>2, <1>3, <1>4, <1>5

LEMMA NodeShape ==
    ASSUME NEW c, Context(c), NEW n \in OldNodes(c)
    PROVE  c.old.node[n] = [edges |-> c.old.node[n].edges, fp |-> c.old.node[n].fp]
<1>1. IsSession(c.w, c.before, c.old)
  BY DEF Context
<1>2. PICK q \in c.old.needed : Direct(c.w, c.old, q) /\ c.old.nodeOf[q] = n
  BY <1>1, NodeHasQuery DEF OldNodes
<1>3. c.old.node[n] = NodeRecord(c.w, c.old, q)
  BY <1>1, <1>2, DirectNode
<1> QED BY <1>3 DEF NodeRecord

LEMMA PromoteOK ==
    ASSUME NEW c, InContext(c), StateOK(c), NEW t \in Threads, Promote(t)
    PROVE  StateOK(c)'
<1>1. At(t, {"mark"}) /\ Context(c) /\ UNCHANGED <<colour, fresh, effects, jobs>>
  BY DEF Promote, InContext
<1>2. /\ stack[t] # << >> /\ Top(t) = stack[t][Len(stack[t])] /\ Top(t) \in Frames(c)
      /\ Top(t) \in FrameType(c)
      /\ Top(t).pc \in {"mark"} /\ FrameDyn(c, colour, promoted, fresh, Top(t))
  BY <1>1, TopFrame
<1>3. PICK f \in Frames(c) : f = Top(t)
  BY <1>2
<1>4. PICK n : n = f.n
  OBVIOUS
<1>5. \A x : PrevDeps(x) = OldDeps(c, x) /\ prev.node[x] = c.old.node[x]
  BY PrevContext
<1>6. /\ n \in OldNodes(c) /\ n \notin c.w.inputs
      /\ ToSet(OldDeps(c, n)) \subseteq DOMAIN promoted
      /\ Stable(c, n) /\ c.now.node[n] = c.old.node[n]
      /\ Clean(c, n) => Markable(c, n)
  <2>1. f.i > Len(OldDeps(c, f.n)) /\ f.pc = "mark"
    BY <1>2, <1>3, <1>5 DEF Promote
  <2> QED BY <1>1, <1>2, <1>3, <1>4, <2>1, AllDepsGreen
<1>7. PICK l : l = IF n \in prev.warned THEN "emit" ELSE "green"
  OBVIOUS
<1>8. PICK g : g = [f EXCEPT !.pc = l]
  OBVIOUS
<1>9. /\ promoted' = Entered(promoted, n, PrevDeps(n), prev.node[n].fp)
      /\ Continue(t, g) /\ UNCHANGED control
  BY <1>3, <1>4, <1>5, <1>6, <1>7, <1>8 DEF Promote, Goto, NoFailure
<1>10. promoted' = Added(promoted, n, c.now.node[n])
  <2>1. [edges |-> PrevDeps(n), fp |-> prev.node[n].fp] = c.now.node[n]
    <3>1. c.old.node[n] = [edges |-> c.old.node[n].edges, fp |-> c.old.node[n].fp]
      BY <1>1, <1>6, NodeShape
    <3>2. PrevDeps(n) = c.old.node[n].edges /\ prev.node[n].fp = c.old.node[n].fp
      BY <1>5 DEF OldDeps
    <3> QED BY <1>6, <3>1, <3>2
  <2> QED BY <1>9, <2>1 DEF Entered
<1>11. DOMAIN promoted' = DOMAIN promoted \union {n}
  BY <1>10, AddedEntry
<1>12. GraphOK(c, colour', promoted', fresh')
  <2>1. n \in DOMAIN c.now.node
    BY <1>6 DEF Stable
  <2> QED BY <1>1, <1>6, <1>10, <2>1, GraphGrows DEF StateOK
<1>13. Clean(c, n) => ~MustRun(c, n)
  BY <1>6 DEF MustRun
<1>14. CacheOK(c, colour', promoted', fresh', cache', active')
  BY <1>1, <1>11, <1>13 DEF StateOK, CacheOK, jobs
<1>15. RestOK(c)'
  BY <1>1, <1>9, <1>12, <1>14 DEF StateOK, RestOK, effects, jobs, control
<1>16. l \in Labels
  BY <1>7 DEF Labels
<1>17. /\ g \in FrameType(c) /\ g.pc = l /\ g.n = n /\ g.i = f.i /\ g.green = f.green
  BY <1>2, <1>3, <1>4, <1>8, <1>16 DEF FrameType
<1>18. g \in Frames(c)
  <2>1. MarkFrame(c, f) /\ ~f.green
    BY <1>2, <1>3 DEF Frames, MarkLabels
  <2>2. l = "emit" => n \in c.w.warns
    BY <1>7, PrevContext
  <2>3. MarkFrame(c, g)
    BY <1>4, <1>6, <1>7, <1>17, <2>1, <2>2 DEF MarkFrame
  <2> QED BY <1>7, <1>17, <2>1, <2>3 DEF Frames, QueryLabels, CalledLabels, JobLabels
<1>19. FrameDyn(c, colour', promoted', fresh', g) /\ TopOK(c, colour', g)
  <2>1. ~g.green
    BY <1>7, <1>17, <1>18 DEF Frames
  <2>2. \A j \in 1..(f.i - 1) : colour[OldDeps(c, f.n)[j]] = "green"
    BY <1>2, <1>3 DEF FrameDyn, MarkLabels
  <2> QED BY <1>1, <1>4, <1>7, <1>11, <1>17, <2>1, <2>2 DEF FrameDyn, TopOK, MarkLabels
<1>20. OthersDyn(c, colour', promoted', fresh', stack, t)
  <2>1. ASSUME NEW h \in Frames(c), FrameDyn(c, colour, promoted, fresh, h)
        PROVE  FrameDyn(c, colour, promoted', fresh, h)
    BY <1>11, <1>13, <2>1 DEF FrameDyn
  <2> QED BY <1>1, <1>2, <2>1, OthersChange DEF StateOK
<1>21. Replaces(g, f) /\ (IsJob(g) <=> IsJob(f))
  BY <1>2, <1>3, <1>4, <1>7, <1>17 DEF Replaces, IsJob, JobLabels, CalledLabels, MarkLabels
<1>22. StacksOK(c)'
  BY <1>1, <1>2, <1>3, <1>9, <1>18, <1>19, <1>20, <1>21, ContinueChange DEF jobs
<1> QED BY <1>15, <1>22, StateParts

LEMMA EmitSideEffectsOK ==
    ASSUME NEW c, InContext(c), StateOK(c), NEW t \in Threads, EmitSideEffects(t)
    PROVE  StateOK(c)'
<1>1. At(t, {"emit"}) /\ Context(c) /\ UNCHANGED <<graph, jobs>>
  BY DEF EmitSideEffects, InContext
<1>2. /\ stack[t] # << >> /\ Top(t) = stack[t][Len(stack[t])] /\ Top(t) \in Frames(c)
      /\ Top(t) \in FrameType(c)
      /\ Top(t).pc \in {"emit"} /\ FrameDyn(c, colour, promoted, fresh, Top(t))
  BY <1>1, TopFrame
<1>3. PICK f \in Frames(c) : f = Top(t)
  BY <1>2
<1>4. PICK n : n = f.n
  OBVIOUS
<1>5. MarkFrame(c, f) /\ ~f.green
  BY <1>2, <1>3 DEF Frames, MarkLabels
<1>6. /\ n \in OldNodes(c) /\ n \notin c.w.inputs /\ n \in c.w.warns
      /\ Clean(c, n) => Markable(c, n)
  BY <1>2, <1>3, <1>4, <1>5 DEF MarkFrame
<1>7. CASE n \in stored \ processed
  <2>1. /\ failure' = [why |-> "side effects stored twice", n |-> n]
        /\ UNCHANGED <<todo, left>> /\ UNCHANGED <<processed, stored, emitted, stack>>
    BY <1>3, <1>4, <1>7 DEF EmitSideEffects, Fail
  <2>2. ~Clean(c, n)
    BY <1>6, <1>7 DEF StateOK, EffectsOK, MustRun
  <2>3. ControlOK(c, todo', left', failure')
    BY <2>1, <2>2 DEF StateOK, ControlOK
  <2> QED BY <1>1, <2>1, <2>3 DEF StateOK, graph, jobs
<1>8. CASE n \notin stored \ processed
  <2>1. PICK g : g = [f EXCEPT !.pc = "green"]
    OBVIOUS
  <2>2. /\ processed' = processed \union {n} /\ stored' = stored \union {n}
        /\ emitted' = emitted \union {n} /\ Continue(t, g) /\ UNCHANGED control
    BY <1>3, <1>4, <1>8, <2>1 DEF EmitSideEffects, Goto, NoFailure
  <2>3. EffectsOK(c, processed', stored', emitted', cache')
    BY <1>1, <1>6, <2>2 DEF StateOK, EffectsOK, jobs
  <2>4. RestOK(c)'
    BY <1>1, <2>2, <2>3 DEF StateOK, RestOK, graph, jobs, control
  <2>5. "green" \in Labels
    BY DEF Labels
  <2>6. g \in FrameType(c) /\ g.pc = "green" /\ g.n = n /\ g.i = f.i /\ g.green = f.green
    BY <1>2, <1>3, <1>4, <2>1, <2>5 DEF FrameType
  <2>7. g \in Frames(c)
    <3>1. MarkFrame(c, g)
      BY <1>2, <1>3, <1>4, <1>5, <2>6 DEF MarkFrame
    <3> QED BY <1>5, <2>6, <3>1 DEF Frames, QueryLabels, CalledLabels, JobLabels
  <2>8. FrameDyn(c, colour, promoted, fresh, g) /\ TopOK(c, colour, g)
    BY <1>2, <1>3, <1>4, <1>5, <2>6 DEF FrameDyn, TopOK, MarkLabels
  <2>9. Replaces(g, f) /\ (IsJob(g) <=> IsJob(f))
    BY <1>2, <1>3, <1>4, <2>6 DEF Replaces, IsJob, JobLabels, CalledLabels, MarkLabels
  <2>10. StacksOK(c)'
    BY <1>1, <1>2, <1>3, <2>2, <2>7, <2>8, <2>9, ContinueStep DEF graph, jobs
  <2> QED BY <2>4, <2>10, StateParts
<1> QED BY <1>7, <1>8

LEMMA MarkGreenOK ==
    ASSUME NEW c, InContext(c), StateOK(c), NEW t \in Threads, MarkGreen(t)
    PROVE  StateOK(c)'
<1>1. /\ At(t, {"green"}) /\ Context(c) /\ UNCHANGED <<promoted, fresh, effects, jobs>>
      /\ UNCHANGED control /\ Return(t, TRUE)
  BY DEF MarkGreen, InContext, NoFailure
<1>2. /\ stack[t] # << >> /\ Top(t) = stack[t][Len(stack[t])] /\ Top(t) \in Frames(c)
      /\ Top(t).pc \in {"green"} /\ FrameDyn(c, colour, promoted, fresh, Top(t))
  BY <1>1, TopFrame
<1>3. PICK f \in Frames(c) : f = Top(t)
  BY <1>2
<1>4. PICK n : n = f.n
  OBVIOUS
<1>5. /\ n \in OldNodes(c) /\ n \notin c.w.inputs /\ Stable(c, n) /\ n \in DOMAIN promoted
      /\ Clean(c, n) => Markable(c, n)
  <2>1. MarkFrame(c, f)
    BY <1>2, <1>3 DEF Frames, MarkLabels
  <2> QED BY <1>2, <1>3, <1>4, <2>1 DEF MarkFrame, FrameDyn
<1>6. colour \in [OldNodes(c) -> {"none", "red", "green"}]
  BY DEF StateOK, GraphOK
<1>7. /\ colour' \in [OldNodes(c) -> {"none", "red", "green"}]
      /\ colour'[n] = "green" /\ \A x \in OldNodes(c) : x # n => colour'[x] = colour[x]
  BY <1>3, <1>4, <1>5, <1>6 DEF MarkGreen
<1>8. Clean(c, n) => n \in Greens(c)
  BY <1>5, GreensFixpoint DEF GreenBy, Markable
<1>9. GraphOK(c, colour', promoted', fresh')
  <2>1. ASSUME NEW x \in OldNodes(c)
        PROVE  /\ colour'[x] = "green" => Stable(c, x) /\ (Clean(c, x) => x \in Greens(c))
               /\ colour'[x] = "red" => /\ x \in Queries /\ ~Unchanged(c, x) /\ x \in c.now.needed
                                        /\ Clean(c, x) => x \notin Greens(c)
               /\ colour'[x] # "none" => x \in DOMAIN promoted
    <3>1. CASE x = n
      BY <1>5, <1>7, <1>8, <3>1
    <3>2. CASE x # n
      BY <1>7, <3>2 DEF StateOK, GraphOK
    <3> QED BY <3>1, <3>2
  <2> QED BY <1>1, <1>7, <2>1 DEF StateOK, GraphOK
<1>10. CacheOK(c, colour', promoted', fresh', cache', active')
  <2>1. \A q \in OldNodes(c) : colour[q] # "none" => colour'[q] # "none"
    BY <1>7
  <2> QED BY <1>1, <2>1 DEF StateOK, CacheOK, jobs
<1>11. RestOK(c)'
  BY <1>1, <1>9, <1>10 DEF StateOK, RestOK, effects, jobs, control
<1>12. \A x \in OldNodes(c) : /\ colour[x] = "green" => colour'[x] = "green"
                              /\ colour[x] # "none" => colour'[x] # "none"
  BY <1>7
<1>13. OthersDyn(c, colour', promoted', fresh', stack, t)
  <2>1. ASSUME NEW h \in Frames(c), FrameDyn(c, colour, promoted, fresh, h)
        PROVE  FrameDyn(c, colour', promoted, fresh, h)
    <3>1. ASSUME h.pc \in MarkLabels, NEW j \in 1..(h.i - 1)
          PROVE  colour'[OldDeps(c, h.n)[j]] = "green"
      <4>1. h.n \in OldNodes(c) /\ h.i \in Nat \ {0} /\ h.i <= Len(OldDeps(c, h.n)) + 1
        BY <3>1 DEF Frames, MarkFrame, FrameType
      <4>2. j \in 1..Len(OldDeps(c, h.n))
        BY <1>1, <4>1, OldDepsTypes
      <4>3. OldDeps(c, h.n)[j] \in OldNodes(c)
        BY <1>1, <4>1, <4>2, OldDepsTypes
      <4>4. colour[OldDeps(c, h.n)[j]] = "green"
        BY <2>1, <3>1 DEF FrameDyn
      <4> QED BY <1>12, <4>3, <4>4
    <3>2. ASSUME h.green PROVE colour'[h.n] = "green"
      <4>1. h.n \in OldNodes(c)
        BY <3>2 DEF Frames
      <4> QED BY <1>12, <2>1, <3>2, <4>1 DEF FrameDyn
    <3>3. ASSUME h.pc = "colour", Clean(c, h.n) PROVE colour'[h.n] = "none"
      <4>1. RunFrame(c, h) /\ ~h.green
        BY <3>3 DEF Frames
      <4>2. h.n \in OldNodes(c) /\ MustRun(c, h.n)
        BY <3>3, <4>1 DEF RunFrame
      <4>3. h.n # n
        BY <1>5, <3>3, <4>2 DEF MustRun
      <4>4. colour[h.n] = "none"
        BY <2>1, <3>3 DEF FrameDyn
      <4> QED BY <1>7, <4>2, <4>3, <4>4
    <3>4. h.pc = "complete" /\ h.n \in OldNodes(c) => colour'[h.n] # "none"
      BY <1>12, <2>1 DEF FrameDyn
    <3> QED BY <2>1, <3>1, <3>2, <3>3, <3>4 DEF FrameDyn
  <2>2. ASSUME NEW h \in Frames(c), TopOK(c, colour, h)
        PROVE  TopOK(c, colour', h)
    <3>1. ASSUME h.pc \in {"tried", "forced"} PROVE OldDeps(c, h.n)[h.i] \in OldNodes(c)
      <4>1. h.n \in OldNodes(c) /\ h.i \in Nat \ {0} /\ h.i <= Len(OldDeps(c, h.n))
        BY <3>1 DEF Frames, MarkFrame, FrameType, MarkLabels
      <4>2. h.i \in 1..Len(OldDeps(c, h.n))
        BY <1>1, <4>1, OldDepsTypes
      <4> QED BY <1>1, <4>1, <4>2, OldDepsTypes
    <3> QED BY <1>12, <2>2, <3>1 DEF TopOK
  <2> QED BY <1>1, <1>2, <2>1, <2>2, OthersChange DEF StateOK
<1>14. \A b \in Frames(c) : Linked(c, b, f) => TopOK(c, colour', [b EXCEPT !.ok = TRUE])
  <2> SUFFICES ASSUME NEW b \in Frames(c), Linked(c, b, f)
               PROVE  TopOK(c, colour', [b EXCEPT !.ok = TRUE])
    OBVIOUS
  <2>1. b.pc \in {"ensured", "marked", "tried", "forced", "run"}
    BY CallerLabels
  <2>2. PICK g : g = [b EXCEPT !.ok = TRUE]
    OBVIOUS
  <2>3. TRUE \in BOOLEAN
    OBVIOUS
  <2>4. g.pc = b.pc /\ g.n = b.n /\ g.i = b.i /\ g.ok
    BY <2>1, <2>2, <2>3, AnswerKept
  <2>5. \/ b.pc \in {"ensured", "marked"} /\ n = b.n
        \/ b.pc = "tried" /\ n = OldDeps(c, b.n)[b.i]
    BY <1>2, <1>3, <1>4 DEF Linked, MarkLabels, CalledLabels, JobLabels
  <2>6. TopOK(c, colour', g)
    BY <1>5, <1>7, <2>4, <2>5 DEF TopOK
  <2> QED BY <2>2, <2>6
<1>15. StacksOK(c)'
  <2>1. StackOK(c, stack) /\ JobsOK(active, stack) /\ TRUE \in BOOLEAN /\ ~IsJob(f)
    BY <1>2, <1>3 DEF StateOK, IsJob, JobLabels
  <2>2. Changes(stack, stack', t, Popped(stack[t], TRUE))
    BY <1>1, <2>1, ReturnChanges
  <2>3. StackOK(c, stack') /\ StackDyn(c, colour', promoted', fresh', stack')
    BY <1>2, <1>3, <1>13, <1>14, <2>1, <2>2, ReturnStack
  <2>4. JobsOK(active, stack')
    BY <1>2, <1>3, <2>1, <2>2, ReturnJobs
  <2> QED BY <1>1, <2>3, <2>4 DEF StacksOK, jobs
<1> QED BY <1>11, <1>15, StateParts

LEMMA StartJobOK ==
    ASSUME NEW c, InContext(c), StateOK(c), NEW t \in Threads, StartJob(t)
    PROVE  StateOK(c)'
<1>1. /\ At(t, {"get"}) /\ Context(c) /\ UNCHANGED <<graph, effects, cache>> /\ UNCHANGED control
  BY DEF StartJob, InContext, NoFailure
<1>2. /\ stack[t] # << >> /\ Top(t) = stack[t][Len(stack[t])] /\ Top(t) \in Frames(c)
      /\ Top(t) \in FrameType(c) /\ Top(t).pc \in {"get"}
  BY <1>1, TopFrame
<1>3. PICK f \in Frames(c) : f = Top(t)
  BY <1>2
<1>4. f.n \notin DOMAIN cache /\ f.n \notin active /\ active' = active \union {f.n}
  BY <1>3 DEF StartJob
<1>5. f.n \in c.now.needed /\ f.n \in Queries /\ ~f.ok
  <2>1. QueryFrame(c, f)
    BY <1>2, <1>3 DEF Frames, QueryLabels, CalledLabels
  <2>2. c.now.needed \subseteq Queries
    BY <1>1, SessionReads DEF Context
  <2> QED BY <1>2, <1>3, <2>1, <2>2 DEF QueryFrame
<1>6. PICK g : g = [f EXCEPT !.pc = "start"]
  OBVIOUS
<1>7. "start" \in Labels
  BY DEF Labels
<1>8. /\ g \in FrameType(c) /\ g.pc = "start" /\ g.n = f.n /\ g.vals = f.vals
      /\ g.reads = f.reads /\ g.green = f.green /\ g.ok = f.ok
  BY <1>2, <1>3, <1>6, <1>7 DEF FrameType
<1>9. g \in Frames(c) /\ Replaces(g, f) /\ ~g.green
  BY <1>2, <1>3, <1>5, <1>8, RelabelQuery
<1>10. FrameDyn(c, colour, promoted, fresh, g) /\ TopOK(c, colour, g)
  <2>1. f.n \in OldNodes(c) /\ Clean(c, f.n) /\ MustRun(c, f.n) => f.n \notin DOMAIN promoted
    BY <1>4, <1>5 DEF StateOK, CacheOK
  <2>2. f.n \notin DOMAIN fresh
    BY <1>4, <1>5 DEF StateOK, CacheOK
  <2> QED BY <1>8, <1>9, <2>1, <2>2 DEF FrameDyn, TopOK, MarkLabels
<1>11. IsJob(g) /\ ~IsJob(f)
  BY <1>2, <1>3, <1>8 DEF IsJob, JobLabels
<1>12. StackOK(c, stack) /\ StackDyn(c, colour, promoted, fresh, stack) /\ JobsOK(active, stack)
  BY DEF StateOK
<1>13. Changes(stack, stack', t, Append(Front(stack[t]), g))
  <2>1. Continue(t, g)
    BY <1>3, <1>6 DEF StartJob, Goto
  <2> QED BY <1>12, <2>1, ChangesExcept DEF Continue
<1>14. StackOK(c, stack') /\ StackDyn(c, colour, promoted, fresh, stack')
  <2>1. OthersDyn(c, colour, promoted, fresh, stack, t)
    BY <1>12, SameGraph
  <2> QED BY <1>2, <1>3, <1>9, <1>10, <1>12, <1>13, <2>1, ContinueStack
<1>15. JobsOK(active', stack')
  <2>1. g.n = stack[t][Len(stack[t])].n /\ g.n \notin active
    BY <1>2, <1>3, <1>4, <1>8
  <2>2. JobsOK(active \union {g.n}, stack')
    BY <1>2, <1>3, <1>9, <1>11, <1>12, <1>13, <2>1, NewJob
  <2> QED BY <1>4, <1>8, <2>2
<1>16. StacksOK(c)'
  BY <1>1, <1>14, <1>15 DEF StacksOK, graph
<1>17. CacheOK(c, colour, promoted, fresh, cache, active')
  BY <1>4, <1>5 DEF StateOK, CacheOK
<1>18. RestOK(c)'
  BY <1>1, <1>17 DEF StateOK, RestOK, graph, effects, control
<1> QED BY <1>16, <1>18, StateParts

(* What a query has recorded is its node of a build from scratch. *)
LEMMA RecordedNode ==
    ASSUME NEW c, Context(c), NEW f \in Frames(c), f.pc \in {"intern", "complete"}, ~f.green
    PROVE  /\ f.n \in c.now.needed /\ f.n \in Queries /\ f.val = c.now.value[f.n]
           /\ f.reads = Edges(c.now, f.n)
           /\ f.n \in c.w.anon => f.n \notin OldNodes(c)
           /\ f.n \in c.w.anon /\ Len(f.reads) # 1 =>
                 /\ f.reads \in DOMAIN c.now.node /\ f.reads \notin Queries
                 /\ [edges |-> f.reads, fp |-> ZERO] = c.now.node[f.reads]
           /\ f.n \notin c.w.anon =>
                 /\ f.n \in DOMAIN c.now.node
                 /\ [edges |-> f.reads, fp |-> IF f.n \in c.w.nohash THEN ZERO ELSE f.val]
                       = c.now.node[f.n]
           /\ c.now.nodeOf[f.n] = IF f.n \in c.w.anon THEN AnonNode(f.reads) ELSE f.n
<1>1. IsSession(c.w, c.inp, c.now)
  BY DEF Context
<1>2. QueryFrame(c, f) /\ RunFrame(c, f)
  BY DEF Frames, QueryLabels, CalledLabels, JobLabels
<1>3. f.n \in c.now.needed /\ f.val = c.now.value[f.n] /\ f.reads = Edges(c.now, f.n)
  BY <1>2 DEF QueryFrame, RunFrame
<1>4. f.n \in Queries
  BY <1>1, <1>3, SessionReads
<1>5. f.n \in c.w.anon => f.n \notin OldNodes(c)
  BY <1>3, NeededOldNode
<1>6. ASSUME f.n \in c.w.anon, Len(f.reads) # 1
      PROVE  /\ f.reads \in DOMAIN c.now.node /\ f.reads \notin Queries
             /\ [edges |-> f.reads, fp |-> ZERO] = c.now.node[f.reads]
  <2>1. Direct(c.w, c.now, f.n)
    BY <1>3, <1>6 DEF Direct
  <2>2. /\ c.now.nodeOf[f.n] \in DOMAIN c.now.node
        /\ c.now.nodeOf[f.n] = Edges(c.now, f.n) /\ Edges(c.now, f.n) \notin Queries
        /\ c.now.node[c.now.nodeOf[f.n]] = NodeRecord(c.w, c.now, f.n)
    BY <1>1, <1>3, <1>6, <2>1, DirectNode
  <2> QED BY <1>3, <1>6, <2>2 DEF NodeRecord
<1>7. ASSUME f.n \notin c.w.anon
      PROVE  /\ f.n \in DOMAIN c.now.node
             /\ [edges |-> f.reads, fp |-> IF f.n \in c.w.nohash THEN ZERO ELSE f.val]
                   = c.now.node[f.n]
  <2>1. Direct(c.w, c.now, f.n)
    BY <1>7 DEF Direct
  <2>2. /\ c.now.nodeOf[f.n] \in DOMAIN c.now.node /\ c.now.nodeOf[f.n] = f.n
        /\ c.now.node[c.now.nodeOf[f.n]] = NodeRecord(c.w, c.now, f.n)
    BY <1>1, <1>3, <1>7, <2>1, DirectNode
  <2> QED BY <1>3, <1>7, <2>2 DEF NodeRecord
<1>8. c.now.nodeOf[f.n] = IF f.n \in c.w.anon THEN AnonNode(f.reads) ELSE f.n
  <2>1. \A q \in c.now.needed :
           c.now.nodeOf[q] = IF q \in c.w.anon THEN AnonNode(Edges(c.now, q)) ELSE q
    BY <1>1, Zenon DEF IsSession
  <2> QED BY <1>3, <2>1
<1> QED BY <1>3, <1>4, <1>5, <1>6, <1>7, <1>8

(* A job's query is one that some thread executes. *)
LEMMA TopJob ==
    ASSUME NEW c, StateOK(c), NEW t \in Threads, stack[t] # << >>,
           Top(t) = stack[t][Len(stack[t])], IsJob(Top(t))
    PROVE  Top(t).n \in active /\ Top(t).n \notin DOMAIN cache
<1>1. StackOK(c, stack) /\ JobsOK(active, stack)
  BY DEF StateOK
<1>2. Len(stack[t]) \in 1..Len(stack[t])
  BY <1>1, StackTypes
<1>3. Top(t).n \in active
  BY <1>1, <1>2 DEF JobsOK, IsJob
<1> QED BY <1>3 DEF StateOK, CacheOK

LEMMA InternOK ==
    ASSUME NEW c, InContext(c), StateOK(c), NEW t \in Threads, Intern(t)
    PROVE  StateOK(c)'
<1>1. /\ At(t, {"intern"}) /\ Context(c) /\ UNCHANGED <<colour, effects, jobs>>
      /\ UNCHANGED control
  BY DEF Intern, InContext, NoFailure
<1>2. /\ stack[t] # << >> /\ Top(t) = stack[t][Len(stack[t])] /\ Top(t) \in Frames(c)
      /\ Top(t) \in FrameType(c)
      /\ Top(t).pc \in {"intern"} /\ FrameDyn(c, colour, promoted, fresh, Top(t))
  BY <1>1, TopFrame
<1>3. PICK f \in Frames(c) : f = Top(t)
  BY <1>2
<1>4. PICK n : n = f.n
  OBVIOUS
<1>5. world = c.w
  BY PrevContext
<1>6. f.pc = "intern" /\ ~f.green
  BY <1>2, <1>3 DEF Frames
<1>7. /\ n \in c.now.needed /\ n \in Queries
      /\ n \in c.w.anon => n \notin OldNodes(c)
      /\ n \in c.w.anon /\ Len(f.reads) # 1 =>
            /\ f.reads \in DOMAIN c.now.node /\ f.reads \notin Queries
            /\ [edges |-> f.reads, fp |-> ZERO] = c.now.node[f.reads]
      /\ n \notin c.w.anon =>
            /\ n \in DOMAIN c.now.node
            /\ [edges |-> f.reads, fp |-> IF n \in c.w.nohash THEN ZERO ELSE f.val]
                  = c.now.node[n]
  BY <1>1, <1>4, <1>6, RecordedNode
<1>8. n \in OldNodes(c) => MustRun(c, n)
  BY <1>4, <1>6 DEF Frames, RunFrame
<1>9. n \in active /\ IsJob(f)
  BY <1>2, <1>3, <1>4, <1>6, TopJob DEF IsJob, JobLabels
<1>10. \A x : Known(x) <=> x \in OldNodes(c)
  BY KnownNodes
<1>11. ASSUME NEW l \in {"complete", "colour"}, Goto(t, l),
              l = "colour" <=> n \in OldNodes(c),
              n \in OldNodes(c) => n \in DOMAIN promoted',
              OthersDyn(c, colour', promoted', fresh', stack, t)
       PROVE  StacksOK(c)'
  <2>1. PICK g : g = [f EXCEPT !.pc = l]
    OBVIOUS
  <2>2. l \in Labels
    BY DEF Labels
  <2>3. /\ g \in FrameType(c) /\ g.pc = l /\ g.n = n /\ g.val = f.val
        /\ g.reads = f.reads /\ g.green = f.green
    BY <1>2, <1>3, <1>4, <2>1, <2>2 DEF FrameType
  <2>4. g \in Frames(c)
    <3>1. QueryFrame(c, f) /\ RunFrame(c, f)
      BY <1>6 DEF Frames, QueryLabels, CalledLabels, JobLabels
    <3>2. QueryFrame(c, g)
      BY <1>4, <2>3, <3>1 DEF QueryFrame
    <3>3. RunFrame(c, g)
      BY <1>4, <1>6, <1>11, <2>3, <3>1 DEF RunFrame
    <3> QED BY <1>6, <2>3, <3>2, <3>3 DEF Frames, MarkLabels
  <2>5. FrameDyn(c, colour', promoted', fresh', g) /\ TopOK(c, colour', g)
    <3>1. n \in OldNodes(c) /\ Clean(c, n) => colour[n] = "none"
      <4> SUFFICES ASSUME n \in OldNodes(c), Clean(c, n) PROVE colour[n] = "none"
        OBVIOUS
      <4>1. n \notin DOMAIN promoted
        BY <1>2, <1>3, <1>4, <1>6, <1>8 DEF FrameDyn
      <4> QED BY <4>1 DEF StateOK, GraphOK
    <3> QED BY <1>1, <1>6, <1>11, <2>3, <3>1 DEF FrameDyn, TopOK, MarkLabels
  <2>6. Replaces(g, f) /\ (IsJob(g) <=> IsJob(f))
    BY <1>4, <1>6, <2>3 DEF Replaces, IsJob, JobLabels, CalledLabels, MarkLabels
  <2>7. Continue(t, g) /\ active' = active
    BY <1>1, <1>3, <1>11, <2>1 DEF Goto, jobs
  <2> QED BY <1>2, <1>3, <1>11, <2>4, <2>5, <2>6, <2>7, ContinueChange
<1>12. ASSUME GraphOK(c, colour', promoted', fresh'),
              CacheOK(c, colour', promoted', fresh', cache', active')
       PROVE  RestOK(c)'
  BY <1>1, <1>12 DEF StateOK, RestOK, effects, jobs, control
<1>13. ASSUME DOMAIN promoted' \subseteq DOMAIN promoted \union {n},
              DOMAIN promoted \subseteq DOMAIN promoted',
              \A x \in DOMAIN fresh' : x \in DOMAIN fresh \/ x = n \/ x \notin Queries
       PROVE  /\ OthersDyn(c, colour', promoted', fresh', stack, t)
              /\ CacheOK(c, colour', promoted', fresh', cache', active')
  <2>1. ASSUME NEW h \in Frames(c), FrameDyn(c, colour, promoted, fresh, h),
               IsJob(h) /\ IsJob(f) => h.n # n
        PROVE  FrameDyn(c, colour, promoted', fresh', h)
    <3>1. ASSUME h.pc \in {"start", "marked", "run", "intern"}, ~h.green
          PROVE  /\ h.n \in OldNodes(c) /\ Clean(c, h.n) /\ MustRun(c, h.n) => h.n \notin DOMAIN promoted'
                 /\ h.n \notin OldNodes(c) => h.n \notin DOMAIN fresh'
      <4>1. h.n # n
        BY <1>9, <2>1, <3>1 DEF IsJob, JobLabels
      <4>2. h.n \in Queries
        <5>1. h.n \in c.now.needed
          BY <3>1 DEF Frames, QueryFrame, QueryLabels, CalledLabels, JobLabels
        <5> QED BY <1>1, <5>1, SessionReads DEF Context
      <4>3. /\ h.n \in OldNodes(c) /\ Clean(c, h.n) /\ MustRun(c, h.n) => h.n \notin DOMAIN promoted
            /\ h.n \notin OldNodes(c) => h.n \notin DOMAIN fresh
        BY <2>1, <3>1 DEF FrameDyn
      <4> QED BY <1>13, <4>1, <4>2, <4>3
    <3> QED BY <1>13, <2>1, <3>1 DEF FrameDyn
  <2>2. OthersDyn(c, colour, promoted', fresh', stack, t)
    BY <1>2, <1>3, <1>4, <2>1, OthersChange DEF StateOK
  <2>3. CacheOK(c, colour, promoted', fresh', cache, active)
    BY <1>9, <1>13 DEF StateOK, CacheOK
  <2> QED BY <1>1, <2>2, <2>3 DEF jobs
<1>14. CASE n \in c.w.anon
  <2>1. /\ fresh' = IF Len(f.reads) > 1 THEN Entered(fresh, f.reads, f.reads, ZERO) ELSE fresh
        /\ promoted' = promoted /\ Goto(t, "complete")
    BY <1>3, <1>4, <1>5, <1>14 DEF Intern
  <2>2. CASE Len(f.reads) > 1
    <3>1. Len(f.reads) # 1
      <4>1. f.reads \in Seq(DOMAIN c.now.node)
        BY <1>2, <1>3 DEF FrameType
      <4>2. Len(f.reads) \in Nat
        BY <4>1
      <4>3. PICK l \in Nat : l = Len(f.reads)
        BY <4>2
      <4>4. l > 1 => l # 1
        OBVIOUS
      <4> QED BY <2>2, <4>3, <4>4
    <3>2. /\ f.reads \in DOMAIN c.now.node /\ f.reads \notin Queries
          /\ fresh' = Added(fresh, f.reads, c.now.node[f.reads])
      BY <1>7, <1>14, <2>1, <2>2, <3>1 DEF Entered
    <3>3. GraphOK(c, colour', promoted', fresh')
      BY <1>1, <2>1, <3>2, GraphGrows DEF StateOK
    <3>4. DOMAIN fresh' = DOMAIN fresh \union {f.reads}
      BY ZenonT(60), <3>2, AddedEntry
    <3>5. /\ OthersDyn(c, colour', promoted', fresh', stack, t)
          /\ CacheOK(c, colour', promoted', fresh', cache', active')
      BY <1>13, <2>1, <3>2, <3>4
    <3>6. StacksOK(c)'
      BY <1>7, <1>11, <1>14, <2>1, <3>5
    <3> QED BY <1>12, <3>3, <3>5, <3>6, StateParts
  <2>3. CASE ~(Len(f.reads) > 1)
    <3>1. fresh' = fresh
      BY <2>1, <2>3
    <3>2. GraphOK(c, colour', promoted', fresh')
      BY <1>1, <2>1, <3>1 DEF StateOK
    <3>3. /\ OthersDyn(c, colour', promoted', fresh', stack, t)
          /\ CacheOK(c, colour', promoted', fresh', cache', active')
      BY <1>13, <2>1, <3>1
    <3>4. StacksOK(c)'
      BY <1>7, <1>11, <1>14, <2>1, <3>3
    <3> QED BY <1>12, <3>2, <3>3, <3>4, StateParts
  <2> QED BY <2>2, <2>3
<1>15. CASE n \notin c.w.anon /\ n \in OldNodes(c)
  <2>1. /\ promoted' = Entered(promoted, n, f.reads, Fingerprint(n, f.val))
        /\ fresh' = fresh /\ Goto(t, "colour")
    BY <1>3, <1>4, <1>5, <1>10, <1>15 DEF Intern
  <2>2. n \in DOMAIN c.now.node /\ promoted' = Added(promoted, n, c.now.node[n])
    BY <1>5, <1>7, <1>15, <2>1 DEF Entered, Fingerprint
  <2>3. GraphOK(c, colour', promoted', fresh')
    BY <1>1, <1>15, <2>1, <2>2, GraphGrows DEF StateOK
  <2>4. DOMAIN promoted' = DOMAIN promoted \union {n}
    BY <2>2, AddedEntry
  <2>5. /\ OthersDyn(c, colour', promoted', fresh', stack, t)
        /\ CacheOK(c, colour', promoted', fresh', cache', active')
    BY <1>13, <2>1, <2>4
  <2>6. StacksOK(c)'
    BY <1>11, <1>15, <2>1, <2>4, <2>5
  <2> QED BY <1>12, <2>3, <2>5, <2>6, StateParts
<1>16. CASE n \notin c.w.anon /\ n \notin OldNodes(c)
  <2>1. /\ fresh' = Entered(fresh, n, f.reads, Fingerprint(n, f.val))
        /\ promoted' = promoted /\ Goto(t, "complete")
    BY <1>3, <1>4, <1>5, <1>10, <1>16 DEF Intern
  <2>2. n \in DOMAIN c.now.node /\ fresh' = Added(fresh, n, c.now.node[n])
    BY <1>5, <1>7, <1>16, <2>1 DEF Entered, Fingerprint
  <2>3. GraphOK(c, colour', promoted', fresh')
    BY <1>1, <1>16, <2>1, <2>2, GraphGrows DEF StateOK
  <2>4. DOMAIN fresh' = DOMAIN fresh \union {n}
    BY <2>2, AddedEntry
  <2>5. /\ OthersDyn(c, colour', promoted', fresh', stack, t)
        /\ CacheOK(c, colour', promoted', fresh', cache', active')
    BY <1>13, <2>1, <2>4
  <2>6. StacksOK(c)'
    BY <1>11, <1>16, <2>1, <2>5
  <2> QED BY <1>12, <2>3, <2>5, <2>6, StateParts
<1> QED BY <1>14, <1>15, <1>16

(* What the new colour of an executed query says. *)
LEMMA ExecutedColour ==
    ASSUME NEW c, InContext(c), NEW n \in c.now.needed, n \in OldNodes(c), MustRun(c, n)
    PROVE  LET k == NewColour(n, c.now.value[n])
           IN  /\ k \in {"red", "green"}
               /\ k = "green" => Stable(c, n) /\ (Clean(c, n) => n \in Greens(c))
               /\ k = "red" => /\ n \in Queries /\ ~Unchanged(c, n)
                               /\ Clean(c, n) => n \notin Greens(c)
<1>1. /\ Context(c) /\ world = c.w /\ prev.node[n] = c.old.node[n]
      /\ IsSession(c.w, c.before, c.old)
  BY PrevContext DEF Context
<1>2. n \in Queries /\ n \in c.old.needed /\ n \notin c.w.anon
  BY <1>1, NeededOldNode
<1>3. Direct(c.w, c.old, n)
  BY <1>2 DEF Direct
<1>4. c.old.nodeOf[n] = n /\ c.old.node[c.old.nodeOf[n]] = NodeRecord(c.w, c.old, n)
  BY <1>1, <1>2, <1>3, DirectNode
<1>5. n \notin c.w.nohash => prev.node[n].fp = c.old.value[n]
  BY <1>1, <1>2, <1>4 DEF NodeRecord
<1>6. PICK k : k = NewColour(n, c.now.value[n])
  OBVIOUS
<1>7. k = IF Unchanged(c, n) THEN "green" ELSE "red"
  BY <1>1, <1>2, <1>5, <1>6 DEF NewColour, Unchanged
<1>8. Unchanged(c, n) => Stable(c, n)
  BY <1>1, <1>2, StableQuery DEF Unchanged, OldNodes
<1>9. n \in Greens(c) <=> GreenBy(c, n, Greens(c))
  BY GreensFixpoint
<1>10. Unchanged(c, n) => n \in Greens(c)
  BY <1>9 DEF GreenBy
<1>11. ~Unchanged(c, n) /\ Clean(c, n) => n \notin Greens(c)
  BY <1>9 DEF GreenBy, MustRun, Markable
<1> QED BY <1>2, <1>6, <1>7, <1>8, <1>10, <1>11

LEMMA ColourOK ==
    ASSUME NEW c, InContext(c), StateOK(c), NEW t \in Threads, Colour(t)
    PROVE  StateOK(c)'
<1>1. /\ At(t, {"colour"}) /\ Context(c) /\ UNCHANGED <<promoted, fresh, effects, jobs>>
  BY DEF Colour, InContext
<1>2. /\ stack[t] # << >> /\ Top(t) = stack[t][Len(stack[t])] /\ Top(t) \in Frames(c)
      /\ Top(t) \in FrameType(c)
      /\ Top(t).pc \in {"colour"} /\ FrameDyn(c, colour, promoted, fresh, Top(t))
  BY <1>1, TopFrame
<1>3. PICK f \in Frames(c) : f = Top(t)
  BY <1>2
<1>4. PICK n : n = f.n
  OBVIOUS
<1>5. f.pc = "colour" /\ ~f.green /\ QueryFrame(c, f) /\ RunFrame(c, f)
  BY <1>2, <1>3 DEF Frames, QueryLabels, CalledLabels, JobLabels
<1>6. /\ n \in c.now.needed /\ n \in OldNodes(c) /\ MustRun(c, n) /\ f.val = c.now.value[n]
      /\ n \in DOMAIN promoted /\ (Clean(c, n) => colour[n] = "none")
  BY <1>2, <1>3, <1>4, <1>5 DEF QueryFrame, RunFrame, FrameDyn
<1>7. colour \in [OldNodes(c) -> {"none", "red", "green"}]
  BY DEF StateOK, GraphOK
<1>8. CASE colour[n] # "none"
  <2>1. /\ failure' = [why |-> "duplicate color", n |-> n]
        /\ UNCHANGED <<todo, left>> /\ UNCHANGED <<colour, stack>>
    BY <1>3, <1>4, <1>8 DEF Colour, Fail
  <2>2. ~Clean(c, n)
    BY <1>6, <1>8
  <2>3. ControlOK(c, todo', left', failure')
    BY <2>1, <2>2 DEF StateOK, ControlOK
  <2> QED BY <1>1, <2>1, <2>3 DEF StateOK, effects, jobs
<1>9. CASE colour[n] = "none"
  <2>1. PICK k : k = NewColour(n, c.now.value[n])
    OBVIOUS
  <2>2. /\ k \in {"red", "green"}
        /\ k = "green" => Stable(c, n) /\ (Clean(c, n) => n \in Greens(c))
        /\ k = "red" => n \in Queries /\ ~Unchanged(c, n) /\ (Clean(c, n) => n \notin Greens(c))
    BY <1>6, <2>1, ExecutedColour
  <2>3. PICK g : g = [f EXCEPT !.pc = "complete"]
    OBVIOUS
  <2>4. /\ colour' = [colour EXCEPT ![n] = k] /\ Continue(t, g) /\ UNCHANGED control
    BY <1>3, <1>4, <1>6, <1>9, <2>1, <2>3 DEF Colour, Goto, NoFailure
  <2>5. /\ colour' \in [OldNodes(c) -> {"none", "red", "green"}]
        /\ colour'[n] = k /\ \A x \in OldNodes(c) : x # n => colour'[x] = colour[x]
    BY <1>6, <1>7, <2>2, <2>4
  <2>6. GraphOK(c, colour', promoted', fresh')
    <3>1. ASSUME NEW x \in OldNodes(c)
          PROVE  /\ colour'[x] = "green" => Stable(c, x) /\ (Clean(c, x) => x \in Greens(c))
                 /\ colour'[x] = "red" => /\ x \in Queries /\ ~Unchanged(c, x) /\ x \in c.now.needed
                                          /\ Clean(c, x) => x \notin Greens(c)
                 /\ colour'[x] # "none" => x \in DOMAIN promoted
      <4>1. CASE x = n
        BY <1>6, <2>2, <2>5, <4>1
      <4>2. CASE x # n
        BY <2>5, <4>2 DEF StateOK, GraphOK
      <4> QED BY <4>1, <4>2
    <3> QED BY <1>1, <2>5, <3>1 DEF StateOK, GraphOK
  <2>7. \A x \in OldNodes(c) : /\ colour[x] = "green" => colour'[x] = "green"
                               /\ colour[x] # "none" => colour'[x] = colour[x] /\ colour'[x] # "none"
    BY <1>9, <2>5
  <2>8. CacheOK(c, colour', promoted', fresh', cache', active')
    BY <1>1, <2>7 DEF StateOK, CacheOK, jobs
  <2>9. RestOK(c)'
    BY <1>1, <2>4, <2>6, <2>8 DEF StateOK, RestOK, effects, jobs, control
  <2>10. "complete" \in Labels
    BY DEF Labels
  <2>11. /\ g \in FrameType(c) /\ g.pc = "complete" /\ g.n = n /\ g.val = f.val
         /\ g.reads = f.reads /\ g.green = f.green
    BY <1>2, <1>3, <1>4, <2>3, <2>10 DEF FrameType
  <2>12. g \in Frames(c)
    <3>1. QueryFrame(c, g) /\ RunFrame(c, g)
      BY <1>4, <1>5, <1>6, <2>11 DEF QueryFrame, RunFrame
    <3> QED BY <1>5, <2>11, <3>1 DEF Frames, MarkLabels
  <2>13. FrameDyn(c, colour', promoted', fresh', g) /\ TopOK(c, colour', g)
    BY <1>5, <2>2, <2>5, <2>11 DEF FrameDyn, TopOK, MarkLabels
  <2>14. Replaces(g, f) /\ IsJob(g) /\ IsJob(f)
    BY <1>4, <1>5, <2>11 DEF Replaces, IsJob, JobLabels, CalledLabels, MarkLabels
  <2>15. ASSUME NEW h \in Frames(c), FrameDyn(c, colour, promoted, fresh, h),
                IsJob(h) /\ IsJob(f) => h.n # n
         PROVE  FrameDyn(c, colour', promoted, fresh, h)
    <3>1. ASSUME h.pc \in MarkLabels, NEW j \in 1..(h.i - 1)
          PROVE  colour'[OldDeps(c, h.n)[j]] = "green"
      <4>1. h.n \in OldNodes(c) /\ h.i \in Nat \ {0} /\ h.i <= Len(OldDeps(c, h.n)) + 1
        BY <3>1 DEF Frames, MarkFrame, FrameType
      <4>2. j \in 1..Len(OldDeps(c, h.n))
        BY <1>1, <4>1, OldDepsTypes
      <4>3. OldDeps(c, h.n)[j] \in OldNodes(c)
        BY <1>1, <4>1, <4>2, OldDepsTypes
      <4>4. colour[OldDeps(c, h.n)[j]] = "green"
        BY <2>15, <3>1 DEF FrameDyn
      <4> QED BY <2>7, <4>3, <4>4
    <3>2. ASSUME h.green PROVE colour'[h.n] = "green"
      <4>1. h.n \in OldNodes(c)
        BY <3>2 DEF Frames
      <4> QED BY <2>7, <2>15, <3>2, <4>1 DEF FrameDyn
    <3>3. ASSUME h.pc = "colour", Clean(c, h.n) PROVE colour'[h.n] = "none"
      <4>1. RunFrame(c, h) /\ IsJob(h)
        BY <3>3 DEF Frames, IsJob, JobLabels
      <4>2. h.n \in OldNodes(c) /\ h.n # n
        BY <2>14, <2>15, <3>3, <4>1 DEF RunFrame
      <4>3. colour[h.n] = "none"
        BY <2>15, <3>3 DEF FrameDyn
      <4> QED BY <2>5, <4>2, <4>3
    <3>4. h.pc = "complete" /\ h.n \in OldNodes(c) => colour'[h.n] # "none"
      BY <2>7, <2>15 DEF FrameDyn
    <3> QED BY <2>15, <3>1, <3>2, <3>3, <3>4 DEF FrameDyn
  <2>16. ASSUME NEW h \in Frames(c), TopOK(c, colour, h)
         PROVE  TopOK(c, colour', h)
    <3>1. ASSUME h.pc \in {"tried", "forced"} PROVE OldDeps(c, h.n)[h.i] \in OldNodes(c)
      <4>1. h.n \in OldNodes(c) /\ h.i \in Nat \ {0} /\ h.i <= Len(OldDeps(c, h.n))
        BY <3>1 DEF Frames, MarkFrame, FrameType, MarkLabels
      <4>2. h.i \in 1..Len(OldDeps(c, h.n))
        BY <1>1, <4>1, OldDepsTypes
      <4> QED BY <1>1, <4>1, <4>2, OldDepsTypes
    <3> QED BY <2>7, <2>16, <3>1 DEF TopOK
  <2>17. OthersDyn(c, colour', promoted', fresh', stack, t)
    BY <1>1, <1>2, <1>3, <1>4, <2>15, <2>16, OthersChange DEF StateOK
  <2>18. StacksOK(c)'
    BY <1>1, <1>2, <1>3, <2>4, <2>12, <2>13, <2>14, <2>17, ContinueChange DEF jobs
  <2> QED BY <2>9, <2>18, StateParts
<1> QED BY <1>8, <1>9

LEMMA CompleteOK ==
    ASSUME NEW c, InContext(c), StateOK(c), NEW t \in Threads, Complete(t)
    PROVE  StateOK(c)'
<1>1. /\ At(t, {"complete"}) /\ Context(c) /\ UNCHANGED <<graph, processed, emitted>>
  BY DEF Complete, InContext
<1>2. /\ stack[t] # << >> /\ Top(t) = stack[t][Len(stack[t])] /\ Top(t) \in Frames(c)
      /\ Top(t) \in FrameType(c)
      /\ Top(t).pc \in {"complete"} /\ FrameDyn(c, colour, promoted, fresh, Top(t))
  BY <1>1, TopFrame
<1>3. PICK f \in Frames(c) : f = Top(t)
  BY <1>2
<1>4. PICK n : n = f.n
  OBVIOUS
<1>5. f.pc = "complete" /\ QueryFrame(c, f) /\ RunFrame(c, f) /\ (f.green => n \in OldNodes(c))
  BY <1>2, <1>3, <1>4 DEF Frames, QueryLabels, CalledLabels, JobLabels
<1>6. /\ n \in c.now.needed /\ (~f.green /\ n \in OldNodes(c) => MustRun(c, n))
      /\ f.val = c.now.value[n]
      /\ n \in OldNodes(c) => colour[n] # "none"
  BY <1>2, <1>3, <1>4, <1>5 DEF QueryFrame, RunFrame, FrameDyn
<1>7. IsJob(f) /\ n \in active /\ n \notin DOMAIN cache
  <2>1. IsJob(f)
    BY <1>5 DEF IsJob, JobLabels
  <2> QED BY <1>2, <1>3, <1>4, <2>1, TopJob
<1>8. world = c.w
  BY PrevContext
<1>9. PICK m : m = IF n \in c.w.anon THEN AnonNode(f.reads) ELSE n
  OBVIOUS
<1>10. m = c.now.nodeOf[n]
  <2>1. CASE f.green
    <3>1. n \in OldNodes(c) /\ n \notin c.w.anon
      BY <1>1, <1>5, <1>6, <2>1, NeededOldNode
    <3>2. IsSession(c.w, c.inp, c.now) /\ Direct(c.w, c.now, n)
      BY <1>1, <3>1 DEF Context, Direct
    <3>3. c.now.nodeOf[n] = n
      BY <1>6, <3>1, <3>2, DirectNode
    <3> QED BY <1>9, <3>1, <3>3
  <2>2. CASE ~f.green
    BY <1>1, <1>4, <1>5, <1>9, <2>2, RecordedNode
  <2> QED BY <2>1, <2>2
<1>11. CASE ~f.green /\ n \in c.w.warns \intersect stored
  <2>1. /\ failure' = [why |-> "side effects stored twice", n |-> n]
        /\ UNCHANGED <<todo, left>> /\ UNCHANGED <<stored, cache, active, stack>>
    BY <1>3, <1>4, <1>8, <1>11 DEF Complete, Fail
  <2>2. n \in processed
    BY <1>7, <1>11 DEF StateOK, EffectsOK
  <2>3. n \in OldNodes(c) /\ n \notin c.w.inputs /\ (Clean(c, n) => Markable(c, n))
    BY <2>2 DEF StateOK, EffectsOK
  <2>4. ~Clean(c, n)
    BY <1>6, <1>11, <2>3 DEF MustRun
  <2>5. ControlOK(c, todo', left', failure')
    BY <2>1, <2>4 DEF StateOK, ControlOK
  <2> QED BY <1>1, <2>1, <2>5 DEF StateOK, graph
<1>12. CASE ~(~f.green /\ n \in c.w.warns \intersect stored)
  <2>1. PICK e : e = [val |-> f.val, node |-> m]
    OBVIOUS
  <2>2. /\ stored' = IF f.green THEN stored ELSE stored \union ({n} \intersect c.w.warns)
        /\ cache' = Added(cache, n, e) /\ active' = active \ {n}
        /\ Return(t, TRUE) /\ UNCHANGED control
    BY <1>3, <1>4, <1>8, <1>9, <1>12, <2>1 DEF Complete, NoFailure
  <2>3. /\ DOMAIN cache' = DOMAIN cache \union {n}
        /\ \A x \in DOMAIN cache : cache'[x] = cache[x]
        /\ cache'[n] = e
    BY <1>7, <2>2 DEF Added
  <2>4. e.val = c.now.value[n] /\ e.node = c.now.nodeOf[n]
    BY <1>6, <1>10, <2>1
  <2>5. CacheOK(c, colour, promoted, fresh, cache', active')
    <3>1. CacheOK(c, colour, promoted, fresh, cache, active)
      BY DEF StateOK
    <3>2. ASSUME NEW q \in DOMAIN cache'
          PROVE  /\ cache'[q].val = c.now.value[q] /\ cache'[q].node = c.now.nodeOf[q]
                 /\ q \in OldNodes(c) => colour[q] # "none"
      <4>1. CASE q = n
        BY <1>6, <2>3, <2>4, <4>1
      <4>2. CASE q \in DOMAIN cache
        BY <2>3, <3>1, <4>2 DEF CacheOK
      <4> QED BY <2>3, <4>1, <4>2
    <3>3. DOMAIN cache \union active \subseteq DOMAIN cache' \union active'
      BY <2>2, <2>3
    <3>4. /\ DOMAIN cache' \subseteq c.now.needed /\ active' \subseteq c.now.needed
          /\ active' \intersect DOMAIN cache' = {}
      BY <1>6, <2>2, <2>3, <3>1 DEF CacheOK
    <3> QED BY <3>1, <3>2, <3>3, <3>4 DEF CacheOK
  <2>6. EffectsOK(c, processed, stored', emitted, cache')
    <3>1. EffectsOK(c, processed, stored, emitted, cache)
      BY DEF StateOK
    <3>2. ASSUME NEW x \in stored' \ processed
          PROVE  x \in DOMAIN cache' /\ (x \in OldNodes(c) => MustRun(c, x))
      <4>1. CASE x \in stored
        BY <2>3, <3>1, <4>1 DEF EffectsOK
      <4>2. CASE x \notin stored
        <5>1. x = n /\ ~f.green
          BY <2>2, <4>2
        <5> QED BY <1>6, <2>3, <5>1
      <4> QED BY <4>1, <4>2
    <3>3. stored' \subseteq c.w.warns
      BY <2>2, <3>1 DEF EffectsOK
    <3> QED BY <3>1, <3>2, <3>3 DEF EffectsOK
  <2>7. RestOK(c)'
    BY <1>1, <2>2, <2>5, <2>6 DEF StateOK, RestOK, graph, control
  <2>8. \A b \in Frames(c) : Linked(c, b, f) => TopOK(c, colour, [b EXCEPT !.ok = TRUE])
    <3>1. f.pc \in CalledLabels
      BY <1>5 DEF CalledLabels, JobLabels
    <3> QED BY <1>1, <1>4, <1>6, <3>1, QueryAnswers
  <2>9. /\ StackOK(c, stack) /\ StackDyn(c, colour, promoted, fresh, stack)
        /\ JobsOK(active, stack) /\ TRUE \in BOOLEAN
    BY DEF StateOK
  <2>10. Changes(stack, stack', t, Popped(stack[t], TRUE))
    BY <2>2, <2>9, ReturnChanges
  <2>11. OthersDyn(c, colour, promoted, fresh, stack, t)
    BY <2>9, SameGraph
  <2>12. StackOK(c, stack') /\ StackDyn(c, colour, promoted, fresh, stack')
    BY <1>2, <1>3, <2>8, <2>9, <2>10, <2>11, ReturnStack
  <2>13. JobsOK(active \ {n}, stack')
    BY <1>2, <1>3, <1>4, <1>7, <2>9, <2>10, ReturnJobs
  <2>14. StacksOK(c)'
    BY <1>1, <2>2, <2>12, <2>13 DEF StacksOK, graph
  <2> QED BY <2>7, <2>14, StateParts
<1> QED BY <1>11, <1>12

-----------------------------------------------------------------------------
(* The invariant holds initially and is kept *)

LEMMA FixedKept ==
    ASSUME NEW t \in Threads, ThreadStep(t)
    PROVE  UNCHANGED fixed
<1>1. Begin(t) => UNCHANGED fixed
  BY DEF Begin
<1>2. DepGreen(t) \/ DepRed(t) \/ DepUnknown(t) => UNCHANGED fixed
  BY DEF DepGreen, DepRed, DepUnknown, AtDep
<1>3. DepMarked(t) \/ TryForce(t) => UNCHANGED fixed
  BY DEF DepMarked, TryForce
<1>4. Promote(t) \/ EmitSideEffects(t) \/ MarkGreen(t) => UNCHANGED fixed
  BY DEF Promote, EmitSideEffects, MarkGreen
<1>5. Ensure(t) \/ Ensured(t) \/ CacheHit(t) \/ StartJob(t) => UNCHANGED fixed
  BY DEF Ensure, Ensured, CacheHit, StartJob
<1>6. TryLoad(t) \/ LoadGreen(t) \/ StartTask(t) \/ Ask(t) \/ Read(t) => UNCHANGED fixed
  BY DEF TryLoad, LoadGreen, StartTask, Ask, Read
<1>7. Finish(t) \/ Intern(t) \/ Colour(t) \/ Complete(t) => UNCHANGED fixed
  BY DEF Finish, Intern, Colour, Complete
<1> QED BY <1>1, <1>2, <1>3, <1>4, <1>5, <1>6, <1>7 DEF ThreadStep

LEMMA ThreadStepOK ==
    ASSUME NEW c, InContext(c), StateOK(c), NEW t \in Threads, ThreadStep(t)
    PROVE  StateOK(c)'
<1>1. CASE Begin(t)           BY <1>1, BeginOK
<1>2. CASE DepGreen(t)        BY <1>2, DepGreenOK
<1>3. CASE DepRed(t)          BY <1>3, DepRedOK
<1>4. CASE DepUnknown(t)      BY <1>4, DepUnknownOK
<1>5. CASE DepMarked(t)       BY <1>5, DepMarkedOK
<1>6. CASE TryForce(t)        BY <1>6, TryForceOK
<1>7. CASE Promote(t)         BY <1>7, PromoteOK
<1>8. CASE EmitSideEffects(t) BY <1>8, EmitSideEffectsOK
<1>9. CASE MarkGreen(t)       BY <1>9, MarkGreenOK
<1>10. CASE Ensure(t)         BY <1>10, EnsureOK
<1>11. CASE Ensured(t)        BY <1>11, EnsuredOK
<1>12. CASE CacheHit(t)       BY <1>12, CacheHitOK
<1>13. CASE StartJob(t)       BY <1>13, StartJobOK
<1>14. CASE TryLoad(t)        BY <1>14, TryLoadOK
<1>15. CASE LoadGreen(t)      BY <1>15, LoadGreenOK
<1>16. CASE StartTask(t)      BY <1>16, StartTaskOK
<1>17. CASE Ask(t)            BY <1>17, AskOK
<1>18. CASE Read(t)           BY <1>18, ReadOK
<1>19. CASE Finish(t)         BY <1>19, FinishOK
<1>20. CASE Intern(t)         BY <1>20, InternOK
<1>21. CASE Colour(t)         BY <1>21, ColourOK
<1>22. CASE Complete(t)       BY <1>22, CompleteOK
<1> QED BY <1>1, <1>2, <1>3, <1>4, <1>5, <1>6, <1>7, <1>8, <1>9, <1>10, <1>11, <1>12,
           <1>13, <1>14, <1>15, <1>16, <1>17, <1>18, <1>19, <1>20, <1>21, <1>22 DEF ThreadStep

LEMMA ContextKept ==
    ASSUME NEW c, InContext(c), UNCHANGED fixed
    PROVE  InContext(c)'
BY DEF InContext, fixed

LEMMA InvStep == Inv /\ [Next]_vars => Inv'
<1> SUFFICES ASSUME Inv, [Next]_vars PROVE Inv'
  OBVIOUS
<1>1. PICK c : InContext(c) /\ StateOK(c)
  BY DEF Inv
<1>2. ASSUME UNCHANGED vars PROVE InContext(c)' /\ StateOK(c)'
  <2>1. UNCHANGED fixed
    BY <1>2 DEF vars
  <2>2. StateOK(c)'
    BY <1>1, <1>2 DEF StateOK, vars, graph, effects, jobs, control
  <2> QED BY <1>1, <2>1, <2>2, ContextKept
<1>3. ASSUME NEW t \in Threads, ThreadStep(t) PROVE InContext(c)' /\ StateOK(c)'
  BY <1>1, <1>3, FixedKept, ContextKept, ThreadStepOK
<1>4. ASSUME CachePromotion PROVE InContext(c)' /\ StateOK(c)'
  <2>1. UNCHANGED fixed
    BY <1>4 DEF CachePromotion
  <2> QED BY <1>1, <1>4, <2>1, ContextKept, CachePromotionOK
<1>5. InContext(c)' /\ StateOK(c)'
  BY <1>2, <1>3, <1>4 DEF Next, Ended
<1> QED BY <1>5 DEF Inv

LEMMA SeqNarrows ==
    ASSUME NEW A, NEW B, NEW s \in Seq(A), \A x \in A : x \in ToSet(s) => x \in B
    PROVE  s \in Seq(B)
<1>1. \A i \in 1..Len(s) : s[i] \in A /\ s[i] \in ToSet(s)
  BY DEF ToSet
<1>2. \A i \in 1..Len(s) : s[i] \in B
  BY <1>1
<1> QED BY <1>2

(* SetToSeq enumerates a finite set. *)
LEMMA EnumeratesSet ==
    ASSUME NEW S, IsFiniteSet(S)
    PROVE  SetToSeq(S) \in Seq(S)
<1>1. Cardinality(S) \in Nat /\ ExistsBijection(1..Cardinality(S), S)
  BY FS_CardinalityType
<1>2. \E f \in [1..Cardinality(S) -> S] : IsInjective(f)
  BY <1>1 DEF ExistsBijection, Bijection, Injection
<1>3. SetToSeq(S) \in [1..Cardinality(S) -> S]
  BY <1>2 DEF SetToSeq
<1> QED BY <1>1, <1>3

LEMMA NodesFinite ==
    ASSUME NEW w, NEW inp, NEW s, IsSession(w, inp, s)
    PROVE  IsFiniteSet(DOMAIN s.node)
<1>1. s.needed \subseteq Queries /\ IsFiniteSet(Queries)
  BY SessionReads, GraphAssumption
<1>2. IsFiniteSet(s.needed)
  BY <1>1, FS_Subset
<1>3. PICK N : N = DOMAIN s.node
  OBVIOUS
<1>4. PICK f : f = [q \in s.needed |-> s.nodeOf[q]]
  OBVIOUS
<1>5. \A q \in s.needed : s.nodeOf[q] \in N
  BY <1>3, NodeOfIsNode DEF NodesOf
<1>6. \A n \in N : \E q \in s.needed : s.nodeOf[q] = n
  BY <1>3, NodeHasQuery
<1>7. f \in Surjection(s.needed, N)
  BY <1>4, <1>5, <1>6 DEF Surjection
<1> QED BY <1>2, <1>3, <1>7, FS_Surjection

LEMMA InvInit == Init => Inv
<1> SUFFICES ASSUME Init PROVE Inv
  OBVIOUS
<1>1. world \in Worlds /\ input \in [world.inputs -> Values] /\ scratch = Session(world, input)
  BY DEF Init
<1>2. PICK before \in [world.inputs -> Values] :
          prev = [node   |-> Session(world, before).node,
                  value  |-> Session(world, before).value,
                  warned |-> Session(world, before).needed \intersect world.warns]
  BY DEF Init
<1>3. PICK old : old = Session(world, before)
  OBVIOUS
<1>4. IsSession(world, input, scratch) /\ IsSession(world, before, old)
  BY <1>1, <1>2, <1>3, EvaluationAssumption
<1>5. PICK c : c = [w |-> world, inp |-> input, before |-> before, now |-> scratch, old |-> old]
  OBVIOUS
<1>6. c.w = world /\ c.inp = input /\ c.before = before /\ c.now = scratch /\ c.old = old
  BY <1>5
<1>7. Context(c)
  BY <1>1, <1>4, <1>6 DEF Context
<1>8. /\ prev.node = c.old.node /\ prev.value = c.old.value
      /\ prev.warned = c.old.needed \intersect c.w.warns
  BY <1>2, <1>3, <1>6
<1>9. InContext(c)
  BY <1>6, <1>7, <1>8 DEF InContext
<1>10. /\ DOMAIN promoted = {} /\ DOMAIN fresh = {} /\ DOMAIN cache = {} /\ active = {}
       /\ processed = {} /\ stored = {} /\ emitted = {}
  <2>1. /\ promoted = << >> /\ fresh = << >> /\ cache = << >> /\ active = {}
        /\ processed = {} /\ stored = {} /\ emitted = {}
    BY DEF Init
  <2>2. DOMAIN << >> = {}
    OBVIOUS
  <2> QED BY <2>1, <2>2
<1>11. \A t \in Threads : stack[t] = << >> /\ Len(stack[t]) = 0
  <2>1. stack = [t \in Threads |-> << >>]
    BY DEF Init
  <2> QED BY <2>1
<1>12. StackOK(c, stack)
  <2>1. PICK F : F = Frames(c)
    OBVIOUS
  <2>2. stack \in [Threads -> Seq(F)]
    <3>1. stack = [t \in Threads |-> << >>]
      BY DEF Init
    <3>2. << >> \in Seq(F)
      OBVIOUS
    <3> QED BY <3>1, <3>2
  <2>3. \A t \in Threads : 1..(Len(stack[t]) - 1) = {}
    BY <1>11
  <2> QED BY <2>1, <2>2, <2>3 DEF StackOK
<1>13. \A t \in Threads : 1..Len(stack[t]) = {}
  BY <1>11
<1>14. StackDyn(c, colour, promoted, fresh, stack) /\ JobsOK(active, stack)
  BY <1>10, <1>11, <1>13 DEF StackDyn, JobsOK
<1>15. GraphOK(c, colour, promoted, fresh)
  <2>1. colour = [n \in OldNodes(c) |-> "none"]
    BY <1>8 DEF Init, OldNodes
  <2> QED BY <1>10, <2>1 DEF GraphOK
<1>16. CacheOK(c, colour, promoted, fresh, cache, active)
  BY <1>10 DEF CacheOK
<1>17. EffectsOK(c, processed, stored, emitted, cache)
  BY <1>10 DEF EffectsOK
<1>18. ControlOK(c, todo, left, failure)
  <2>1. todo \in [Threads -> Seq([q : c.now.needed, ensure : BOOLEAN])]
    <3>1. todo = world.roots /\ todo \in [Threads -> Seq([q : Queries, ensure : BOOLEAN])]
      BY <1>1, GraphAssumption DEF Init
    <3>2. \A t \in Threads : \A r \in ToSet(world.roots[t]) : r.q \in scratch.needed
      BY <1>4, Zenon DEF IsSession
    <3>3. ASSUME NEW t \in Threads
          PROVE  todo[t] \in Seq([q : c.now.needed, ensure : BOOLEAN])
      <4>1. todo[t] \in Seq([q : Queries, ensure : BOOLEAN])
        BY <3>1
      <4>2. PICK A : A = [q : Queries, ensure : BOOLEAN]
        OBVIOUS
      <4>3. PICK B : B = [q : c.now.needed, ensure : BOOLEAN]
        OBVIOUS
      <4>4. \A x \in A : x \in ToSet(todo[t]) => x \in B
        BY <1>6, <3>1, <3>2, <4>2, <4>3
      <4>5. todo[t] \in Seq(B)
        BY <4>1, <4>2, <4>4, SeqNarrows
      <4> QED BY <4>3, <4>5
    <3>4. DOMAIN todo = Threads
      BY <3>1
    <3>5. todo = [t \in Threads |-> todo[t]]
      BY <3>1
    <3> QED BY <3>3, <3>5
  <2>2. left \in Seq(OldNodes(c))
    <3>1. left = SetToSeq(OldNodes(c)) /\ IsFiniteSet(OldNodes(c))
      BY <1>4, <1>6, <1>8, NodesFinite DEF Init, OldNodes
    <3> QED BY <3>1, EnumeratesSet
  <2>3. failure.why = ""
    BY DEF Init
  <2> QED BY <2>1, <2>2, <2>3 DEF ControlOK
<1>19. StateOK(c)
  BY <1>12, <1>14, <1>15, <1>16, <1>17, <1>18 DEF StateOK
<1> QED BY <1>9, <1>19 DEF Inv

-----------------------------------------------------------------------------
(* The theorems *)

(* Every state of a session is consistent with a build from scratch on the  *)
(* same inputs: what a thread marks, forces, executes or waits for is       *)
(* needed there, and what it has recorded so far is a part of it.           *)
THEOREM SessionInvariant == Spec => []Inv
BY InvInit, InvStep, PTL DEF Spec

LEMMA JobsCounted ==
    ASSUME NEW c, StackOK(c, stack), JobsOK(active, stack), NEW q
    PROVE  Cardinality({t \in Threads : \E i \in DOMAIN stack[t] :
                          stack[t][i].n = q /\ stack[t][i].pc \in JobLabels})
              = IF q \in active THEN 1 ELSE 0
<1>1. \A t \in Threads : DOMAIN stack[t] = 1..Len(stack[t])
  <2>1. PICK F : F = Frames(c)
    OBVIOUS
  <2>2. \A t \in Threads : stack[t] \in Seq(F)
    BY <2>1 DEF StackOK
  <2> QED BY <2>2
<1>2. PICK T : T = {t \in Threads : \E i \in DOMAIN stack[t] :
                       stack[t][i].n = q /\ stack[t][i].pc \in JobLabels}
  OBVIOUS
<1>3. \A t : t \in T <=> t \in Threads /\ \E i \in 1..Len(stack[t]) :
                            stack[t][i].n = q /\ stack[t][i].pc \in JobLabels
  BY <1>1, <1>2
<1>4. CASE q \in active
  <2>1. PICK t \in Threads : \E i \in 1..Len(stack[t]) :
                                stack[t][i].pc \in JobLabels /\ stack[t][i].n = q
    BY <1>4 DEF JobsOK
  <2>2. \A u \in T : u = t
    BY <1>3, <2>1 DEF JobsOK
  <2>3. T = {t}
    BY <1>3, <2>1, <2>2
  <2>4. Cardinality(T) = 1
    BY <2>3, FS_Singleton
  <2> QED BY <1>2, <1>4, <2>4
<1>5. CASE q \notin active
  <2>1. T = {}
    BY <1>3, <1>5 DEF JobsOK
  <2>2. Cardinality(T) = 0
    BY <2>1, FS_EmptySet
  <2> QED BY <1>2, <1>5, <2>2
<1> QED BY <1>4, <1>5

LEMMA InvType == Inv => TypeOK
<1> SUFFICES ASSUME Inv PROVE TypeOK
  OBVIOUS
<1>1. PICK c : InContext(c) /\ StateOK(c)
  BY DEF Inv
<1>2. DOMAIN prev.node = OldNodes(c) /\ world = c.w
  BY <1>1 DEF InContext, OldNodes
<1>3. /\ colour \in [OldNodes(c) -> {"none", "red", "green"}]
      /\ DOMAIN promoted \subseteq OldNodes(c)
      /\ \A n \in DOMAIN fresh : n \in Queries => n \notin OldNodes(c)
      /\ \A n \in OldNodes(c) : colour[n] # "none" => n \in DOMAIN promoted
  BY <1>1 DEF StateOK, GraphOK
<1>4. DOMAIN colour = OldNodes(c)
  BY <1>3
<1>5. processed \union stored \union emitted \subseteq world.warns
  BY <1>1, <1>2 DEF StateOK, EffectsOK
<1>6. StackOK(c, stack) /\ JobsOK(active, stack) /\ active \intersect DOMAIN cache = {}
  BY <1>1 DEF StateOK, CacheOK
<1>7. ASSUME NEW t \in Threads, NEW i \in DOMAIN stack[t] PROVE stack[t][i].pc \in Labels
  <2>1. PICK F : F = Frames(c)
    OBVIOUS
  <2>2. stack[t] \in Seq(F)
    BY <1>6, <2>1 DEF StackOK
  <2>3. stack[t][i] \in F
    BY <2>2
  <2>4. stack[t][i] \in FrameType(c)
    BY <2>1, <2>3 DEF Frames
  <2> QED BY <2>4 DEF FrameType
<1>8. \A q \in Queries :
         Cardinality({t \in Threads : \E i \in DOMAIN stack[t] :
                         stack[t][i].n = q /\ stack[t][i].pc \in JobLabels})
            = IF q \in active THEN 1 ELSE 0
  BY <1>6, JobsCounted
<1> QED BY <1>2, <1>3, <1>4, <1>5, <1>6, <1>7, <1>8 DEF TypeOK

(* A query is executed by exactly one thread and not after it was cached,   *)
(* and a coloured node has its index: the threads that force, mark and wait *)
(* for the same queries (try_execute_query) never share a job.              *)
THEOREM GraphTypes == Spec => []TypeOK
<1>1. Inv => TypeOK
  BY InvType
<1> QED BY <1>1, SessionInvariant, PTL

LEMMA InvResults == Inv => ResultsFromScratch
<1> SUFFICES ASSUME Inv PROVE ResultsFromScratch
  OBVIOUS
<1>1. PICK c : InContext(c) /\ StateOK(c)
  BY DEF Inv
<1>2. /\ Context(c) /\ world = c.w /\ scratch = c.now /\ prev.value = c.old.value
      /\ IsSession(c.w, c.inp, c.now)
  BY <1>1 DEF InContext, Context
<1>3. /\ \A q \in DOMAIN cache : cache[q].val = scratch.value[q]
      /\ \A n \in DOMAIN promoted : promoted[n] = scratch.node[n]
      /\ \A n \in DOMAIN fresh : fresh[n] = scratch.node[n]
  BY <1>1, <1>2 DEF StateOK, CacheOK, GraphOK
<1>4. GraphOK(c, colour, promoted, fresh) /\ DOMAIN colour = OldNodes(c)
  BY <1>1 DEF StateOK, GraphOK
<1>5. ASSUME NEW n \in DOMAIN colour \ world.nohash, n \in Queries, colour[n] # "none"
      PROVE  colour[n] = "green" <=> scratch.value[n] = prev.value[n]
  <2>1. n \in OldNodes(c) /\ n \in DOMAIN c.now.node /\ colour[n] \in {"red", "green"}
    BY <1>4, <1>5 DEF GraphOK
  <2>2. n \in c.now.needed
    BY <1>2, <1>5, <2>1, NodeHasQuery
  <2>3. n \in Both(c) /\ c.old.nodeOf[n] = n
    BY <1>2, <2>1, <2>2, NeededOldNode
  <2>4. ASSUME colour[n] = "green" PROVE c.now.value[n] = c.old.value[n]
    <3>1. Stable(c, n)
      BY <1>4, <2>1, <2>4 DEF GraphOK
    <3> QED BY <2>3, <3>1 DEF Stable, Same
  <2>5. ASSUME colour[n] = "red" PROVE c.now.value[n] # c.old.value[n]
    <3>1. ~Unchanged(c, n)
      BY <1>4, <2>1, <2>5 DEF GraphOK
    <3> QED BY <1>2, <1>5, <2>2, <3>1 DEF Unchanged
  <2> QED BY <1>2, <2>1, <2>4, <2>5
<1> QED BY <1>3, <1>5 DEF ResultsFromScratch

(* Whatever try_mark_green reuses, every result, edge and fingerprint is the *)
(* one of a build from scratch, and a hashed node is green exactly if its    *)
(* result did not change: for any number of threads, any queries and any     *)
(* two sets of inputs.                                                       *)
THEOREM ReuseIsSound == Spec => []ResultsFromScratch
<1>1. Inv => ResultsFromScratch
  BY InvResults
<1> QED BY <1>1, SessionInvariant, PTL

LEMMA InvNeeded == Inv => OnlyNeededRun
<1> SUFFICES ASSUME Inv PROVE OnlyNeededRun
  OBVIOUS
<1>1. PICK c : InContext(c) /\ StateOK(c)
  BY DEF Inv
<1>2. scratch = c.now
  BY <1>1 DEF InContext
<1>3. active \union DOMAIN cache \subseteq c.now.needed
  BY <1>1 DEF StateOK, CacheOK
<1>4. DOMAIN promoted \union DOMAIN fresh \subseteq DOMAIN c.now.node
  BY <1>1 DEF StateOK, GraphOK
<1> QED BY <1>2, <1>3, <1>4 DEF OnlyNeededRun

(* try_mark_parent_green forces, and promotion keeps, nothing that a build   *)
(* from scratch would not ask for: the order of the old edges guards the     *)
(* queries whose keys may be gone.                                           *)
THEOREM NothingUnneededRuns == Spec => []OnlyNeededRun
<1>1. Inv => OnlyNeededRun
  BY InvNeeded
<1> QED BY <1>1, SessionInvariant, PTL

LEMMA InvFailures == Inv => EngineNeverFails
<1> SUFFICES ASSUME Inv, failure.why # ""
             PROVE  /\ failure.why \in {"forcing query with existing node", "duplicate color",
                                        "side effects stored twice"}
                    /\ \E n \in Reaches(failure.n) : n \in world.unforceable
  BY DEF EngineNeverFails
<1>1. PICK c : InContext(c) /\ StateOK(c)
  BY DEF Inv
<1>2. prev.node = c.old.node /\ world = c.w
  BY <1>1 DEF InContext
<1>3. /\ failure.why \in {"forcing query with existing node", "duplicate color",
                          "side effects stored twice"}
      /\ ~Clean(c, failure.n)
  BY <1>1 DEF StateOK, ControlOK
<1>4. PICK k : k = failure.n
  OBVIOUS
<1>5. PICK m \in OldNodes(c) :
         /\ \A X \in SUBSET OldNodes(c) :
               (k \in X /\ \A x \in X : ToSet(c.old.node[x].edges) \subseteq X) => m \in X
         /\ m \in c.w.unforceable
  BY <1>3, <1>4 DEF Clean
<1>6. m \in Reaches(k)
  BY <1>2, <1>5 DEF Reaches, OldNodes
<1> QED BY <1>2, <1>3, <1>4, <1>5, <1>6

(* No assertion, unwrap or panic of the dependency graph fails, except the   *)
(* three that a query computed from a node whose key cannot be reconstructed *)
(* meets when another thread makes its node at the same time.                *)
THEOREM AssertionsHold == Spec => []EngineNeverFails
<1>1. Inv => EngineNeverFails
  BY InvFailures
<1> QED BY <1>1, SessionInvariant, PTL
=============================================================================
