----------------------- MODULE CodegenCoordinatorProofs -----------------------
(***************************************************************************)
(* Proofs about CodegenCoordinator, for every set of units, every pool of  *)
(* tokens and every set of command lines.                                  *)
(***************************************************************************)
EXTENDS CodegenCoordinator, FiniteSetTheorems, SequenceTheorems, TLAPS

(***************************************************************************)
(* Finiteness and cardinalities                                            *)
(***************************************************************************)
\* There are finitely many work items: they are pairs of an operation and a
\* set of units.
LEMMA WorkItemFinite == IsFiniteSet(WorkItem)
<1> DEFINE Ops == {"Optimize", "CopyPostLtoArtifacts", "LTO"}
           pair == [p \in Ops \X Module |-> Item(p[1], p[2])]
<1>1. IsFiniteSet(Ops)
  <2>1. IsFiniteSet({"Optimize"})
    BY FS_Singleton
  <2>2. IsFiniteSet({"Optimize"} \cup {"CopyPostLtoArtifacts"})
    BY <2>1, FS_AddElement
  <2>3. IsFiniteSet(({"Optimize"} \cup {"CopyPostLtoArtifacts"}) \cup {"LTO"})
    BY <2>2, FS_AddElement
  <2>4. Ops = ({"Optimize"} \cup {"CopyPostLtoArtifacts"}) \cup {"LTO"}
    OBVIOUS
  <2>. QED  BY <2>3, <2>4
<1>2. IsFiniteSet(AllUnits)
  <2>1. IsFiniteSet(Cgus \cup {Alloc})
    BY UnitsAssumption, FS_AddElement
  <2>. QED  BY <2>1, UnitsAssumption, FS_Union DEF AllUnits
<1>3. IsFiniteSet(Module)
  BY <1>2, FS_SUBSET DEF Module
<1>4. IsFiniteSet(Ops \X Module)
  BY <1>1, <1>3, FS_Product
<1>5. pair \in Surjection(Ops \X Module, WorkItem)
  <2>1. pair \in [Ops \X Module -> WorkItem]
    BY DEF Item, WorkItem
  <2>2. ASSUME NEW i \in WorkItem
        PROVE  \E p \in Ops \X Module : pair[p] = i
    <3>1. i.op \in Ops /\ i.mod \in Module /\ i = Item(i.op, i.mod)
      BY DEF WorkItem, Item
    <3>2. <<i.op, i.mod>> \in Ops \X Module
      BY <3>1
    <3>3. pair[<<i.op, i.mod>>] = i
      BY <3>1, <3>2
    <3>. QED  BY <3>2, <3>3
  <2>. QED  BY <2>1, <2>2 DEF Surjection
<1>. QED  BY <1>4, <1>5, FS_Surjection

\* The sets of items the threads hold are finite.
LEMMA ItemSetsFinite ==
  ASSUME TypeOK
  PROVE  /\ IsFiniteSet(workItems) /\ IsFiniteSet(running)
         /\ IsFiniteSet(finished)
         /\ Cardinality(workItems) \in Nat /\ Cardinality(running) \in Nat
         /\ Cardinality(finished) \in Nat
<1> DEFINE Reports == [item : WorkItem, res : Results]
           pair == [p \in WorkItem \X Results |-> [item |-> p[1], res |-> p[2]]]
<1>1. IsFiniteSet(Results)
  <2>1. IsFiniteSet({"Finished"})
    BY FS_Singleton
  <2>2. IsFiniteSet({"Finished"} \cup {"NeedsLink"})
    BY <2>1, FS_AddElement
  <2>3. IsFiniteSet(({"Finished"} \cup {"NeedsLink"}) \cup {"NeedsFatLto"})
    BY <2>2, FS_AddElement
  <2>4. IsFiniteSet((({"Finished"} \cup {"NeedsLink"}) \cup {"NeedsFatLto"})
                      \cup {"NeedsThinLto"})
    BY <2>3, FS_AddElement
  <2>5. IsFiniteSet({"FatalError"} \cup {"Panicked"})
    BY FS_Singleton, FS_AddElement
  <2>6. Results = ((({"Finished"} \cup {"NeedsLink"}) \cup {"NeedsFatLto"})
                      \cup {"NeedsThinLto"}) \cup ({"FatalError"} \cup {"Panicked"})
    BY DEF Results
  <2>. QED  BY <2>4, <2>5, <2>6, FS_Union
<1>2. IsFiniteSet(WorkItem \X Results)
  BY <1>1, WorkItemFinite, FS_Product
<1>3. pair \in Surjection(WorkItem \X Results, Reports)
  <2>1. pair \in [WorkItem \X Results -> Reports]
    OBVIOUS
  <2>2. ASSUME NEW f \in Reports
        PROVE  \E p \in WorkItem \X Results : pair[p] = f
    <3>1. <<f.item, f.res>> \in WorkItem \X Results
      OBVIOUS
    <3>2. pair[<<f.item, f.res>>] = f
      BY <3>1
    <3>. QED  BY <3>1, <3>2
  <2>. QED  BY <2>1, <2>2 DEF Surjection
<1>4. IsFiniteSet(Reports)
  BY <1>2, <1>3, FS_Surjection
<1>5. workItems \in SUBSET WorkItem /\ running \in SUBSET WorkItem
      /\ finished \in SUBSET Reports
  BY DEF TypeOK
<1>6. IsFiniteSet(workItems) /\ IsFiniteSet(running)
  BY <1>5, WorkItemFinite, FS_Subset
<1>7. IsFiniteSet(finished)
  BY <1>4, <1>5, FS_Subset
<1>. QED  BY <1>6, <1>7, FS_CardinalityType

\* The end of a turn with queue q and w workers on tokens started the items of
\* s, lend of them on the implicit token and n on tokens.
Spawned(q, w, lend, s, n) ==
  /\ workItems' = q \ s /\ running' = running \cup s
  /\ IsFiniteSet(s) /\ Cardinality(s) = lend + n
  /\ Cardinality(workItems') = Cardinality(q) - (lend + n)
  /\ own' = w + n /\ tokens' = Least(tokens, w + n)
  /\ cpc' = "recv" /\ exit' = exit
  /\ w <= tokens => w + n <= tokens
  /\ w + n < tokens => workItems' = {}

\* What the end of a turn does: it starts as many items as there are tokens
\* and items for, and keeps the tokens in use.
LEMMA SpawnEffect ==
  ASSUME TypeOK,
         NEW q \in SUBSET WorkItem, NEW w \in Nat, NEW lend \in {0, 1},
         lend <= Cardinality(q), SpawnWork(q, w, lend)
  PROVE  \E s \in SUBSET q, n \in Nat : Spawned(q, w, lend, s, n)
<1> DEFINE n == IF w < tokens
                THEN Least(Cardinality(q) - lend, tokens - w) ELSE 0
<1>1. IsFiniteSet(q) /\ Cardinality(q) \in Nat
  BY WorkItemFinite, FS_Subset, FS_CardinalityType
<1>2. tokens \in Nat
  BY DEF TypeOK
<1>3. n \in Nat /\ lend + n <= Cardinality(q)
      /\ (w <= tokens => w + n <= tokens)
      /\ (w + n < tokens => lend + n = Cardinality(q))
  BY <1>1, <1>2 DEF Least
<1>4. PICK s \in Popped(q, lend + n) :
        /\ workItems' = q \ s
        /\ running' = running \cup s
        /\ own' = w + n
        /\ tokens' = Least(tokens, w + n)
        /\ cpc' = "recv"
        /\ exit' = exit
  BY DEF SpawnWork
<1>5. s \in SUBSET q /\ Cardinality(s) = lend + n
  BY <1>4 DEF Popped
<1>6. IsFiniteSet(s)
  BY <1>1, <1>5, FS_Subset
<1>7. IsFiniteSet(q \ s) /\ Cardinality(q \ s) = Cardinality(q) - (lend + n)
  <2>1. IsFiniteSet(q \ s)
    BY <1>1, FS_Subset
  <2>2. (q \ s) \cup s = q /\ (q \ s) \cap s = {}
    BY <1>5
  <2>3. Cardinality(q) = Cardinality(q \ s) + Cardinality(s) - 0
    BY <2>1, <2>2, <1>6, FS_Union, FS_EmptySet
  <2>4. Cardinality(q \ s) \in Nat
    BY <2>1, FS_CardinalityType
  <2>. QED  BY <2>1, <2>3, <2>4, <1>1, <1>3, <1>5
<1>8. w + n < tokens => q \ s = {}
  <2>. SUFFICES ASSUME w + n < tokens PROVE q \ s = {}
    OBVIOUS
  <2>1. Cardinality(q \ s) = 0
    BY <1>3, <1>7, <1>1
  <2>. QED  BY <2>1, <1>7, FS_EmptySet
<1>. HIDE DEF n
<1>9. Spawned(q, w, lend, s, n)
  BY <1>3, <1>4, <1>5, <1>6, <1>7, <1>8 DEF Spawned
<1>. QED  BY <1>3, <1>5, <1>9

-------------------------------------------------------------------------------
(***************************************************************************)
(* Type correctness                                                        *)
(***************************************************************************)
\* A turn that ends in spawning leaves the queue and the counters well typed.
LEMMA SpawnTyped ==
  ASSUME TypeOK,
         NEW q \in SUBSET WorkItem, NEW w \in Nat, NEW lend \in {0, 1},
         lend <= Cardinality(q), SpawnWork(q, w, lend)
  PROVE  /\ workItems' \in SUBSET WorkItem /\ running' \in SUBSET WorkItem
         /\ own' \in Nat /\ tokens' \in Nat
         /\ cpc' \in {"top", "recv", "exited"} /\ exit' \in Exits
<1>1. PICK s \in SUBSET q, n \in Nat : Spawned(q, w, lend, s, n)
  BY SpawnEffect
<1>. QED  BY <1>1 DEF TypeOK, Least, Spawned

\* The items LTO generates are work items, and there is one.
LEMMA LtoWork ==
  ASSUME TypeOK, ~NoLtoWork,
         NEW reused \in SUBSET (IF lists["fat"] = {} THEN lists["import"] ELSE {})
  PROVE  /\ GenerateLtoWork(reused) \in SUBSET WorkItem
         /\ GenerateLtoWork(reused) # {}
         /\ \A i \in GenerateLtoWork(reused) : i.op # "Optimize"
<1>1. \A k \in ListNames : lists[k] \in SUBSET Module
  BY DEF TypeOK
<1>2. lists["fat"] \in SUBSET Module /\ lists["thin"] \in SUBSET Module
      /\ lists["import"] \in SUBSET Module
  BY <1>1 DEF ListNames
<1>3. LtoUpstream \in SUBSET AllUnits
  BY DEF LtoUpstream, AllUnits, TypeOK, Config
<1>4. CASE lists["fat"] # {}
  <2>1. (UNION (lists["fat"] \cup lists["import"])) \cup LtoUpstream \in Module
    BY <1>2, <1>3 DEF Module
  <2>2. GenerateLtoWork(reused)
          = {Item("LTO", (UNION (lists["fat"] \cup lists["import"]))
                            \cup LtoUpstream)}
    BY <1>4 DEF GenerateLtoWork
  <2>. HIDE DEF LtoUpstream
  <2>. QED  BY <2>1, <2>2 DEF WorkItem, Item
<1>5. CASE lists["fat"] = {}
  <2>1. reused \in SUBSET lists["import"]
    BY <1>5
  <2>2. \A x \in LtoUpstream : {x} \in Module
    BY <1>3 DEF Module
  <2>3. lists["thin"] # {} \/ lists["import"] # {}
    BY <1>5 DEF NoLtoWork
  <2>4. GenerateLtoWork(reused)
          = {Item("LTO", m) : m \in lists["thin"] \cup (lists["import"] \ reused)}
              \cup {Item("LTO", {x}) : x \in LtoUpstream}
              \cup {Item("CopyPostLtoArtifacts", m) : m \in reused}
    BY <1>5 DEF GenerateLtoWork
  <2>5. GenerateLtoWork(reused) \in SUBSET WorkItem
    BY <1>2, <2>1, <2>2, <2>4 DEF WorkItem, Item
  <2>6. GenerateLtoWork(reused) # {}
    <3>1. PICK m \in lists["thin"] \cup lists["import"] : TRUE
      BY <2>3
    <3>2. Item("LTO", m) \in GenerateLtoWork(reused)
          \/ Item("CopyPostLtoArtifacts", m) \in GenerateLtoWork(reused)
      BY <2>4
    <3>. QED  BY <3>2
  <2>7. \A i \in GenerateLtoWork(reused) : i.op # "Optimize"
    BY <2>4 DEF Item
  <2>. QED  BY <2>5, <2>6, <2>7
<1>. QED  BY <1>4, <1>5

\* A queue that is not empty has an item to lend the implicit token to.
LEMMA NonEmptyQueue ==
  ASSUME NEW q \in SUBSET WorkItem, q # {}
  PROVE  Cardinality(q) \in Nat /\ 1 <= Cardinality(q)
<1>1. IsFiniteSet(q)
  BY WorkItemFinite, FS_Subset
<1>. QED  BY <1>1, FS_CardinalityType, FS_EmptySet

\* The initial state is typed.
LEMMA InitTyped == Init => TypeOK
<1>. SUFFICES ASSUME Init PROVE TypeOK
  OBVIOUS
<1>1. conf \in Config
  BY ConfigsAssumption DEF Init
<1>2. conf.cgus \in SUBSET Cgus
  BY <1>1 DEF Config
<1>3. green \in SUBSET Cgus /\ todo \in SUBSET (Cgus \cup {Alloc})
  BY <1>2 DEF Init, PossiblyGreen, Units
<1>4. lists \in [ListNames -> SUBSET Module]
  BY DEF Init
<1>5. inbox \in Seq(Message)
  BY DEF Init
<1>. QED  BY <1>1, <1>3, <1>4, <1>5 DEF Init, TypeOK, Exits

\* A step of the main thread keeps the types.
LEMMA MainTyped == TypeOK /\ Main => TypeOK'
<1>. SUFFICES ASSUME TypeOK, Main PROVE TypeOK'
  OBVIOUS
<1>. USE DEF mainVars, confVars, coordinatorVars, exitVars, queueVars, ltoVars,
             envVars
<1>0. ASSUME NEW m \in Message, Send(m)
      PROVE  inbox' \in Seq(Message)
  BY <1>0 DEF Send, TypeOK
<1>1. ASSUME NEW t \in {"CodegenComplete", "CodegenAborted"}
      PROVE  Plain(t) \in Message
  <2>1. NoItem \in WorkItem
    BY DEF NoItem, Item, WorkItem, Module
  <2>. QED  BY <2>1 DEF Plain, Message
<1>2. CASE PrepareCgus
  BY <1>2 DEF PrepareCgus, TypeOK
<1>3. CASE WaitForSignal
  BY <1>3 DEF WaitForSignal, TypeOK
<1>4. CASE SubmitAllocator
  <2>1. [type |-> "CodegenDone", item |-> Item("Optimize", {Alloc})] \in Message
    BY DEF Message, Item, WorkItem, Module, AllUnits
  <2>2. inbox' \in Seq(Message)
    BY <1>0, <1>4, <2>1 DEF SubmitAllocator
  <2>. QED  BY <1>4, <2>2 DEF SubmitAllocator, TypeOK
<1>5. ASSUME NEW u \in Cgus, CodegenCgu(u)
      PROVE  TypeOK'
  <2>1. \A op \in {"Optimize", "LTO", "CopyPostLtoArtifacts"},
           t \in {"CodegenDone", "AddImportOnlyModule"} :
          [type |-> t, item |-> Item(op, {u})] \in Message
    BY DEF Message, Item, WorkItem, Module, AllUnits
  <2>2. inbox' \in Seq(Message)
    BY <1>0, <1>5, <2>1 DEF CodegenCgu
  <2>. QED  BY <1>5, <2>2 DEF CodegenCgu, TypeOK
<1>6. CASE CodegenFinished
  BY <1>0, <1>1, <1>6 DEF CodegenFinished, TypeOK
<1>7. CASE DropCoordinator
  BY <1>0, <1>1, <1>7 DEF DropCoordinator, TypeOK
<1>8. CASE DropJoined
  BY <1>8 DEF DropJoined, TypeOK
<1>9. CASE JoinMeetsError
  BY <1>9 DEF JoinMeetsError, TypeOK
<1>10. CASE JoinReturns
  BY <1>10 DEF JoinReturns, TypeOK
<1>. QED  BY <1>2, <1>3, <1>4, <1>5, <1>6, <1>7, <1>8, <1>9, <1>10 DEF Main

\* A turn of the coordinator's loop keeps the types, whatever it spawns.
LEMMA TurnTyped == TypeOK /\ Turn => TypeOK'
<1>. SUFFICES ASSUME TypeOK, Turn PROVE TypeOK'
  OBVIOUS
<1>. USE DEF mainVars, confVars, exitVars, queueVars, ltoVars, envVars
<1>1. workItems \in SUBSET WorkItem /\ own \in Nat /\ tokens \in Nat
      /\ Cardinality(workItems) \in Nat
  BY ItemSetsFinite DEF TypeOK
<1>2. ASSUME NEW why \in Exits, Panic(why), UNCHANGED <<conf, green, mpc, todo,
             inbox, signals>>
      PROVE  TypeOK'
  BY <1>2 DEF Panic, Leave, TypeOK
<1>3. CASE TurnOngoingIdle
  <2>1. CASE tokens < own
    BY <1>2, <1>3, <2>1 DEF TurnOngoingIdle, Exits
  <2>2. CASE ~(tokens < own)
             /\ QueueFullEnough(Cardinality(workItems), AnticipatedRunning)
    <3>1. SpawnWork(workItems, own, 1) /\ 1 <= Cardinality(workItems)
      BY <1>1, <1>3, <2>2 DEF TurnOngoingIdle, QueueFullEnough
    <3>2. /\ workItems' \in SUBSET WorkItem /\ running' \in SUBSET WorkItem
          /\ own' \in Nat /\ tokens' \in Nat
          /\ cpc' \in {"top", "recv", "exited"} /\ exit' \in Exits
      BY <1>1, <3>1, SpawnTyped
    <3>. QED  BY <1>3, <2>2, <3>2 DEF TurnOngoingIdle, TypeOK
  <2>3. CASE /\ ~(tokens < own)
             /\ ~QueueFullEnough(Cardinality(workItems), AnticipatedRunning)
             /\ MainListens
    <3>1. SpawnWork(workItems, own, 0)
      BY <1>3, <2>3 DEF TurnOngoingIdle
    <3>2. /\ workItems' \in SUBSET WorkItem /\ running' \in SUBSET WorkItem
          /\ own' \in Nat /\ tokens' \in Nat
          /\ cpc' \in {"top", "recv", "exited"} /\ exit' \in Exits
      BY <1>1, <3>1, SpawnTyped
    <3>. QED  BY <1>3, <2>3, <3>2 DEF TurnOngoingIdle, TypeOK
  <2>4. CASE /\ ~(tokens < own)
             /\ ~QueueFullEnough(Cardinality(workItems), AnticipatedRunning)
             /\ ~MainListens
    BY <1>2, <1>3, <2>4 DEF TurnOngoingIdle, Exits
  <2>. QED  BY <2>1, <2>2, <2>3, <2>4
<1>4. CASE TurnOngoingBusy
  <2>1. /\ workItems' \in SUBSET WorkItem /\ running' \in SUBSET WorkItem
        /\ own' \in Nat /\ tokens' \in Nat
        /\ cpc' \in {"top", "recv", "exited"} /\ exit' \in Exits
    BY <1>1, <1>4, SpawnTyped DEF TurnOngoingBusy
  <2>. QED  BY <1>4, <2>1 DEF TurnOngoingBusy, TypeOK
<1>5. CASE TurnCompletedDone
  <2>1. lists["link"] \in SUBSET Module
    BY DEF TypeOK, ListNames
  <2>2. {UNION lists["link"]} \in SUBSET Module
    BY <2>1 DEF Module
  <2>3. lists' \in [ListNames -> SUBSET Module] /\ errorSent' \in BOOLEAN
    BY <1>5, <2>2 DEF TurnCompletedDone, ReturnModules, TypeOK
  <2>4. cpc' = "exited" /\ exit' \in Exits /\ tokens' \in Nat
    BY <1>5 DEF TurnCompletedDone, ReturnModules, Leave, Exits
  <2>. QED  BY <1>5, <2>3, <2>4 DEF TurnCompletedDone, TypeOK
<1>6. CASE TurnCompletedLto
  <2>1. CASE startedLto
    BY <1>2, <1>6, <2>1 DEF TurnCompletedLto, Exits
  <2>2. CASE ~startedLto /\ mainThreadState = "Codegenning"
    BY <1>2, <1>6, <2>2 DEF TurnCompletedLto, Exits
  <2>3. CASE ~startedLto /\ mainThreadState # "Codegenning"
    <3>1. PICK reused \in SUBSET (IF lists["fat"] = {} THEN lists["import"] ELSE {}) :
            StartLto(reused)
      BY <1>6, <2>3 DEF TurnCompletedLto
    <3>. DEFINE work == GenerateLtoWork(reused)
    <3>2. work \in SUBSET WorkItem /\ work # {}
      BY <1>6, LtoWork DEF TurnCompletedLto
    <3>3. Cardinality(work) \in Nat /\ 1 <= Cardinality(work)
      BY <3>2, NonEmptyQueue
    <3>4. UNCHANGED <<conf, green, mpc, todo, inbox, signals>>
      BY <1>6 DEF TurnCompletedLto
    <3>. HIDE DEF work
    <3>5. CASE Panic("lto_unreachable")
      BY <1>2, <3>4, <3>5 DEF Exits
    <3>6. CASE /\ Leave("lto_failed")
               /\ errorSent' = TRUE
               /\ UNCHANGED <<codegenState, mainThreadState, workItems, own,
                              lists, startedLto, running, finished, requested,
                              noObject>>
      BY <3>4, <3>6 DEF Leave, TypeOK, Exits
    <3>7. CASE /\ startedLto' = TRUE
               /\ lists' = [lists EXCEPT !["fat"] = {}, !["thin"] = {},
                                         !["import"] = {}]
               /\ requested' = requested
                    + (IF conf.noParallel THEN 0 ELSE Cardinality(work))
               /\ mainThreadState' = "Lending"
               /\ SpawnWork(work, own, 1)
               /\ UNCHANGED <<codegenState, finished, errorSent, noObject>>
      <4>1. /\ workItems' \in SUBSET WorkItem /\ running' \in SUBSET WorkItem
            /\ own' \in Nat /\ tokens' \in Nat
            /\ cpc' \in {"top", "recv", "exited"} /\ exit' \in Exits
        BY <1>1, <3>2, <3>3, <3>7, SpawnTyped
      <4>2. lists' \in [ListNames -> SUBSET Module]
        BY <3>7 DEF TypeOK
      <4>. QED  BY <3>3, <3>4, <3>7, <4>1, <4>2 DEF TypeOK
    <3>. QED  BY <3>1, <3>5, <3>6, <3>7 DEF StartLto, work
  <2>. QED  BY <2>1, <2>2, <2>3
<1>7. CASE TurnCompleted
  <2>1. CASE mainThreadState = "Codegenning"
    BY <1>2, <1>7, <2>1 DEF TurnCompleted, Exits
  <2>2. CASE mainThreadState # "Codegenning"
    <3>1. /\ workItems' \in SUBSET WorkItem /\ running' \in SUBSET WorkItem
          /\ own' \in Nat /\ tokens' \in Nat
          /\ cpc' \in {"top", "recv", "exited"} /\ exit' \in Exits
      <4>1. CASE mainThreadState = "Lending"
        BY <1>1, <1>7, <4>1, SpawnTyped DEF TurnCompleted
      <4>2. CASE mainThreadState = "Idle" /\ workItems # {}
        BY <1>1, <1>7, <4>2, SpawnTyped, NonEmptyQueue DEF TurnCompleted
      <4>3. CASE mainThreadState = "Idle" /\ workItems = {}
        <5>1. own - 1 \in Nat
          BY <1>1, <1>7, <4>3 DEF TurnCompleted, AllWorkDone, RunningWithAnyToken
        <5>2. SpawnWork(workItems, own - 1, 0)
          BY <1>7, <4>3 DEF TurnCompleted
        <5>. QED  BY <1>1, <5>1, <5>2, SpawnTyped
      <4>. QED  BY <2>2, <4>1, <4>2, <4>3 DEF TypeOK
    <3>. QED  BY <1>7, <2>2, <3>1 DEF TurnCompleted, TypeOK
  <2>. QED  BY <2>1, <2>2
<1>8. CASE TurnAborted
  BY <1>8 DEF TurnAborted, Leave, TypeOK, Exits, Least
<1>. QED  BY <1>3, <1>4, <1>5, <1>6, <1>7, <1>8 DEF Turn

\* What receiving one of the main thread's messages means.
LEMMA ReceiveTyped ==
  ASSUME TypeOK, NEW t, Receive(t)
  PROVE  /\ inbox # <<>> /\ Head(inbox) = inbox[1] /\ inbox[1].type = t
         /\ inbox[1] \in Message /\ inbox' = Tail(inbox)
         /\ inbox' \in Seq(Message) /\ cpc = "recv"
  BY DEF Receive, TypeOK

\* The list a result goes to is one of the vectors.
LEMMA DestinationTyped ==
  ASSUME NEW f \in [item : WorkItem, res : Results],
         f.res \notin {"FatalError", "Panicked"}
  PROVE  Destination(f) \in ListNames
  BY DEF Results, Destination, ListNames

\* Handling a message keeps the types: a counter is only lowered when positive.
LEMMA HandleTyped == TypeOK /\ (Handle \/ TokenAcquired \/ TokenFailed) => TypeOK'
<1>. SUFFICES ASSUME TypeOK, Handle \/ TokenAcquired \/ TokenFailed
              PROVE  TypeOK'
  OBVIOUS
<1>. USE DEF mainVars, confVars, exitVars, queueVars, ltoVars, envVars
<1>1. ASSUME NEW why \in Exits, Panic(why), UNCHANGED <<conf, green, mpc, todo,
             signals>>, inbox' \in Seq(Message)
      PROVE  TypeOK'
  BY <1>1 DEF Panic, Leave, TypeOK
<1>2. CASE TokenAcquired
  BY <1>2 DEF TokenAcquired, Loop, TypeOK
<1>3. CASE TokenFailed
  BY <1>3 DEF TokenFailed, Loop, TypeOK
<1>4. CASE CodegenDone
  <2>1. inbox' \in Seq(Message) /\ Head(inbox).item \in WorkItem
    BY <1>4, ReceiveTyped DEF CodegenDone, Message
  <2>2. CASE mainThreadState # "Codegenning"
    BY <1>1, <1>4, <2>1, <2>2 DEF CodegenDone, Exits
  <2>3. CASE mainThreadState = "Codegenning"
    BY <1>4, <2>1, <2>3 DEF CodegenDone, Loop, TypeOK
  <2>. QED  BY <2>2, <2>3
<1>5. CASE AddImportOnlyModule
  <2>1. inbox' \in Seq(Message) /\ Head(inbox).item.mod \in Module
    BY <1>5, ReceiveTyped DEF AddImportOnlyModule, Message, WorkItem
  <2>2. CASE startedLto \/ codegenState # "Ongoing"
             \/ mainThreadState # "Codegenning"
    BY <1>1, <1>5, <2>1, <2>2 DEF AddImportOnlyModule, Exits
  <2>3. CASE ~(startedLto \/ codegenState # "Ongoing"
               \/ mainThreadState # "Codegenning")
    <3>1. lists' \in [ListNames -> SUBSET Module]
      BY <1>5, <2>1, <2>3 DEF AddImportOnlyModule, TypeOK, ListNames
    <3>. QED  BY <1>5, <2>1, <2>3, <3>1 DEF AddImportOnlyModule, Loop, TypeOK
  <2>. QED  BY <2>2, <2>3
<1>6. CASE CodegenComplete
  <2>1. inbox' \in Seq(Message)
    BY <1>6, ReceiveTyped DEF CodegenComplete
  <2>2. CASE mainThreadState # "Codegenning"
    BY <1>1, <1>6, <2>1, <2>2 DEF CodegenComplete, Exits
  <2>3. CASE mainThreadState = "Codegenning"
    BY <1>6, <2>1, <2>3 DEF CodegenComplete, Loop, TypeOK
  <2>. QED  BY <2>2, <2>3
<1>7. CASE CodegenAborted
  <2>1. inbox' \in Seq(Message)
    BY <1>7, ReceiveTyped DEF CodegenAborted
  <2>. QED  BY <1>7, <2>1 DEF CodegenAborted, Loop, TypeOK
<1>8. ASSUME NEW f \in finished, WorkItemDone(f)
      PROVE  TypeOK'
  <2>1. f \in [item : WorkItem, res : Results]
    BY DEF TypeOK
  <2>2. UNCHANGED <<conf, green, mpc, todo, signals, inbox>>
    BY <1>8 DEF WorkItemDone
  <2>3. CASE RunningWithAnyToken = 0
    BY <1>1, <1>8, <2>2, <2>3 DEF WorkItemDone, TypeOK, Exits
  <2>4. CASE RunningWithAnyToken # 0 /\ f.res = "Panicked"
    BY <1>1, <1>8, <2>2, <2>4 DEF WorkItemDone, TypeOK, Exits
  <2>5. ASSUME RunningWithAnyToken # 0, FreeWorker
        PROVE  own' \in Nat /\ mainThreadState' \in {"Idle", "Codegenning", "Lending"}
    BY <2>5 DEF RunningWithAnyToken, FreeWorker, TypeOK
  <2>6. CASE RunningWithAnyToken # 0 /\ f.res = "FatalError"
    BY <1>8, <2>2, <2>5, <2>6 DEF WorkItemDone, Loop, TypeOK
  <2>7. CASE RunningWithAnyToken # 0 /\ f.res \notin {"FatalError", "Panicked"}
    <3>1. Destination(f) \in ListNames
      BY <2>1, <2>7, DestinationTyped
    <3>2. CASE ~CollectAsserts(Destination(f))
      BY <1>1, <1>8, <2>2, <2>7, <3>2 DEF WorkItemDone, TypeOK, Exits
    <3>3. CASE CollectAsserts(Destination(f))
      <4>1. f.item.mod \in Module
        BY <2>1 DEF WorkItem
      <4>2. lists' \in [ListNames -> SUBSET Module]
        BY <1>8, <2>7, <3>1, <3>3, <4>1 DEF WorkItemDone, TypeOK
      <4>. QED  BY <1>8, <2>2, <2>5, <2>7, <3>3, <4>2 DEF WorkItemDone, Loop, TypeOK
    <3>. QED  BY <3>2, <3>3
  <2>. QED  BY <2>3, <2>4, <2>6, <2>7
<1>. QED  BY <1>2, <1>3, <1>4, <1>5, <1>6, <1>7, <1>8 DEF Handle

\* A worker that ends normally reports one of the results.
LEMMA ExecuteTyped ==
  ASSUME NEW i \in WorkItem
  PROVE  Execute(i) \in Results
<1>1. ComputeLtoType(IsAllocator(i)) \in {"No", "Thin", "Fat"}
  BY DEF ComputeLtoType
<1>. QED  BY <1>1 DEF Execute, Results, WorkItem, FinishIntraModuleWork

\* A worker that ends sends a typed result.
LEMMA WorkerTyped ==
  ASSUME TypeOK, NEW i \in running, Worker(i)
  PROVE  TypeOK'
<1>1. i \in WorkItem /\ i.mod \in Module
  BY DEF TypeOK, WorkItem
<1>2. ASSUME NEW res \in Results, WorkerEnds(i, res), errorSent' \in BOOLEAN,
             noObject' \in SUBSET Module
      PROVE  TypeOK'
  BY <1>1, <1>2 DEF WorkerEnds, TypeOK, mainVars, confVars, exitVars, queueVars,
     ltoVars
<1>3. CASE WorkerSucceeds(i)
  BY <1>1, <1>2, <1>3, ExecuteTyped DEF WorkerSucceeds, TypeOK
<1>4. CASE WorkerCopyFails(i)
  BY <1>1, <1>2, <1>4, ExecuteTyped DEF WorkerCopyFails, TypeOK
<1>5. CASE WorkerFails(i)
  BY <1>2, <1>5 DEF WorkerFails, TypeOK, Results
<1>6. CASE WorkerPanics(i)
  BY <1>2, <1>6 DEF WorkerPanics, TypeOK, Results
<1>. QED  BY <1>3, <1>4, <1>5, <1>6 DEF Worker

\* TypeOK is inductive by itself.
LEMMA NextTyped == TypeOK /\ [Next]_vars => TypeOK'
<1>. SUFFICES ASSUME TypeOK, [Next]_vars PROVE TypeOK'
  OBVIOUS
<1>1. ASSUME NEW u \in Cgus, CodegenCguFails(u)
      PROVE  TypeOK'
  BY <1>1 DEF CodegenCguFails, TypeOK, confVars, coordinatorVars, exitVars,
     queueVars, ltoVars, envVars
<1>0. CASE PrepareCgusFails
  BY <1>0 DEF PrepareCgusFails, TypeOK, confVars, coordinatorVars, exitVars,
     queueVars, ltoVars, envVars
<1>2. CASE UNCHANGED vars
  BY <1>2 DEF vars, TypeOK, mainVars, confVars, exitVars, queueVars, ltoVars,
     envVars
<1>3. CASE Terminated
  BY <1>2, <1>3 DEF Terminated
<1>. QED  BY <1>0, <1>1, <1>2, <1>3, MainTyped, TurnTyped, HandleTyped, WorkerTyped
     DEF Next

\* Type correctness of the pipeline.
THEOREM TypeCorrect == Spec => []TypeOK
<1>. QED  BY InitTyped, NextTyped, PTL DEF Spec

-------------------------------------------------------------------------------
(***************************************************************************)
(* The handshake of the main thread and the coordinator                    *)
(***************************************************************************)
\* What the proof needs of sequences of at most two messages.
LEMMA ShortSeq ==
  ASSUME NEW q \in Seq(Message), NEW m \in Message
  PROVE  /\ q = <<>> => Append(q, m) # <<>> /\ Len(Append(q, m)) = 1
                        /\ Append(q, m)[1] = m
         /\ Len(q) = 1 => Append(q, m) # <<>> /\ Len(Append(q, m)) = 2
                          /\ Append(q, m)[1] = q[1] /\ Append(q, m)[2] = m
         /\ Len(q) = 1 => Tail(q) = <<>> /\ q # <<>>
         /\ Len(q) = 2 => Tail(q) # <<>> /\ Len(Tail(q)) = 1 /\ q # <<>>
                          /\ Tail(q)[1] = q[2]
         /\ q = <<>> => Len(q) = 0
<1>1. \A t \in Seq(Message) : Len(t) \in Nat /\ (t = <<>> <=> Len(t) = 0)
  <2>1. ASSUME NEW t \in Seq(Message) PROVE Len(t) \in Nat
    BY LenProperties
  <2>2. ASSUME NEW t \in Seq(Message), t # <<>> PROVE Len(t) # 0
    <3>1. Len(t) \in Nat \ {0}
      BY <2>2, EmptySeq
    <3>. QED  BY <3>1
  <2>3. Len(<<>>) = 0
    BY EmptySeq
  <2>. QED  BY <2>1, <2>2, <2>3
<1>2. ASSUME q # <<>>
      PROVE  /\ Len(Tail(q)) = Len(q) - 1 /\ Tail(q) \in Seq(Message)
             /\ \A i \in 1 .. Len(Tail(q)) : Tail(q)[i] = q[i + 1]
  BY <1>2, HeadTailProperties
<1>3. /\ Append(q, m) \in Seq(Message) /\ Append(q, m) # <<>>
      /\ Len(Append(q, m)) = Len(q) + 1
      /\ \A i \in 1 .. Len(q) : Append(q, m)[i] = q[i]
      /\ Append(q, m)[Len(q) + 1] = m
  BY AppendProperties
<1>4. ASSUME Len(q) = 1 PROVE Tail(q) = <<>> /\ q # <<>>
  <2>1. q # <<>>
    BY <1>1, <1>4
  <2>2. Len(Tail(q)) = 0 /\ Tail(q) \in Seq(Message)
    BY <1>2, <1>4, <2>1
  <2>. QED  BY <1>1, <2>1, <2>2
<1>5. ASSUME Len(q) = 2
      PROVE  Len(Tail(q)) = 1 /\ Tail(q)[1] = q[2] /\ q # <<>> /\ Tail(q) # <<>>
  <2>1. q # <<>>
    BY <1>1, <1>5
  <2>2. Len(Tail(q)) = 1 /\ Tail(q) \in Seq(Message)
    BY <1>2, <1>5, <2>1
  <2>3. Tail(q)[1] = q[2]
    <3>1. \A t \in Seq(Message) :
            (Len(t) = 1 /\ \A i \in 1 .. Len(t) : t[i] = q[i + 1]) => t[1] = q[2]
      OBVIOUS
    <3>. QED  BY <1>2, <2>1, <2>2, <3>1, Zenon
  <2>4. Tail(q) # <<>>
    <3>1. 1 # 0
      OBVIOUS
    <3>. QED  BY <1>1, <2>2, <3>1, Zenon
  <2>. QED  BY <2>1, <2>2, <2>3, <2>4
<1>6. ASSUME q = <<>>
      PROVE  Len(q) = 0 /\ Len(Append(q, m)) = 1 /\ Append(q, m)[1] = m
  <2>1. Len(q) = 0
    BY <1>1, <1>6
  <2>. QED  BY <1>3, <2>1
<1>7. ASSUME Len(q) = 1
      PROVE  Len(Append(q, m)) = 2 /\ Append(q, m)[1] = q[1] /\ Append(q, m)[2] = m
  BY <1>3, <1>7
<1>. QED  BY <1>3, <1>4, <1>5, <1>6, <1>7

\* Before the first step nothing is in flight.
LEMMA InitHandshake == Init => HandshakeInv
  BY DEF Init, HandshakeInv, Running, InboxShape, MainListens, Translating, Units,
         NoneHandedOver, AheadOfWait

\* A coordinator that ends frees the handshake of its obligations.
LEMMA LeaveHandshake ==
  ASSUME HandshakeInv, cpc' = "exited", UNCHANGED <<conf, mainVars>>,
         exit' # "send_failed" \/ (~MainListens /\ NoneHandedOver)
  PROVE  HandshakeInv'
  BY DEF HandshakeInv, Running, mainVars, MainListens, NoneHandedOver

\* The main thread answers a signal once, and says CodegenAborted last.
LEMMA MainHandshake ==
  ASSUME TypeOK, HandshakeInv, Main
  PROVE  HandshakeInv'
<1>. USE DEF mainVars, confVars, coordinatorVars, exitVars, queueVars, ltoVars,
             envVars, Running, MainListens, Translating
<1>1. CASE PrepareCgus
  BY <1>1 DEF PrepareCgus, HandshakeInv, InboxShape, NoneHandedOver, AheadOfWait
<1>2. CASE WaitForSignal
  BY <1>2 DEF WaitForSignal, HandshakeInv, InboxShape, TypeOK, NoneHandedOver,
              AheadOfWait
<1>3. ASSUME mpc = "translate", mpc' \in {"prepare", "wait", "join"},
             NEW m \in Message, Send(m),
             UNCHANGED <<conf, signals, coordinatorVars>>,
             m.type \in {"CodegenDone", "AddImportOnlyModule"}
               => mpc' \in {"wait", "prepare"},
             m.type \in Answers,
             m.type = "CodegenComplete" => todo' = {} /\ mpc' = "join",
             Alloc \in todo' \/ mpc' = "prepare" => NoneHandedOver',
             mpc' = "join" => m.type = "CodegenComplete"
      PROVE  HandshakeInv'
  <2>1. CASE cpc = "exited"
    BY <1>3, <2>1 DEF HandshakeInv, Answers
  <2>2. CASE cpc # "exited"
    <3>1. /\ inbox = <<>> /\ mainThreadState = "Codegenning" /\ signals = 0
          /\ codegenState # "Completed" /\ ~startedLto
      BY <1>3, <2>2 DEF HandshakeInv, AheadOfWait
    <3>2. inbox' = Append(inbox, m)
      BY <1>3, <2>2 DEF Send
    <3>3. inbox' # <<>> /\ Len(inbox') = 1 /\ inbox'[1] = m
      BY <3>1, <3>2, ShortSeq DEF TypeOK
    <3>. QED  BY <1>3, <2>2, <3>1, <3>3 DEF HandshakeInv, InboxShape, Answers,
              AheadOfWait
  <2>. QED  BY <2>1, <2>2
<1>4. NoItem \in WorkItem
  BY DEF NoItem, Item, WorkItem, Module
<1>5. CASE SubmitAllocator
  <2>. DEFINE m == [type |-> "CodegenDone", item |-> Item("Optimize", {Alloc})]
  <2>1. m \in Message
    BY DEF Message, Item, WorkItem, Module, AllUnits
  <2>2. m.type = "CodegenDone"
    OBVIOUS
  <2>3. Send(m) /\ mpc = "translate" /\ mpc' = "prepare"
        /\ UNCHANGED <<conf, signals, coordinatorVars>>
    BY <1>5 DEF SubmitAllocator
  <2>4. NoneHandedOver'
    <3>1. NoneHandedOver
      BY <1>5 DEF SubmitAllocator, HandshakeInv
    <3>2. Alloc \notin conf.cgus
      BY UnitsAssumption DEF TypeOK, Config
    <3>. QED  BY <1>5, <3>1, <3>2 DEF SubmitAllocator, NoneHandedOver
  <2>. HIDE DEF m
  <2>. QED  BY <1>3, <2>1, <2>2, <2>3, <2>4 DEF Answers
<1>6. ASSUME NEW u \in Cgus, CodegenCgu(u)
      PROVE  HandshakeInv'
  <2>1. PICK op \in {"Optimize", "LTO", "CopyPostLtoArtifacts"},
             t \in {"CodegenDone", "AddImportOnlyModule"} :
          Send([type |-> t, item |-> Item(op, {u})])
    BY <1>6 DEF CodegenCgu
  <2>. DEFINE m == [type |-> t, item |-> Item(op, {u})]
  <2>2. m \in Message
    BY DEF Message, Item, WorkItem, Module, AllUnits
  <2>3. m.type = t
    OBVIOUS
  <2>4. Send(m) /\ mpc = "translate" /\ mpc' = "wait"
        /\ Alloc \notin todo' /\ UNCHANGED <<conf, signals, coordinatorVars>>
    BY <1>6, <2>1 DEF CodegenCgu
  <2>. HIDE DEF m
  <2>. QED  BY <1>3, <2>2, <2>3, <2>4 DEF Answers
<1>7. CASE CodegenFinished
  <2>. DEFINE m == Plain("CodegenComplete")
  <2>1. m \in Message /\ m.type = "CodegenComplete"
    BY <1>4 DEF Message, Plain
  <2>2. Send(m) /\ mpc = "translate" /\ mpc' = "join" /\ todo' = {}
        /\ UNCHANGED <<conf, signals, coordinatorVars>>
    BY <1>7 DEF CodegenFinished
  <2>. HIDE DEF m
  <2>. QED  BY <1>3, <2>1, <2>2 DEF Answers
<1>8. CASE DropCoordinator
  <2>. DEFINE m == Plain("CodegenAborted")
  <2>1. m \in Message /\ m.type = "CodegenAborted"
    BY <1>4 DEF Message, Plain
  <2>2. Send(m) /\ mpc = "dropping" /\ mpc' = "dropJoin" /\ todo' = todo
        /\ UNCHANGED <<conf, signals, coordinatorVars>>
    BY <1>8 DEF DropCoordinator
  <2>. HIDE DEF m
  <2>3. CASE cpc = "exited"
    BY <2>2, <2>3 DEF HandshakeInv, NoneHandedOver
  <2>4. CASE cpc # "exited"
    <3>1. inbox' = Append(inbox, m)
      BY <2>2, <2>4 DEF Send
    <3>2. Len(inbox) # 2
      BY <2>2, <2>4 DEF HandshakeInv
    <3>3. CASE inbox = <<>>
      <4>1. inbox' # <<>> /\ Len(inbox') = 1 /\ inbox'[1] = m
        BY <2>1, <3>1, <3>3, ShortSeq DEF TypeOK
      <4>. QED  BY <2>1, <2>2, <2>4, <3>2, <3>3, <4>1
                DEF HandshakeInv, InboxShape, Answers, NoneHandedOver, AheadOfWait
    <3>4. CASE inbox # <<>>
      <4>1. Len(inbox) = 1
        BY <2>4, <3>2, <3>4 DEF HandshakeInv, InboxShape
      <4>2. inbox' # <<>> /\ Len(inbox') = 2 /\ inbox'[1] = inbox[1] /\ inbox'[2] = m
        BY <2>1, <3>1, <4>1, ShortSeq DEF TypeOK
      <4>3. inbox[1] \in Message
        BY <4>1 DEF TypeOK
      <4>4. inbox[1].type \in Answers /\ signals = 0
        BY <2>2, <2>4, <3>4, <4>3 DEF HandshakeInv, Message, Answers
      <4>. QED  BY <2>1, <2>2, <2>4, <3>2, <3>4, <4>2, <4>4
                DEF HandshakeInv, InboxShape, Answers, NoneHandedOver, AheadOfWait
    <3>. QED  BY <3>3, <3>4
  <2>. QED  BY <2>3, <2>4
<1>9. CASE DropJoined
  BY <1>9 DEF DropJoined, HandshakeInv, NoneHandedOver
<1>10. CASE JoinMeetsError
  BY <1>10 DEF JoinMeetsError, HandshakeInv, InboxShape, Answers, NoneHandedOver,
               AheadOfWait
<1>11. CASE JoinReturns
  BY <1>11 DEF JoinReturns, HandshakeInv, NoneHandedOver
<1>. QED  BY <1>1, <1>2, <1>5, <1>6, <1>7, <1>8, <1>9, <1>10, <1>11 DEF Main

\* The coordinator signals only an idle main thread that still listens.
LEMMA TurnHandshake ==
  ASSUME TypeOK, HandshakeInv, Turn
  PROVE  HandshakeInv'
<1>. USE DEF mainVars, confVars, exitVars, queueVars, ltoVars, envVars,
             MainListens, Translating, Running
<1>1. ASSUME NEW why, Panic(why), why # "send_failed", UNCHANGED <<conf, mainVars>>
      PROVE  HandshakeInv'
  BY <1>1, LeaveHandshake DEF Panic, Leave
<1>2. ASSUME NEW q, NEW w, NEW lend, SpawnWork(q, w, lend)
      PROVE  cpc' = "recv" /\ exit' = exit
  BY <1>2 DEF SpawnWork
<1>3. CASE TurnOngoingIdle
  <2>0. CASE Panic("send_failed") /\ ~MainListens
    <3>1. NoneHandedOver
      BY <1>3, <2>0 DEF TurnOngoingIdle, HandshakeInv
    <3>. QED  BY <1>3, <2>0, <3>1, LeaveHandshake DEF TurnOngoingIdle, Panic, Leave
  <2>1. CASE Panic("checked_sub")
    BY <1>1, <1>3, <2>1 DEF TurnOngoingIdle
  <2>2. CASE /\ mainThreadState' = "Lending" /\ cpc' = "recv"
             /\ UNCHANGED <<exit, signals, codegenState, startedLto>>
    BY <1>3, <2>2 DEF TurnOngoingIdle, HandshakeInv, InboxShape, Answers,
                      NoneHandedOver, AheadOfWait
  <2>3. CASE /\ mainThreadState' = "Codegenning" /\ cpc' = "recv"
             /\ signals' = signals + 1 /\ MainListens
             /\ UNCHANGED <<exit, codegenState, startedLto>>
    <3>1. signals = 0 /\ inbox = <<>> /\ mpc \in {"wait", "prepare"}
      <4>1. inbox # <<>> => inbox[1] \in Message
        BY DEF TypeOK
      <4>. QED  BY <1>3, <2>3, <4>1
                DEF TurnOngoingIdle, HandshakeInv, Answers, Message, TypeOK
    <3>. QED  BY <1>3, <2>3, <3>1 DEF TurnOngoingIdle, HandshakeInv, InboxShape,
              NoneHandedOver, AheadOfWait
  <2>. QED  BY <1>2, <1>3, <2>0, <2>1, <2>2, <2>3 DEF TurnOngoingIdle
<1>4. CASE TurnOngoingBusy
  BY <1>2, <1>4 DEF TurnOngoingBusy, HandshakeInv, InboxShape, NoneHandedOver,
                    AheadOfWait
<1>5. CASE TurnCompletedDone
  BY <1>5, LeaveHandshake DEF TurnCompletedDone, ReturnModules, Leave
<1>6. ASSUME cpc = "top", codegenState = "Completed", cpc' = "recv",
             mainThreadState' = "Lending",
             UNCHANGED <<conf, mainVars, signals, inbox, exit, codegenState>>
      PROVE  HandshakeInv'
  BY <1>6 DEF HandshakeInv, InboxShape, Answers, NoneHandedOver, AheadOfWait
<1>7. CASE TurnCompletedLto
  <2>1. CASE Panic("lto_restarted") \/ Panic("codegenning_completed")
    BY <1>1, <1>7, <2>1 DEF TurnCompletedLto
  <2>2. ASSUME NEW reused, StartLto(reused)
        PROVE  HandshakeInv'
    <3>1. CASE Panic("lto_unreachable") \/ Leave("lto_failed")
      BY <1>1, <1>7, <3>1, LeaveHandshake DEF TurnCompletedLto, Leave
    <3>2. CASE mainThreadState' = "Lending" /\ cpc' = "recv"
               /\ UNCHANGED <<exit, codegenState>>
      BY <1>6, <1>7, <3>2 DEF TurnCompletedLto
    <3>. QED  BY <1>2, <2>2, <3>1, <3>2 DEF StartLto
  <2>. QED  BY <1>7, <2>1, <2>2 DEF TurnCompletedLto
<1>8. CASE TurnCompleted
  <2>1. CASE Panic("codegenning_completed")
    BY <1>1, <1>8, <2>1 DEF TurnCompleted
  <2>2. CASE mainThreadState' = "Lending" /\ cpc' = "recv"
             /\ UNCHANGED <<exit, codegenState>>
    BY <1>6, <1>8, <2>2 DEF TurnCompleted
  <2>. QED  BY <1>2, <1>8, <2>1, <2>2 DEF TurnCompleted
<1>9. CASE TurnAborted
  <2>1. CASE cpc' = "exited"
    BY <1>9, <2>1, LeaveHandshake DEF TurnAborted, Leave
  <2>2. CASE cpc' = "recv"
    BY <1>9, <2>2 DEF TurnAborted, Leave, HandshakeInv, InboxShape,
                      NoneHandedOver, AheadOfWait
  <2>. QED  BY <1>9, <2>1, <2>2 DEF TurnAborted, Leave
<1>. QED  BY <1>3, <1>4, <1>5, <1>7, <1>8, <1>9 DEF Turn

\* Receiving a message leaves nothing behind it, or CodegenAborted behind an
\* answer.
LEMMA ReceiveEffect ==
  ASSUME TypeOK, HandshakeInv, NEW t, Receive(t)
  PROVE  /\ cpc = "recv" /\ inbox # <<>> /\ inbox[1].type = t
         /\ \/ inbox' = <<>> /\ Len(inbox') = 0
            \/ /\ t \in Answers /\ mpc = "dropJoin" /\ inbox' # <<>>
               /\ Len(inbox') = 1 /\ inbox'[1].type = "CodegenAborted"
<1>1. /\ inbox # <<>> /\ inbox[1].type = t /\ inbox' = Tail(inbox) /\ cpc = "recv"
      /\ inbox \in Seq(Message)
  BY ReceiveTyped DEF TypeOK
<1>2. Len(inbox) = 1 \/ Len(inbox) = 2
  BY <1>1 DEF HandshakeInv, InboxShape, Running
<1>3. CASE Len(inbox) = 1
  <2>1. inbox[1] \in Message
    BY <1>1, <1>3
  <2>2. inbox' = <<>>
    BY <1>1, <1>3, <2>1, ShortSeq
  <2>. QED  BY <1>1, <2>2, EmptySeq
<1>4. CASE Len(inbox) = 2
  <2>1. inbox[1] \in Message
    BY <1>1, <1>4
  <2>2. inbox' # <<>> /\ Len(inbox') = 1 /\ inbox'[1] = inbox[2]
    BY <1>1, <1>4, <2>1, ShortSeq
  <2>3. inbox[2].type = "CodegenAborted" /\ mpc = "dropJoin"
        /\ inbox[1].type \in Answers
    BY <1>1, <1>4, EmptySeq DEF HandshakeInv, InboxShape, Running
  <2>. QED  BY <1>1, <2>2, <2>3
<1>. QED  BY <1>2, <1>3, <1>4

\* Receiving an answer returns the coordinator to state Idle.
LEMMA HandleHandshake ==
  ASSUME TypeOK, HandshakeInv, Handle \/ TokenAcquired \/ TokenFailed
  PROVE  HandshakeInv'
<1>. USE DEF mainVars, confVars, exitVars, queueVars, ltoVars, envVars,
             MainListens, Translating, Running
<1>1. ASSUME NEW why, Panic(why), why # "send_failed", UNCHANGED <<conf, mainVars>>
      PROVE  HandshakeInv'
  BY <1>1, LeaveHandshake DEF Panic, Leave
<1>2. ASSUME cpc = "recv", cpc' = "top",
             UNCHANGED <<conf, mainVars, signals, inbox, exit, startedLto>>,
             codegenState' \in {codegenState, "Aborted"},
             \/ mainThreadState' = mainThreadState
             \/ mainThreadState = "Lending" /\ mainThreadState' = "Idle"
      PROVE  HandshakeInv'
  BY <1>2 DEF HandshakeInv, InboxShape, Answers, NoneHandedOver, AheadOfWait
<1>3. CASE TokenAcquired
  BY <1>2, <1>3 DEF TokenAcquired, Loop
<1>4. CASE TokenFailed
  BY <1>2, <1>4 DEF TokenFailed, Loop
<1>5. ASSUME NEW t \in {"CodegenDone", "AddImportOnlyModule"}, Receive(t),
             cpc' = "top", mainThreadState = "Codegenning",
             mainThreadState' = "Idle",
             UNCHANGED <<conf, mainVars, signals, exit, codegenState, startedLto>>
      PROVE  HandshakeInv'
  <2>1. /\ cpc = "recv" /\ inbox # <<>> /\ inbox[1].type = t
        /\ \/ inbox' = <<>> /\ Len(inbox') = 0
           \/ /\ mpc = "dropJoin" /\ inbox' # <<>>
              /\ Len(inbox') = 1 /\ inbox'[1].type = "CodegenAborted"
    BY <1>5, ReceiveEffect
  <2>2. signals = 0 /\ AheadOfWait
    BY <1>5, <2>1 DEF HandshakeInv, TypeOK
  <2>3. /\ AheadOfWait' = AheadOfWait /\ NoneHandedOver' = NoneHandedOver
    BY <1>5 DEF AheadOfWait, NoneHandedOver
  <2>4. ~MainListens => NoneHandedOver
    BY <2>1, <2>2 DEF HandshakeInv, AheadOfWait
  <2>. QED  BY <1>5, <2>1, <2>2, <2>3, <2>4
            DEF HandshakeInv, InboxShape, Answers
<1>6. CASE CodegenDone
  BY <1>1, <1>5, <1>6 DEF CodegenDone, Loop
<1>7. CASE AddImportOnlyModule
  BY <1>1, <1>5, <1>7 DEF AddImportOnlyModule, Loop
<1>8. CASE CodegenComplete
  <2>1. CASE Panic("not_codegenning")
    BY <1>1, <1>8, <2>1 DEF CodegenComplete
  <2>2. CASE ~Panic("not_codegenning")
    <3>1. /\ cpc = "recv" /\ inbox # <<>> /\ inbox[1].type = "CodegenComplete"
          /\ \/ inbox' = <<>> /\ Len(inbox') = 0
             \/ /\ mpc = "dropJoin" /\ inbox' # <<>>
                /\ Len(inbox') = 1 /\ inbox'[1].type = "CodegenAborted"
      BY <1>8, ReceiveEffect DEF CodegenComplete
    <3>2. /\ mainThreadState = "Codegenning" /\ mainThreadState' = "Idle"
          /\ codegenState' \in {"Aborted", "Completed"} /\ cpc' = "top"
          /\ UNCHANGED <<conf, mainVars, signals, exit, startedLto>>
      BY <1>8, <2>2 DEF CodegenComplete, Loop
    <3>3. signals = 0 /\ todo = {} /\ mpc \in {"join", "dropping", "dropJoin"}
      BY <3>1 DEF HandshakeInv, TypeOK
    <3>. QED  BY <3>1, <3>2, <3>3 DEF HandshakeInv, InboxShape, Answers,
              NoneHandedOver, AheadOfWait
  <2>. QED  BY <2>1, <2>2
<1>9. CASE CodegenAborted
  <2>1. cpc = "recv" /\ inbox # <<>> /\ inbox[1].type = "CodegenAborted"
        /\ inbox' = <<>> /\ Len(inbox') = 0
    BY <1>9, ReceiveEffect DEF CodegenAborted, Answers
  <2>2. codegenState' = "Aborted" /\ cpc' = "top"
        /\ UNCHANGED <<conf, mainVars, signals, exit, mainThreadState, startedLto>>
    BY <1>9 DEF CodegenAborted, Loop
  <2>. QED  BY <2>1, <2>2 DEF HandshakeInv, InboxShape, NoneHandedOver, AheadOfWait
<1>10. ASSUME NEW f \in finished, WorkItemDone(f)
       PROVE  HandshakeInv'
  <2>1. CASE \E why : why # "send_failed" /\ Panic(why)
    BY <1>1, <1>10, <2>1 DEF WorkItemDone
  <2>2. CASE ~\E why : why # "send_failed" /\ Panic(why)
    BY <1>2, <1>10, <2>2 DEF WorkItemDone, FreeWorker, Loop
  <2>. QED  BY <2>1, <2>2
<1>. QED  BY <1>3, <1>4, <1>6, <1>7, <1>8, <1>9, <1>10 DEF Handle

\* HandshakeInv is inductive, given the types.
LEMMA NextHandshake == TypeOK /\ HandshakeInv /\ [Next]_vars => HandshakeInv'
<1>. SUFFICES ASSUME TypeOK, HandshakeInv, [Next]_vars PROVE HandshakeInv'
  OBVIOUS
<1>. USE DEF mainVars, confVars, coordinatorVars, exitVars, queueVars, ltoVars,
             envVars, Running, MainListens, Translating
<1>1. ASSUME NEW u \in Cgus, CodegenCguFails(u)
      PROVE  HandshakeInv'
  BY <1>1 DEF CodegenCguFails, HandshakeInv, InboxShape, NoneHandedOver,
              AheadOfWait
<1>0. CASE PrepareCgusFails
  BY <1>0 DEF PrepareCgusFails, HandshakeInv, InboxShape, NoneHandedOver,
              AheadOfWait
<1>2. ASSUME UNCHANGED <<conf, mainVars, signals, inbox, exitVars, codegenState,
                         mainThreadState, startedLto>>
      PROVE  HandshakeInv'
  BY <1>2 DEF HandshakeInv, InboxShape, NoneHandedOver, AheadOfWait
<1>3. ASSUME NEW i \in running, Worker(i)
      PROVE  HandshakeInv'
  BY <1>2, <1>3 DEF Worker, WorkerSucceeds, WorkerCopyFails, WorkerFails,
     WorkerPanics, WorkerEnds
<1>4. CASE Terminated \/ UNCHANGED vars
  BY <1>2, <1>4 DEF Terminated, vars
<1>. QED  BY <1>0, <1>1, <1>3, <1>4, MainHandshake, TurnHandshake, HandleHandshake
     DEF Next

\* The signal, the translation it starts and the answer to it never overlap,
\* and while any of them is under way the coordinator counts the implicit token
\* as the main thread's.
THEOREM HandshakeCorrect == Spec => []HandshakeInv
<1>1. TypeOK /\ HandshakeInv /\ [Next]_vars => TypeOK' /\ HandshakeInv'
  BY NextTyped, NextHandshake
<1>. QED  BY <1>1, InitTyped, InitHandshake, PTL DEF Spec

-------------------------------------------------------------------------------
(***************************************************************************)
(* Work items, workers and tokens                                          *)
(***************************************************************************)
\* The end of a turn moves items from the queue to the workers, one for each
\* token put to use and one more if the implicit token is lent, and leaves the
\* coordinator with exactly the tokens in use.
LEMMA SpawnAccount ==
  ASSUME TypeOK,
         NEW q \in SUBSET WorkItem, NEW w \in Nat, NEW lend \in {0, 1},
         lend <= Cardinality(q), SpawnWork(q, w, lend), w <= tokens,
         q \cap running = {}
  PROVE  \E n \in Nat :
           /\ own' = w + n /\ tokens' = own' /\ own' <= tokens /\ cpc' = "recv"
           /\ Cardinality(running') = Cardinality(running) + lend + n
           /\ Cardinality(workItems') = Cardinality(q) - (lend + n)
           /\ workItems' \cup running' = q \cup running
           /\ workItems' \cap running' = {}
           /\ own' < tokens => workItems' = {}
<1>1. PICK s \in SUBSET q, n \in Nat : Spawned(q, w, lend, s, n)
  BY SpawnEffect
<1>2. IsFiniteSet(running) /\ Cardinality(running) \in Nat
  BY ItemSetsFinite
<1>3. running \cap s = {} /\ Cardinality(running \cap s) = 0
  BY FS_EmptySet
<1>4. Cardinality(running \cup s) = Cardinality(running) + Cardinality(s) - 0
  BY <1>1, <1>2, <1>3, FS_Union DEF Spawned
<1>5. Cardinality(running') = Cardinality(running) + lend + n
  BY <1>1, <1>2, <1>4 DEF Spawned
<1>6. own' = w + n /\ tokens' = own' /\ own' <= tokens
  BY <1>1 DEF Spawned, Least, TypeOK
<1>7. workItems' \cup running' = q \cup running /\ workItems' \cap running' = {}
  BY <1>1 DEF Spawned
<1>. QED  BY <1>1, <1>5, <1>6, <1>7 DEF Spawned

\* The parts of the accounting a step at the end of which the coordinator still
\* runs has to re-establish.
AccountInv == ItemsInv /\ TokenInv /\ WorkerAccounting

\* At first there is no worker, no item and no token.
LEMMA InitAccount == Init => AccountInv
<1>. SUFFICES ASSUME Init PROVE AccountInv
  OBVIOUS
<1>1. IsFiniteSet({}) /\ Cardinality({}) = 0
  BY FS_EmptySet
<1>2. DOMAIN inbox = {}
  BY DEF Init
<1>3. ItemsInv
  BY <1>1, <1>2 DEF Init, ItemsInv, Known
<1>4. TokenInv /\ WorkerAccounting
  BY <1>1, PoolAssumption DEF Init, TokenInv, WorkerAccounting, RunningWithAnyToken
<1>. QED  BY <1>3, <1>4 DEF AccountInv

\* The main thread touches none of the sets of items; the item of an answer it
\* sends is of a unit that was still to do, so it is a new one.
LEMMA MainAccount ==
  ASSUME TypeOK, HandshakeInv, AccountInv, Main
  PROVE  AccountInv'
<1>. USE DEF mainVars, confVars, coordinatorVars, exitVars, queueVars, ltoVars,
             envVars
<1>1. UNCHANGED coordinatorVars
  BY DEF Main, PrepareCgus, WaitForSignal, SubmitAllocator, CodegenCgu,
     CodegenFinished, DropCoordinator, DropJoined, JoinMeetsError, JoinReturns
<1>2. TokenInv' /\ WorkerAccounting'
  BY <1>1 DEF AccountInv, TokenInv, WorkerAccounting, RunningWithAnyToken, Running
<1>3. ASSUME todo' \subseteq todo,
             \A k \in DOMAIN inbox' : inbox'[k].type = "CodegenDone" =>
               /\ inbox'[k].item \notin Known
               /\ \A u \in todo' : inbox'[k].item.mod # {u}
      PROVE  ItemsInv'
  BY <1>1, <1>3 DEF AccountInv, ItemsInv, Known
<1>4. ASSUME UNCHANGED inbox, todo' \subseteq todo
      PROVE  ItemsInv'
  BY <1>3, <1>4 DEF AccountInv, ItemsInv
<1>5. ASSUME NEW u \in todo, todo' = todo \ {u}, mpc = "translate",
             NEW m \in Message, Send(m), m.item.mod = {u}
      PROVE  ItemsInv'
  <2>1. CASE cpc = "exited"
    BY <1>4, <1>5, <2>1 DEF Send
  <2>2. CASE cpc # "exited"
    <3>1. inbox = <<>> /\ inbox' = Append(inbox, m)
      BY <1>5, <2>2 DEF Send, HandshakeInv, Running, Translating
    <3>2. Len(inbox') = 1 /\ inbox'[1] = m /\ inbox' \in Seq(Message)
      BY <3>1, ShortSeq, AppendProperties DEF TypeOK
    <3>3. \A k \in DOMAIN inbox' : inbox'[k] = m
      BY <3>2
    <3>4. m.item \notin Known /\ \A v \in todo' : m.item.mod # {v}
      BY <1>5 DEF AccountInv, ItemsInv
    <3>. QED  BY <1>3, <1>5, <3>3, <3>4
  <2>. QED  BY <2>1, <2>2
<1>6. ASSUME NEW m \in Message, Send(m), UNCHANGED todo, m.type # "CodegenDone"
      PROVE  ItemsInv'
  <2>1. CASE cpc = "exited"
    BY <1>4, <1>6, <2>1 DEF Send
  <2>2. CASE cpc # "exited"
    <3>1. inbox' = Append(inbox, m) /\ inbox \in Seq(Message)
      BY <1>6, <2>2 DEF Send, TypeOK
    <3>2. /\ Len(inbox') = Len(inbox) + 1 /\ inbox' \in Seq(Message)
          /\ \A k \in 1 .. Len(inbox) : inbox'[k] = inbox[k]
          /\ inbox'[Len(inbox) + 1] = m /\ Len(inbox) \in Nat
      BY <3>1, AppendProperties, LenProperties
    <3>3. ASSUME NEW k \in DOMAIN inbox'
          PROVE  inbox'[k] = m \/ (k \in DOMAIN inbox /\ inbox'[k] = inbox[k])
      <4>1. DOMAIN inbox' = 1 .. Len(inbox) + 1 /\ DOMAIN inbox = 1 .. Len(inbox)
        BY <3>1, <3>2, LenProperties
      <4>. QED  BY <3>2, <3>3, <4>1
    <3>. QED  BY <1>3, <1>6, <3>3 DEF AccountInv, ItemsInv
  <2>. QED  BY <2>1, <2>2
<1>7. NoItem \in WorkItem
  BY DEF NoItem, Item, WorkItem, Module
<1>8. ItemsInv'
  <2>1. CASE PrepareCgus \/ WaitForSignal \/ DropJoined \/ JoinMeetsError
             \/ JoinReturns
    BY <1>4, <2>1 DEF PrepareCgus, WaitForSignal, DropJoined, JoinMeetsError,
       JoinReturns
  <2>2. CASE SubmitAllocator
    <3>. DEFINE m == [type |-> "CodegenDone", item |-> Item("Optimize", {Alloc})]
    <3>1. m \in Message /\ m.item.mod = {Alloc}
      BY DEF Message, Item, WorkItem, Module, AllUnits
    <3>2. Send(m) /\ Alloc \in todo /\ todo' = todo \ {Alloc} /\ mpc = "translate"
      BY <2>2 DEF SubmitAllocator
    <3>. HIDE DEF m
    <3>. QED  BY <1>5, <3>1, <3>2
  <2>3. ASSUME NEW u \in Cgus, CodegenCgu(u)
        PROVE  ItemsInv'
    <3>1. PICK op \in {"Optimize", "LTO", "CopyPostLtoArtifacts"},
               t \in {"CodegenDone", "AddImportOnlyModule"} :
            Send([type |-> t, item |-> Item(op, {u})])
      BY <2>3 DEF CodegenCgu
    <3>. DEFINE m == [type |-> t, item |-> Item(op, {u})]
    <3>2. m \in Message /\ m.item.mod = {u}
      BY DEF Message, Item, WorkItem, Module, AllUnits
    <3>3. Send(m) /\ u \in todo /\ todo' = todo \ {u} /\ mpc = "translate"
      BY <2>3, <3>1 DEF CodegenCgu
    <3>. HIDE DEF m
    <3>. QED  BY <1>5, <3>2, <3>3
  <2>4. CASE CodegenFinished \/ DropCoordinator
    <3>1. PICK t \in {"CodegenComplete", "CodegenAborted"} :
            Send(Plain(t)) /\ UNCHANGED todo
      BY <2>4 DEF CodegenFinished, DropCoordinator
    <3>2. Plain(t) \in Message /\ Plain(t).type # "CodegenDone"
      BY <1>7 DEF Message, Plain
    <3>. QED  BY <1>6, <3>1, <3>2
  <2>. QED  BY <2>1, <2>2, <2>3, <2>4 DEF Main
<1>. QED  BY <1>2, <1>8 DEF AccountInv

\* A coordinator that ends has nothing left to account for.
LEMMA LeaveAccount ==
  ASSUME TypeOK', AccountInv, cpc' = "exited",
         UNCHANGED <<todo, inbox, workItems, running, finished>>
  PROVE  AccountInv'
<1>1. ItemsInv'
  BY DEF AccountInv, ItemsInv, Known
<1>. QED  BY <1>1 DEF AccountInv, TokenInv, WorkerAccounting, Running

\* A turn that ends in spawning keeps the accounts: each item started has its
\* token or, if lend, the implicit one.
LEMMA SpawnKeepsAccount ==
  ASSUME TypeOK, TypeOK', AccountInv, cpc = "top",
         NEW w \in Nat, NEW lend \in {0, 1},
         lend <= Cardinality(workItems), SpawnWork(workItems, w, lend),
         w <= own,
         w + (IF mainThreadState' = "Lending" THEN 1 ELSE 0)
           = own + (IF mainThreadState = "Lending" THEN 1 ELSE 0) + lend,
         UNCHANGED <<todo, inbox, finished>>
  PROVE  AccountInv'
<1>1. /\ workItems \in SUBSET WorkItem /\ workItems \cap running = {}
      /\ own \in Nat /\ tokens \in Nat /\ Pool \in Nat
      /\ own <= tokens /\ tokens <= Pool
      /\ Cardinality(running) \in Nat /\ Cardinality(finished) \in Nat
      /\ Cardinality(running) + Cardinality(finished)
           = own + (IF mainThreadState = "Lending" THEN 1 ELSE 0)
  BY ItemSetsFinite, PoolAssumption
     DEF TypeOK, AccountInv, ItemsInv, TokenInv, WorkerAccounting, Running,
         RunningWithAnyToken
<1>2. PICK n \in Nat :
        /\ own' = w + n /\ tokens' = own' /\ own' <= tokens /\ cpc' = "recv"
        /\ Cardinality(running') = Cardinality(running) + lend + n
        /\ workItems' \cup running' = workItems \cup running
        /\ workItems' \cap running' = {}
  BY <1>1, SpawnAccount
<1>3. ItemsInv'
  <2>1. Known' = Known
    BY <1>2 DEF Known
  <2>2. /\ IsFiniteSet(workItems)' /\ IsFiniteSet(running)' /\ IsFiniteSet(finished)'
    BY ItemSetsFinite, PTL
  <2>. QED  BY <1>2, <2>1, <2>2 DEF AccountInv, ItemsInv
<1>4. TokenInv'
  BY <1>1, <1>2 DEF TokenInv
<1>5. WorkerAccounting'
  BY <1>1, <1>2 DEF WorkerAccounting, RunningWithAnyToken
<1>. QED  BY <1>3, <1>4, <1>5 DEF AccountInv

\* When LTO starts no worker is left, nothing is to do and no answer is on its
\* way, so the items of LTO cannot meet others.
LEMMA LtoStart ==
  ASSUME TypeOK, HandshakeInv, AccountInv, cpc = "top",
         codegenState = "Completed", AllWorkDone
  PROVE  /\ running = {} /\ finished = {} /\ todo = {} /\ own = 0
         /\ mainThreadState # "Lending"
         /\ \A k \in DOMAIN inbox : inbox[k].type # "CodegenDone"
<1>1. /\ own \in Nat /\ IsFiniteSet(running) /\ IsFiniteSet(finished)
      /\ Cardinality(running) \in Nat /\ Cardinality(finished) \in Nat
  BY ItemSetsFinite DEF TypeOK
<1>2. own = 0 /\ mainThreadState # "Lending"
  BY <1>1 DEF AllWorkDone, RunningWithAnyToken
<1>3. Cardinality(running) = 0 /\ Cardinality(finished) = 0
  BY <1>1, <1>2 DEF AccountInv, WorkerAccounting, RunningWithAnyToken, Running
<1>4. running = {} /\ finished = {}
  BY <1>1, <1>3, FS_EmptySet
<1>5. todo = {} /\ mainThreadState # "Codegenning"
  BY DEF HandshakeInv, Running
<1>6. ASSUME NEW k \in DOMAIN inbox PROVE inbox[k].type # "CodegenDone"
  <2>1. inbox \in Seq(Message)
    BY DEF TypeOK
  <2>2. k \in 1 .. Len(inbox) /\ inbox # <<>>
    BY <1>6, <2>1, LenProperties, EmptySeq
  <2>3. inbox[1].type \notin Answers /\ Len(inbox) = 1
    BY <1>5, <2>2 DEF HandshakeInv, Running, InboxShape
  <2>4. k = 1
    BY <2>2, <2>3
  <2>. QED  BY <2>3, <2>4 DEF Answers
<1>. QED  BY <1>2, <1>4, <1>5, <1>6

\* A turn moves items from the queue to workers and counts each of them once.
LEMMA TurnAccount ==
  ASSUME TypeOK, TypeOK', HandshakeInv, AccountInv, Turn
  PROVE  AccountInv'
<1>. USE DEF mainVars, confVars, exitVars, queueVars, ltoVars, envVars
<1>1. ASSUME NEW why, Panic(why), UNCHANGED <<todo, inbox>>
      PROVE  AccountInv'
  BY <1>1, LeaveAccount DEF Panic, Leave
<1>2. /\ own \in Nat /\ tokens \in Nat /\ Cardinality(workItems) \in Nat
      /\ workItems \in SUBSET WorkItem
      /\ cpc = "top" => own <= tokens /\ tokens <= Pool
  BY ItemSetsFinite DEF TypeOK, AccountInv, TokenInv, Running
<1>3. CASE TurnOngoingIdle
  <2>1. CASE Panic("checked_sub") \/ Panic("send_failed")
    BY <1>1, <1>3, <2>1 DEF TurnOngoingIdle
  <2>2. CASE /\ QueueFullEnough(Cardinality(workItems), AnticipatedRunning)
             /\ mainThreadState' = "Lending" /\ SpawnWork(workItems, own, 1)
             /\ UNCHANGED finished
    <3>1. 1 <= Cardinality(workItems)
      BY <1>2, <2>2 DEF QueueFullEnough
    <3>. QED  BY <1>2, <1>3, <2>2, <3>1, SpawnKeepsAccount DEF TurnOngoingIdle
  <2>3. CASE /\ mainThreadState' = "Codegenning" /\ SpawnWork(workItems, own, 0)
             /\ UNCHANGED finished
    BY <1>2, <1>3, <2>3, SpawnKeepsAccount DEF TurnOngoingIdle
  <2>. QED  BY <1>3, <2>1, <2>2, <2>3 DEF TurnOngoingIdle
<1>4. CASE TurnOngoingBusy
  BY <1>2, <1>4, SpawnKeepsAccount DEF TurnOngoingBusy
<1>5. CASE TurnCompletedDone
  BY <1>5, LeaveAccount DEF TurnCompletedDone, ReturnModules, Leave
<1>6. CASE TurnCompletedLto
  <2>1. CASE Panic("lto_restarted") \/ Panic("codegenning_completed")
    BY <1>1, <1>6, <2>1 DEF TurnCompletedLto
  <2>2. ASSUME NEW reused \in SUBSET (IF lists["fat"] = {} THEN lists["import"] ELSE {}),
               StartLto(reused)
        PROVE  AccountInv'
    <3>1. CASE Panic("lto_unreachable")
      BY <1>1, <1>6, <3>1 DEF TurnCompletedLto
    <3>2. CASE Leave("lto_failed") /\ UNCHANGED <<workItems, running, finished>>
      BY <1>6, <3>2, LeaveAccount DEF TurnCompletedLto, Leave
    <3>. DEFINE work == GenerateLtoWork(reused)
    <3>3. CASE /\ mainThreadState' = "Lending" /\ SpawnWork(work, own, 1)
               /\ UNCHANGED finished
      <4>1. /\ running = {} /\ finished = {} /\ todo = {} /\ own = 0
            /\ \A k \in DOMAIN inbox : inbox[k].type # "CodegenDone"
            /\ UNCHANGED <<todo, inbox>> /\ ~NoLtoWork /\ cpc = "top"
        BY <1>6, LtoStart DEF TurnCompletedLto
      <4>2. work \in SUBSET WorkItem /\ 1 <= Cardinality(work)
            /\ Cardinality(work) \in Nat
        BY <2>2, <4>1, LtoWork, NonEmptyQueue
      <4>. HIDE DEF work
      <4>3. PICK n \in Nat :
              /\ own' = 0 + n /\ tokens' = own' /\ own' <= tokens /\ cpc' = "recv"
              /\ Cardinality(running') = Cardinality(running) + 1 + n
              /\ workItems' \cap running' = {}
        BY <1>2, <3>3, <4>1, <4>2, SpawnAccount
      <4>4. Cardinality(running) = 0 /\ Cardinality(finished') = 0
        BY <3>3, <4>1, FS_EmptySet
      <4>5. IsFiniteSet(workItems)' /\ IsFiniteSet(running)' /\ IsFiniteSet(finished)'
        BY ItemSetsFinite, PTL
      <4>6. ItemsInv'
        BY <3>3, <4>1, <4>3, <4>5 DEF ItemsInv, Known
      <4>7. TokenInv'
        BY <1>2, <4>1, <4>3, PoolAssumption DEF TokenInv
      <4>8. WorkerAccounting'
        BY <3>3, <4>3, <4>4 DEF WorkerAccounting, RunningWithAnyToken
      <4>. QED  BY <4>6, <4>7, <4>8 DEF AccountInv
    <3>. QED  BY <2>2, <3>1, <3>2, <3>3 DEF StartLto
  <2>. QED  BY <1>6, <2>1, <2>2 DEF TurnCompletedLto
<1>7. CASE TurnCompleted
  <2>1. CASE Panic("codegenning_completed")
    BY <1>1, <1>7, <2>1 DEF TurnCompleted
  <2>2. CASE mainThreadState = "Lending" /\ UNCHANGED <<mainThreadState, finished>>
             /\ SpawnWork(workItems, own, 0)
    BY <1>2, <1>7, <2>2, SpawnKeepsAccount DEF TurnCompleted
  <2>3. CASE /\ mainThreadState = "Idle" /\ mainThreadState' = "Lending"
             /\ UNCHANGED finished /\ workItems # {} /\ SpawnWork(workItems, own, 1)
    BY <1>2, <1>7, <2>3, NonEmptyQueue, SpawnKeepsAccount DEF TurnCompleted
  <2>4. CASE /\ mainThreadState = "Idle" /\ mainThreadState' = "Lending"
             /\ UNCHANGED finished /\ workItems = {}
             /\ SpawnWork(workItems, own - 1, 0)
    <3>1. own - 1 \in Nat /\ own - 1 + 1 = own + 0 + 0 /\ own - 1 <= own
      BY <1>2, <1>7, <2>4 DEF TurnCompleted, AllWorkDone, RunningWithAnyToken
    <3>. DEFINE w == own - 1
    <3>2. w \in Nat /\ w + 1 = own + 0 + 0 /\ w <= own /\ SpawnWork(workItems, w, 0)
      BY <2>4, <3>1
    <3>. HIDE DEF w
    <3>. QED  BY <1>2, <1>7, <2>4, <3>2, SpawnKeepsAccount DEF TurnCompleted
  <2>. QED  BY <1>7, <2>1, <2>2, <2>3, <2>4 DEF TurnCompleted, TypeOK
<1>8. CASE TurnAborted
  <2>1. CASE cpc' = "exited"
    BY <1>8, <2>1, LeaveAccount DEF TurnAborted
  <2>2. CASE cpc' # "exited"
    <3>1. tokens' = Least(tokens, own) /\ UNCHANGED <<own, mainThreadState, todo,
            inbox, workItems, running, finished>> /\ cpc = "top"
      BY <1>8, <2>2 DEF TurnAborted, Leave
    <3>2. TokenInv'
      BY <1>2, <3>1, PoolAssumption DEF TokenInv, Least
    <3>. QED  BY <3>1, <3>2 DEF AccountInv, ItemsInv, Known, WorkerAccounting,
              RunningWithAnyToken, Running
  <2>. QED  BY <2>1, <2>2
<1>. QED  BY <1>3, <1>4, <1>5, <1>6, <1>7, <1>8 DEF Turn

\* After a message is received no item is left on its way.
LEMMA ReceiveEmpties ==
  ASSUME TypeOK, HandshakeInv, NEW t, Receive(t)
  PROVE  \A k \in DOMAIN inbox' : inbox'[k].type # "CodegenDone"
<1>. SUFFICES ASSUME NEW k \in DOMAIN inbox'
              PROVE  inbox'[k].type # "CodegenDone"
  OBVIOUS
<1>1. inbox' \in Seq(Message)
  BY ReceiveTyped
<1>2. k \in 1 .. Len(inbox') /\ Len(inbox') # 0
  BY <1>1, LenProperties
<1>3. Len(inbox') = 1 /\ inbox'[1].type = "CodegenAborted"
  BY <1>2, ReceiveEffect
<1>4. k = 1
  BY <1>2, <1>3
<1>. QED  BY <1>3, <1>4

\* A worker's message lowers one of the two counters, a token moves a worker from
\* one counter to the other.
LEMMA HandleAccount ==
  ASSUME TypeOK, TypeOK', HandshakeInv, AccountInv,
         Handle \/ TokenAcquired \/ TokenFailed
  PROVE  AccountInv'
<1>. USE DEF mainVars, confVars, exitVars, queueVars, ltoVars, envVars
<1>1. /\ own \in Nat /\ tokens \in Nat /\ Pool \in Nat
      /\ cpc = "recv" => own <= tokens /\ tokens <= Pool
      /\ IsFiniteSet(workItems)' /\ IsFiniteSet(running)' /\ IsFiniteSet(finished)'
  <2>1. IsFiniteSet(workItems)' /\ IsFiniteSet(running)' /\ IsFiniteSet(finished)'
    BY ItemSetsFinite, PTL
  <2>. QED  BY <2>1, PoolAssumption DEF TypeOK, AccountInv, TokenInv, Running
<1>2. ASSUME NEW t, Receive(t), UNCHANGED <<todo, workItems, running, finished>>
      PROVE  ItemsInv'
  <2>1. \A k \in DOMAIN inbox' : inbox'[k].type # "CodegenDone"
    BY <1>2, ReceiveEmpties
  <2>. QED  BY <1>2, <2>1 DEF AccountInv, ItemsInv, Known
<1>3. ASSUME ItemsInv', \E why : Panic(why)
      PROVE  AccountInv'
  BY <1>3 DEF AccountInv, TokenInv, WorkerAccounting, Running, Panic, Leave
<1>4. ASSUME UNCHANGED <<todo, inbox, workItems, running, finished>>
      PROVE  ItemsInv'
  BY <1>4 DEF AccountInv, ItemsInv, Known
<1>5. CASE TokenAcquired
  BY <1>1, <1>4, <1>5 DEF TokenAcquired, Loop, AccountInv, TokenInv,
     WorkerAccounting, RunningWithAnyToken, Running
<1>6. CASE TokenFailed
  BY <1>4, <1>6 DEF TokenFailed, Loop, AccountInv, TokenInv,
     WorkerAccounting, RunningWithAnyToken, Running
<1>7. ASSUME ItemsInv', cpc = "recv", mainThreadState = "Codegenning",
             mainThreadState' = "Idle",
             UNCHANGED <<tokens, own, running, finished>>
      PROVE  AccountInv'
  BY <1>7 DEF AccountInv, TokenInv, WorkerAccounting, RunningWithAnyToken, Running
<1>8. CASE CodegenDone
  <2>1. CASE mainThreadState # "Codegenning"
    BY <1>2, <1>3, <1>8, <2>1 DEF CodegenDone, Panic
  <2>2. CASE mainThreadState = "Codegenning"
    <3>1. Receive("CodegenDone") /\ workItems' = workItems \cup {Head(inbox).item}
          /\ UNCHANGED <<todo, running, finished, tokens, own>>
          /\ mainThreadState' = "Idle"
      BY <1>8, <2>2 DEF CodegenDone
    <3>. DEFINE i == Head(inbox).item
    <3>2. 1 \in DOMAIN inbox /\ inbox[1].type = "CodegenDone" /\ i = inbox[1].item
          /\ cpc = "recv"
      BY <3>1, ReceiveTyped DEF TypeOK
    <3>3. i \notin Known /\ \A u \in todo : i.mod # {u}
      BY <3>2 DEF AccountInv, ItemsInv
    <3>4. \A k \in DOMAIN inbox' : inbox'[k].type # "CodegenDone"
      BY <3>1, ReceiveEmpties
    <3>5. workItems' = workItems \cup {i}
      BY <3>1
    <3>. HIDE DEF i
    <3>6. ItemsInv'
      BY <1>1, <3>1, <3>3, <3>4, <3>5 DEF AccountInv, ItemsInv, Known
    <3>. QED  BY <1>7, <2>2, <3>1, <3>2, <3>6
  <2>. QED  BY <2>1, <2>2
<1>9. CASE AddImportOnlyModule
  <2>1. ItemsInv'
    BY <1>2, <1>9 DEF AddImportOnlyModule, Panic
  <2>2. cpc = "recv"
    BY <1>9 DEF AddImportOnlyModule, Receive
  <2>. QED  BY <1>3, <1>7, <1>9, <2>1, <2>2 DEF AddImportOnlyModule
<1>10. CASE CodegenComplete
  <2>1. ItemsInv'
    BY <1>2, <1>10 DEF CodegenComplete, Panic
  <2>2. cpc = "recv"
    BY <1>10 DEF CodegenComplete, Receive
  <2>. QED  BY <1>3, <1>7, <1>10, <2>1, <2>2 DEF CodegenComplete
<1>11. CASE CodegenAborted
  <2>1. ItemsInv'
    BY <1>2, <1>11 DEF CodegenAborted
  <2>. QED  BY <1>11, <2>1 DEF CodegenAborted, Receive, Loop, AccountInv, TokenInv,
            WorkerAccounting, RunningWithAnyToken, Running
<1>12. ASSUME NEW f \in finished, WorkItemDone(f)
       PROVE  AccountInv'
  <2>1. CASE \E why : Panic(why)
    <3>1. UNCHANGED <<todo, inbox, workItems, running, finished>>
      BY <1>12, <2>1 DEF WorkItemDone, Panic
    <3>. QED  BY <1>3, <1>4, <2>1, <3>1
  <2>2. CASE ~\E why : Panic(why)
    <3>1. /\ RunningWithAnyToken # 0 /\ FreeWorker /\ cpc = "recv" /\ cpc' = "top"
          /\ finished' = finished \ {f}
          /\ UNCHANGED <<todo, inbox, workItems, tokens, running>>
      BY <1>12, <2>2 DEF WorkItemDone, Loop
    <3>2. ItemsInv'
      BY <1>1, <3>1 DEF AccountInv, ItemsInv, Known
    <3>3. /\ Cardinality(finished') = Cardinality(finished) - 1
          /\ Cardinality(finished) \in Nat /\ Cardinality(running) \in Nat
      BY <1>12, <3>1, ItemSetsFinite, FS_RemoveElement
    <3>4. RunningWithAnyToken' = RunningWithAnyToken - 1 /\ own' <= own
      BY <1>1, <3>1 DEF FreeWorker, RunningWithAnyToken
    <3>5. WorkerAccounting'
      <4>1. Cardinality(running) + Cardinality(finished) = RunningWithAnyToken
        BY <3>1 DEF AccountInv, WorkerAccounting, Running
      <4>2. RunningWithAnyToken \in Nat
        BY <1>1 DEF RunningWithAnyToken
      <4>3. Cardinality(running') = Cardinality(running)
        BY <3>1
      <4>. QED  BY <3>3, <3>4, <4>1, <4>2, <4>3 DEF WorkerAccounting
    <3>6. TokenInv'
      BY <1>1, <3>1, <3>4 DEF TokenInv, TypeOK
    <3>. QED  BY <3>2, <3>5, <3>6 DEF AccountInv
  <2>. QED  BY <2>1, <2>2
<1>. QED  BY <1>5, <1>6, <1>8, <1>9, <1>10, <1>11, <1>12 DEF Handle

\* A worker that ends turns into a result that was not there.
LEMMA WorkerAccount ==
  ASSUME TypeOK, TypeOK', AccountInv, NEW i \in running, Worker(i)
  PROVE  AccountInv'
<1>. USE DEF mainVars, confVars, exitVars, queueVars, ltoVars, envVars
<1>1. PICK res : WorkerEnds(i, res)
  BY DEF Worker, WorkerSucceeds, WorkerCopyFails, WorkerFails, WorkerPanics
<1>. DEFINE f == [item |-> i, res |-> res]
<1>2. /\ running' = running \ {i} /\ finished' = finished \cup {f} /\ f.item = i
      /\ UNCHANGED <<todo, inbox, workItems, tokens, own, mainThreadState, cpc>>
  BY <1>1 DEF WorkerEnds
<1>. HIDE DEF f
<1>3. f \notin finished
  BY <1>2 DEF AccountInv, ItemsInv
<1>4. /\ Cardinality(running') = Cardinality(running) - 1
      /\ Cardinality(finished') = Cardinality(finished) + 1
      /\ Cardinality(running) \in Nat /\ Cardinality(finished) \in Nat
  BY <1>2, <1>3, ItemSetsFinite, FS_RemoveElement, FS_AddElement
<1>5. WorkerAccounting' /\ TokenInv'
  <2>1. RunningWithAnyToken' = RunningWithAnyToken /\ Running' = Running
    BY <1>2 DEF RunningWithAnyToken, Running
  <2>. QED  BY <1>2, <1>4, <2>1 DEF AccountInv, WorkerAccounting, TokenInv
<1>6. IsFiniteSet(workItems)' /\ IsFiniteSet(running)' /\ IsFiniteSet(finished)'
  BY ItemSetsFinite, PTL
<1>7. Known' = Known
  BY <1>2 DEF Known
<1>8. ItemsInv'
  BY <1>2, <1>6, <1>7 DEF AccountInv, ItemsInv
<1>. QED  BY <1>5, <1>8 DEF AccountInv

\* AccountInv is inductive, given the types and the handshake.
LEMMA NextAccount ==
  TypeOK /\ TypeOK' /\ HandshakeInv /\ AccountInv /\ [Next]_vars => AccountInv'
<1>. SUFFICES ASSUME TypeOK, TypeOK', HandshakeInv, AccountInv, [Next]_vars
              PROVE  AccountInv'
  OBVIOUS
<1>1. ASSUME UNCHANGED <<todo, inbox, workItems, running, finished, tokens, own,
                         mainThreadState, cpc>>
      PROVE  AccountInv'
  BY <1>1 DEF AccountInv, ItemsInv, Known, TokenInv, WorkerAccounting, Running,
     RunningWithAnyToken
<1>2. CASE \/ Terminated \/ PrepareCgusFails \/ \E u \in Cgus : CodegenCguFails(u)
           \/ UNCHANGED vars
  BY <1>1, <1>2 DEF Terminated, PrepareCgusFails, CodegenCguFails, vars, mainVars, confVars,
     coordinatorVars, exitVars, queueVars, ltoVars, envVars
<1>. QED  BY <1>2, MainAccount, TurnAccount, HandleAccount, WorkerAccount DEF Next

\* The counters running_with_own_token and the state of the main thread agree
\* with the workers there are, and the tokens held cover them.
THEOREM AccountCorrect == Spec => []AccountInv
<1>1. TypeOK /\ HandshakeInv /\ AccountInv /\ [Next]_vars => AccountInv'
  BY NextTyped, NextAccount
<1>. QED  BY <1>1, TypeCorrect, HandshakeCorrect, InitAccount, PTL DEF Spec

\* The workers the coordinator has not heard back from are those it counts.
THEOREM AccountingCorrect == Spec => []WorkerAccounting
<1>1. AccountInv => WorkerAccounting
  BY DEF AccountInv
<1>. QED  BY <1>1, AccountCorrect, PTL

\* The jobserver's promise is kept: no more threads than tokens.
THEOREM ParallelismCorrect == Spec => []ParallelismCapped
<1>1. TypeOK /\ HandshakeInv /\ AccountInv => ParallelismCapped
  <2>. SUFFICES ASSUME TypeOK, HandshakeInv, AccountInv, Running
                PROVE  /\ tokens <= Pool
                       /\ Cardinality(running) + (IF Translating THEN 1 ELSE 0)
                            <= tokens + 1
    BY DEF ParallelismCapped
  <2>1. /\ Cardinality(running) \in Nat /\ Cardinality(finished) \in Nat
        /\ own \in Nat /\ tokens \in Nat
    BY ItemSetsFinite DEF TypeOK
  <2>2. own <= tokens /\ tokens <= Pool
        /\ Cardinality(running) + Cardinality(finished) = RunningWithAnyToken
    BY DEF AccountInv, TokenInv, WorkerAccounting
  <2>3. Translating => mainThreadState = "Codegenning"
    BY DEF HandshakeInv
  <2>. QED  BY <2>1, <2>2, <2>3 DEF RunningWithAnyToken
<1>. QED  BY <1>1, TypeCorrect, HandshakeCorrect, AccountCorrect, PTL

-------------------------------------------------------------------------------
(***************************************************************************)
(* Every queued item has its token request                                 *)
(***************************************************************************)
\* A turn that ends in spawning pops an item for each token it puts to use; the
\* item the implicit token is lent to leaves a request to spare.
LEMMA SpawnCovered ==
  ASSUME TypeOK, AccountInv, RequestsCoverQueue, cpc = "top",
         NEW lend \in {0, 1}, lend <= Cardinality(workItems),
         SpawnWork(workItems, own, lend),
         mainThreadState' = "Lending" => lend = 1 \/ mainThreadState = "Lending",
         UNCHANGED <<conf, codegenState, requested>>
  PROVE  RequestsCoverQueue'
<1>. SUFFICES ASSUME codegenState # "Aborted", ~conf.noParallel
              PROVE  Cardinality(workItems')
                       + (IF mainThreadState' = "Lending" /\ workItems' # {}
                          THEN 1 ELSE 0)
                     <= requested' + (tokens' - own')
  BY DEF RequestsCoverQueue
<1>1. /\ workItems \in SUBSET WorkItem /\ workItems \cap running = {}
      /\ own \in Nat /\ tokens \in Nat /\ own <= tokens
      /\ requested \in Nat /\ Cardinality(workItems) \in Nat
  BY ItemSetsFinite DEF TypeOK, AccountInv, ItemsInv, TokenInv, Running
<1>2. Cardinality(workItems)
        + (IF mainThreadState = "Lending" /\ workItems # {} THEN 1 ELSE 0)
      <= requested + (tokens - own)
  BY DEF RequestsCoverQueue, Running
<1>3. PICK n \in Nat :
        /\ own' = own + n /\ tokens' = own' /\ own' <= tokens
        /\ Cardinality(workItems') = Cardinality(workItems) - (lend + n)
        /\ own' < tokens => workItems' = {}
  BY <1>1, SpawnAccount
<1>4. workItems' # {} => workItems # {}
  BY DEF SpawnWork
<1>5. CASE workItems' = {}
  <2>1. Cardinality(workItems') = 0
    BY <1>5, FS_EmptySet
  <2>. QED  BY <1>1, <1>3, <1>5, <2>1
<1>6. CASE workItems' # {}
  <2>1. own' = tokens
    BY <1>1, <1>3, <1>6
  <2>. QED  BY <1>1, <1>2, <1>3, <1>4, <1>6, <2>1
<1>. QED  BY <1>5, <1>6

\* Each item queued brings a request, each token received starts an item.
LEMMA NextCovered ==
  ASSUME TypeOK, TypeOK', HandshakeInv, AccountInv, AccountInv',
         RequestsCoverQueue, Next
  PROVE  RequestsCoverQueue'
<1>. USE DEF mainVars, confVars, coordinatorVars, exitVars, queueVars, ltoVars,
             envVars
<1>1. /\ workItems \in SUBSET WorkItem /\ Cardinality(workItems) \in Nat
      /\ own \in Nat /\ tokens \in Nat /\ requested \in Nat
      /\ IsFiniteSet(workItems) /\ Cardinality({}) = 0
      /\ cpc # "exited" => own <= tokens
  BY ItemSetsFinite, FS_EmptySet DEF TypeOK, AccountInv, TokenInv, Running
<1>2. ASSUME cpc' = "exited" \/ codegenState' = "Aborted"
      PROVE  RequestsCoverQueue'
  BY <1>2 DEF RequestsCoverQueue, Running
<1>3. ASSUME UNCHANGED <<cpc, codegenState, conf, workItems, mainThreadState,
                         requested, tokens, own>>
      PROVE  RequestsCoverQueue'
  BY <1>3 DEF RequestsCoverQueue, Running
<1>4. ASSUME NEW why, Panic(why) PROVE RequestsCoverQueue'
  BY <1>2, <1>4 DEF Panic, Leave
<1>5. ASSUME workItems' = {}, cpc' # "exited" => own' <= tokens'
      PROVE  RequestsCoverQueue'
  <2>1. own' \in Nat /\ tokens' \in Nat /\ requested' \in Nat
        /\ Cardinality(workItems') = 0
    BY <1>1, <1>5 DEF TypeOK
  <2>. QED  BY <1>5, <2>1 DEF RequestsCoverQueue, Running
<1>6. CASE Main
  BY <1>3, <1>6 DEF Main, PrepareCgus, WaitForSignal, SubmitAllocator, CodegenCgu,
     CodegenFinished, DropCoordinator, DropJoined, JoinMeetsError, JoinReturns
<1>7. CASE TurnOngoingIdle
  <2>1. CASE \E why : Panic(why)
    BY <1>4, <2>1
  <2>2. CASE ~\E why : Panic(why)
    BY <1>1, <1>7, <2>2, SpawnCovered DEF TurnOngoingIdle, QueueFullEnough
  <2>. QED  BY <2>1, <2>2
<1>8. CASE TurnOngoingBusy
  BY <1>1, <1>8, SpawnCovered DEF TurnOngoingBusy
<1>9. CASE TurnCompletedDone
  BY <1>2, <1>9 DEF TurnCompletedDone, ReturnModules, Leave
<1>10. CASE TurnCompletedLto
  <2>1. ASSUME NEW reused \in SUBSET (IF lists["fat"] = {} THEN lists["import"] ELSE {}),
               StartLto(reused)
        PROVE  RequestsCoverQueue'
    <3>1. CASE Panic("lto_unreachable") \/ Leave("lto_failed")
      BY <1>2, <1>4, <3>1 DEF Leave
    <3>. DEFINE work == GenerateLtoWork(reused)
    <3>2. CASE /\ requested' = requested
                    + (IF conf.noParallel THEN 0 ELSE Cardinality(work))
               /\ SpawnWork(work, own, 1)
      <4>1. running = {} /\ own = 0 /\ ~NoLtoWork /\ cpc = "top"
        BY <1>10, LtoStart DEF TurnCompletedLto
      <4>2. work \in SUBSET WorkItem /\ 1 <= Cardinality(work)
            /\ Cardinality(work) \in Nat
        BY <2>1, <4>1, LtoWork, NonEmptyQueue
      <4>. HIDE DEF work
      <4>3. PICK n \in Nat :
              /\ tokens' = own' /\ own' \in Nat
              /\ Cardinality(workItems') = Cardinality(work) - (1 + n)
        BY <1>1, <3>2, <4>1, <4>2, SpawnAccount
      <4>. QED  BY <1>1, <1>10, <3>2, <4>2, <4>3
                DEF RequestsCoverQueue, TurnCompletedLto
    <3>. QED  BY <2>1, <3>1, <3>2 DEF StartLto
  <2>. QED  BY <1>4, <1>10, <2>1 DEF TurnCompletedLto
<1>11. CASE TurnCompleted
  <2>1. CASE Panic("codegenning_completed")
    BY <1>4, <2>1
  <2>2. CASE mainThreadState = "Lending" /\ SpawnWork(workItems, own, 0)
             /\ UNCHANGED <<codegenState, requested>>
    BY <1>1, <1>11, <2>2, SpawnCovered DEF TurnCompleted
  <2>3. CASE workItems # {} /\ SpawnWork(workItems, own, 1)
             /\ UNCHANGED <<codegenState, requested>>
    BY <1>1, <1>11, <2>3, SpawnCovered, NonEmptyQueue DEF TurnCompleted
  <2>4. CASE workItems = {} /\ SpawnWork(workItems, own - 1, 0)
    <3>1. workItems' = {}
      BY <2>4 DEF SpawnWork
    <3>. QED  BY <1>5, <3>1 DEF AccountInv, TokenInv, Running
  <2>. QED  BY <1>11, <2>1, <2>2, <2>3, <2>4 DEF TurnCompleted
<1>12. CASE TurnAborted \/ TokenFailed \/ CodegenAborted
  BY <1>2, <1>12 DEF TurnAborted, TokenFailed, CodegenAborted
<1>13. CASE TokenAcquired
  <2>1. CASE workItems = {}
    BY <1>5, <1>13, <2>1 DEF TokenAcquired, AccountInv, TokenInv, Running
  <2>2. CASE workItems # {}
    BY <1>1, <1>13, <2>2 DEF TokenAcquired, RequestsCoverQueue, Running
  <2>. QED  BY <2>1, <2>2
<1>14. CASE CodegenDone
  <2>1. CASE mainThreadState # "Codegenning"
    BY <1>4, <1>14, <2>1 DEF CodegenDone
  <2>2. CASE mainThreadState = "Codegenning"
    <3>1. /\ workItems' = workItems \cup {Head(inbox).item} /\ cpc = "recv"
          /\ requested' = requested + (IF conf.noParallel THEN 0 ELSE 1)
          /\ mainThreadState' = "Idle"
          /\ UNCHANGED <<conf, codegenState, tokens, own>>
      BY <1>14, <2>2 DEF CodegenDone, Receive
    <3>2. Cardinality(workItems') <= Cardinality(workItems) + 1
      BY <1>1, <3>1, FS_AddElement
    <3>3. Cardinality(workItems') \in Nat
      BY <1>1, <3>1, FS_AddElement, FS_CardinalityType
    <3>. QED  BY <1>1, <2>2, <3>1, <3>2, <3>3 DEF RequestsCoverQueue, Running
  <2>. QED  BY <2>1, <2>2
<1>15. CASE AddImportOnlyModule \/ CodegenComplete
  <2>1. CASE \E why : Panic(why)
    BY <1>4, <2>1
  <2>2. CASE ~\E why : Panic(why)
    BY <1>15, <2>2 DEF AddImportOnlyModule, CodegenComplete, Receive,
       RequestsCoverQueue, Running
  <2>. QED  BY <2>1, <2>2
<1>16. ASSUME NEW f \in finished, WorkItemDone(f)
       PROVE  RequestsCoverQueue'
  <2>1. CASE (\E why : Panic(why)) \/ codegenState' = "Aborted"
    BY <1>2, <1>4, <2>1
  <2>2. CASE ~(\E why : Panic(why)) /\ codegenState' # "Aborted"
    <3>1. FreeWorker /\ cpc = "recv"
          /\ UNCHANGED <<conf, codegenState, workItems, tokens, requested>>
      BY <1>16, <2>2 DEF WorkItemDone
    <3>. QED  BY <1>1, <3>1 DEF FreeWorker, RequestsCoverQueue, Running
  <2>. QED  BY <2>1, <2>2
<1>17. CASE \E i \in running : Worker(i)
  BY <1>3, <1>17 DEF Worker, WorkerSucceeds, WorkerCopyFails, WorkerFails,
     WorkerPanics, WorkerEnds
<1>18. CASE Terminated \/ PrepareCgusFails \/ \E u \in Cgus : CodegenCguFails(u)
  BY <1>3, <1>18 DEF Terminated, PrepareCgusFails, CodegenCguFails, vars
<1>. QED  BY <1>6, <1>7, <1>8, <1>9, <1>10, <1>11, <1>12, <1>13, <1>14, <1>15,
             <1>16, <1>17, <1>18 DEF Next, Turn, Handle

\* queue_full_enough's assumption: a queued item's token request is pending.
THEOREM RequestsCorrect == Spec => []RequestsCoverQueue
<1>1. Init => RequestsCoverQueue
  BY FS_EmptySet DEF Init, RequestsCoverQueue
<1>2. UNCHANGED vars => (RequestsCoverQueue => RequestsCoverQueue')
  BY DEF vars, RequestsCoverQueue, Running, confVars, exitVars, queueVars, envVars
<1>3. /\ TypeOK /\ TypeOK' /\ HandshakeInv /\ AccountInv /\ AccountInv'
      /\ RequestsCoverQueue /\ [Next]_vars
      => RequestsCoverQueue'
  BY <1>2, NextCovered
<1>. QED  BY <1>1, <1>3, TypeCorrect, HandshakeCorrect, AccountCorrect, PTL
     DEF Spec
===============================================================================
