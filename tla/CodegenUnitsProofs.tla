-------------------------- MODULE CodegenUnitsProofs --------------------------
(***************************************************************************)
(* No unit is lost or compiled twice in the pipeline of CodegenCoordinator:*)
(* proofs of UnitsConserved and SuccessIsComplete.                         *)
(***************************************************************************)
EXTENDS CodegenOutcomeProofs

(***************************************************************************)
(* How the coordinator and the main thread end                             *)
(***************************************************************************)
\* Nothing has ended in the initial state.
LEMMA InitEnd == Init => EndInv
  BY DEF Init, EndInv, Running

\* The main thread answers only a coordinator that is still there, and gives
\* CodegenComplete no module.
LEMMA MainEnd ==
  ASSUME TypeOK, HandshakeInv, EndInv, Main
  PROVE  EndInv'
<1>. USE DEF mainVars, confVars, coordinatorVars, exitVars, queueVars, ltoVars,
             envVars
<1>1. UNCHANGED coordinatorVars /\ todo' \subseteq todo
  BY DEF Main, PrepareCgus, WaitForSignal, SubmitAllocator, CodegenCgu,
     CodegenFinished, DropCoordinator, DropJoined, JoinMeetsError, JoinReturns
<1>2. /\ mpc' = "success" => mpc = "success" \/ ~errorSent
      /\ mpc' \in {"prepare", "wait", "translate"}
           => mpc \in {"prepare", "wait", "translate"}
      /\ MainListens' => MainListens
  BY DEF Main, PrepareCgus, WaitForSignal, SubmitAllocator, CodegenCgu,
     CodegenFinished, DropCoordinator, DropJoined, JoinMeetsError, JoinReturns,
     MainListens
<1>3. exit = "Ok" => cpc = "exited"
  BY DEF EndInv, Running
<1>4. cpc = "exited" => inbox' = inbox
  BY DEF Main, PrepareCgus, WaitForSignal, SubmitAllocator, CodegenCgu, Send,
     CodegenFinished, DropCoordinator, DropJoined, JoinMeetsError, JoinReturns
<1>5. ASSUME NEW k \in DOMAIN inbox', inbox'[k].type = "CodegenComplete"
      PROVE  inbox'[k].item.mod = {}
  <2>1. CASE UNCHANGED inbox
    BY <1>5, <2>1 DEF EndInv
  <2>2. ASSUME NEW m \in Message, Send(m),
               m.type = "CodegenComplete" => m.item.mod = {}
        PROVE  inbox'[k].item.mod = {}
    BY <1>5, <2>2, SendEffect DEF EndInv
  <2>3. CASE SubmitAllocator
    <3>. DEFINE m == [type |-> "CodegenDone", item |-> Item("Optimize", {Alloc})]
    <3>1. m \in Message /\ m.type # "CodegenComplete"
      BY DEF Message, Item, WorkItem, Module, AllUnits
    <3>2. Send(m)
      BY <2>3 DEF SubmitAllocator
    <3>. HIDE DEF m
    <3>. QED  BY <2>2, <3>1, <3>2
  <2>4. ASSUME NEW u \in Cgus, CodegenCgu(u)
        PROVE  inbox'[k].item.mod = {}
    <3>1. PICK op \in {"Optimize", "LTO", "CopyPostLtoArtifacts"},
               t \in {"CodegenDone", "AddImportOnlyModule"} :
            Send([type |-> t, item |-> Item(op, {u})])
      BY <2>4 DEF CodegenCgu
    <3>. DEFINE m == [type |-> t, item |-> Item(op, {u})]
    <3>2. m \in Message /\ m.type # "CodegenComplete"
      BY DEF Message, Item, WorkItem, Module, AllUnits
    <3>3. Send(m)
      BY <3>1
    <3>. HIDE DEF m
    <3>. QED  BY <2>2, <3>2, <3>3
  <2>5. CASE CodegenFinished \/ DropCoordinator
    <3>1. PICK t \in {"CodegenComplete", "CodegenAborted"} : Send(Plain(t))
      BY <2>5 DEF CodegenFinished, DropCoordinator
    <3>2. Plain(t) \in Message /\ Plain(t).item.mod = {}
      BY DEF Message, Plain, NoItem, Item, WorkItem, Module
    <3>. QED  BY <2>2, <3>1, <3>2
  <2>. QED  BY <2>1, <2>3, <2>4, <2>5 DEF Main, PrepareCgus, WaitForSignal,
            DropJoined, JoinMeetsError, JoinReturns
<1>. QED  BY <1>1, <1>2, <1>3, <1>4, <1>5 DEF EndInv, Running

\* The coordinator ends well with nothing left to compile, LTO or link, and
\* with no answer of the main thread on its way.
LEMMA DoneEnd ==
  ASSUME TypeOK, HandshakeInv, AccountInv, ErrorInv, EndInv, TurnCompletedDone
  PROVE  EndInv'
<1>. USE DEF mainVars, confVars, exitVars, queueVars, ltoVars, envVars
<1>1. /\ cpc = "top" /\ codegenState = "Completed" /\ workItems = {}
      /\ UNCHANGED <<todo, mpc, inbox, workItems, running, finished, noObject>>
      /\ cpc' = "exited" /\ exit' \in {"Ok", "Err", "link_mixed"}
      /\ errorSent => errorSent'
  BY DEF TurnCompletedDone, ReturnModules, Leave, AllWorkDone, TypeOK
<1>2. running = {} /\ finished = {} /\ todo = {}
  BY <1>1, LtoStart DEF TurnCompletedDone
<1>3. mpc \notin {"prepare", "wait", "translate"}
  BY <1>1 DEF HandshakeInv, Running
<1>4. MainListens => inbox = <<>>
  <2>1. mainThreadState # "Codegenning"
    BY <1>1 DEF HandshakeInv, Running
  <2>2. ASSUME inbox # <<>> PROVE inbox[1].type = "CodegenAborted"
    <3>1. inbox[1] \in Message
      BY <2>2 DEF TypeOK
    <3>. QED  BY <1>1, <2>1, <2>2, <3>1 DEF HandshakeInv, Running, Answers, Message
  <2>. QED  BY <1>1, <2>2 DEF HandshakeInv, Running, MainListens
<1>5. MainListens' = MainListens
  BY <1>1 DEF MainListens
<1>6. exit' = "Ok" => \A k \in {"link", "fat", "thin", "import"} : lists'[k] = {}
  BY DEF TurnCompletedDone, ReturnModules, Leave, NoLtoWork, TypeOK, ListNames
<1>7. mpc # "success"
  BY <1>1 DEF HandshakeInv, Running
<1>. QED  BY <1>1, <1>2, <1>3, <1>4, <1>5, <1>6, <1>7 DEF EndInv, Running

\* The other steps of the coordinator do not end it well, and it takes none
\* after its end.
LEMMA CoordinatorEnd ==
  ASSUME TypeOK, HandshakeInv, AccountInv, ErrorInv, EndInv,
         Turn \/ Handle \/ TokenAcquired \/ TokenFailed
  PROVE  EndInv'
<1>. USE DEF mainVars, confVars, exitVars, queueVars, ltoVars, envVars, Running
<1>1. ASSUME NEW t, Receive(t), NEW k \in DOMAIN inbox',
             inbox'[k].type = "CodegenComplete"
      PROVE  inbox'[k].item.mod = {}
  BY <1>1, ReceiveKeeps DEF EndInv
<1>2. ASSUME cpc # "exited", exit' # "Ok", cpc' = "exited" => exit' # "none",
             UNCHANGED <<mpc, noObject>>, errorSent => errorSent',
             UNCHANGED inbox \/ \E t : Receive(t)
      PROVE  EndInv'
  <2>1. mpc # "success"
    BY <1>2 DEF HandshakeInv
  <2>. QED  BY <1>1, <1>2, <2>1 DEF EndInv
<1>3. cpc # "exited" => exit = "none"
  BY DEF ErrorInv
<1>4. ASSUME NEW q, NEW w, NEW lend, SpawnWork(q, w, lend)
      PROVE  cpc' = "recv" /\ exit' = exit
  BY <1>4 DEF SpawnWork
<1>5. CASE TurnOngoingIdle
  BY <1>2, <1>3, <1>4, <1>5 DEF TurnOngoingIdle, Panic, Leave
<1>6. CASE TurnOngoingBusy
  BY <1>2, <1>3, <1>4, <1>6 DEF TurnOngoingBusy
<1>7. CASE TurnCompletedDone
  BY <1>7, DoneEnd
<1>8. CASE TurnCompletedLto
  <2>1. ASSUME NEW reused, StartLto(reused)
        PROVE  /\ exit' # "Ok" /\ (cpc' = "exited" => exit' # "none")
               /\ noObject' = noObject /\ (errorSent => errorSent')
    BY <1>3, <1>4, <1>8, <2>1 DEF StartLto, TurnCompletedLto, Panic, Leave
  <2>. QED  BY <1>2, <1>8, <2>1 DEF TurnCompletedLto, Panic, Leave
<1>9. CASE TurnCompleted
  BY <1>2, <1>3, <1>4, <1>9 DEF TurnCompleted, Panic, Leave
<1>10. CASE TurnAborted
  BY <1>2, <1>3, <1>10 DEF TurnAborted, Leave
<1>11. CASE TokenAcquired \/ TokenFailed
  BY <1>2, <1>3, <1>11 DEF TokenAcquired, TokenFailed, Loop
<1>12. CASE CodegenDone
  BY <1>2, <1>3, <1>12 DEF CodegenDone, Receive, Loop, Panic, Leave
<1>13. CASE AddImportOnlyModule
  BY <1>2, <1>3, <1>13 DEF AddImportOnlyModule, Receive, Loop, Panic, Leave
<1>14. CASE CodegenComplete
  BY <1>2, <1>3, <1>14 DEF CodegenComplete, Receive, Loop, Panic, Leave
<1>15. CASE CodegenAborted
  BY <1>2, <1>3, <1>15 DEF CodegenAborted, Receive, Loop
<1>16. ASSUME NEW f \in finished, WorkItemDone(f)
       PROVE  EndInv'
  BY <1>2, <1>3, <1>16 DEF WorkItemDone, Loop, Panic, Leave
<1>. QED  BY <1>5, <1>6, <1>7, <1>8, <1>9, <1>10, <1>11, <1>12, <1>13, <1>14,
             <1>15, <1>16 DEF Turn, Handle

\* EndInv is inductive, given the other invariants.
LEMMA NextEnd ==
  TypeOK /\ HandshakeInv /\ AccountInv /\ ErrorInv /\ EndInv /\ [Next]_vars
    => EndInv'
<1>. SUFFICES ASSUME TypeOK, HandshakeInv, AccountInv, ErrorInv, EndInv, [Next]_vars
              PROVE  EndInv'
  OBVIOUS
<1>. USE DEF mainVars, confVars, coordinatorVars, exitVars, queueVars, ltoVars,
             envVars, Running
<1>1. ASSUME NEW i \in running, Worker(i) PROVE EndInv'
  <2>1. exit # "Ok" /\ mpc # "success"
    BY <1>1 DEF EndInv, ErrorInv
  <2>2. UNCHANGED <<cpc, exit, mpc, inbox>>
        /\ (noObject' = noObject \/ errorSent') /\ (errorSent => errorSent')
    BY <1>1 DEF Worker, WorkerSucceeds, WorkerCopyFails, WorkerFails, WorkerPanics,
       WorkerEnds
  <2>. QED  BY <2>1, <2>2 DEF EndInv
<1>2. CASE PrepareCgusFails \/ \E u \in Cgus : CodegenCguFails(u)
  BY <1>2 DEF PrepareCgusFails, CodegenCguFails, EndInv, MainListens
<1>3. CASE Terminated \/ UNCHANGED vars
  BY <1>3 DEF Terminated, vars, EndInv, MainListens
<1>. QED  BY <1>1, <1>2, <1>3, MainEnd, CoordinatorEnd DEF Next

\* A coordinator that ends well leaves nothing behind; a session that succeeds
\* has met no error.
THEOREM EndCorrect == Spec => []EndInv
<1>. QED  BY InitEnd, NextEnd, TypeCorrect, HandshakeCorrect, AccountCorrect,
             ErrorCorrect, PTL DEF Spec

-------------------------------------------------------------------------------
(***************************************************************************)
(* Where a unit is                                                         *)
(***************************************************************************)
\* The code of unit u lies in place x of kind k.
Lies(u, k, x) ==
  \/ k = "todo" /\ x = u /\ u \in todo
  \/ k = "inbox" /\ x \in DOMAIN inbox /\ u \in inbox[x].item.mod
  \/ k = "queue" /\ x \in workItems /\ u \in x.mod
  \/ k = "running" /\ x \in running /\ u \in x.mod
  \/ k = "finished" /\ x \in finished /\ u \in x.item.mod
  \/ k \in ListNames /\ x \in lists[k] /\ u \in x

\* The code of unit u is in one place.
Sole(u) == \E k, x : Lies(u, k, x) /\ \A l, y : Lies(u, l, y) => l = k /\ y = x

\* Codegen has not failed.
Good == codegenState # "Aborted" /\ exit \in {"none", "Ok"} /\ MainListens

\* While codegen goes well every unit is in one place.
UnitsInv == Good => \A u \in Units : Sole(u)

placeVars == <<todo, inbox, workItems, running, finished, lists>>

\* Lies is membership in Places.
LEMMA LiesIsPlace ==
  ASSUME NEW u, NEW p
  PROVE  p \in Places(u) <=> \E k, x : p = <<k, x>> /\ Lies(u, k, x)
<1>1. p \in Places(u) <=>
        \/ \E w \in {u} \cap todo : p = <<"todo", w>>
        \/ \E i \in {j \in DOMAIN inbox : u \in inbox[j].item.mod} : p = <<"inbox", i>>
        \/ \E i \in {j \in workItems : u \in j.mod} : p = <<"queue", i>>
        \/ \E i \in {j \in running : u \in j.mod} : p = <<"running", i>>
        \/ \E f \in {g \in finished : u \in g.item.mod} : p = <<"finished", f>>
        \/ \E k \in ListNames : \E m \in {x \in lists[k] : u \in x} : p = <<k, m>>
  BY DEF Places
<1>2. (\E k, x : p = <<k, x>> /\ Lies(u, k, x)) <=>
        \/ \E w \in {u} \cap todo : p = <<"todo", w>>
        \/ \E i \in {j \in DOMAIN inbox : u \in inbox[j].item.mod} : p = <<"inbox", i>>
        \/ \E i \in {j \in workItems : u \in j.mod} : p = <<"queue", i>>
        \/ \E i \in {j \in running : u \in j.mod} : p = <<"running", i>>
        \/ \E f \in {g \in finished : u \in g.item.mod} : p = <<"finished", f>>
        \/ \E k \in ListNames : \E m \in {x \in lists[k] : u \in x} : p = <<k, m>>
  BY Zenon DEF Lies
<1>. QED  BY <1>1, <1>2

\* A unit that is in one place has one place.
LEMMA SoleIsOne ==
  ASSUME NEW u, Sole(u)
  PROVE  Cardinality(Places(u)) = 1
<1>1. PICK k, x : Lies(u, k, x) /\ \A l, y : Lies(u, l, y) => l = k /\ y = x
  BY DEF Sole
<1>2. \A p : p \in Places(u) <=> p = <<k, x>>
  BY <1>1, LiesIsPlace
<1>3. Places(u) = {<<k, x>>}
  BY <1>2
<1>. QED  BY <1>3, FS_Singleton

\* A unit whose places stay the same remains in one.
LEMMA Kept ==
  ASSUME NEW u, Sole(u), \A k, x : Lies(u, k, x)' <=> Lies(u, k, x)
  PROVE  Sole(u)'
  BY DEF Sole

\* A unit that leaves its place a, v for b, w is in one place again.
LEMMA Moved ==
  ASSUME NEW u, Sole(u), NEW a, NEW v, NEW b, NEW w,
         Lies(u, a, v), Lies(u, b, w)',
         \A l, y : Lies(u, l, y)' =>
           (l = b /\ y = w) \/ (Lies(u, l, y) /\ ~(l = a /\ y = v))
  PROVE  Sole(u)'
  BY DEF Sole

LEMMA Undisturbed ==
  ASSUME NEW u, Sole(u), UNCHANGED placeVars
  PROVE  Sole(u)'
  BY Kept DEF Lies, placeVars

\* A unit is no upstream module.
LEMMA UnitsTyped ==
  ASSUME TypeOK, NEW u \in Units
  PROVE  u \in Cgus \cup {Alloc} /\ u \notin Upstream
  BY UnitsAssumption DEF TypeOK, Config, Units

\* A step that leaves codegen in order found it in order.
LEMMA GoodBefore ==
  ASSUME TypeOK, ErrorInv, Next, Good'
  PROVE  Good
<1>. USE DEF mainVars, confVars, coordinatorVars, exitVars, queueVars, ltoVars,
             envVars, Good, MainListens
<1>1. cpc # "exited" => exit = "none"
  BY DEF ErrorInv, Running
<1>2. CASE Main
  BY <1>2 DEF Main, PrepareCgus, WaitForSignal, SubmitAllocator, CodegenCgu,
     CodegenFinished, DropCoordinator, DropJoined, JoinMeetsError, JoinReturns
<1>3. CASE Turn
  BY <1>1, <1>3 DEF Turn, TurnOngoingIdle, TurnOngoingBusy, TurnCompletedDone,
     TurnCompletedLto, TurnCompleted, TurnAborted
<1>4. CASE Handle
  BY <1>1, <1>4 DEF Handle, CodegenDone, AddImportOnlyModule, CodegenComplete,
     CodegenAborted, WorkItemDone, Panic, Receive
<1>5. CASE TokenAcquired \/ TokenFailed
  BY <1>5 DEF TokenAcquired, TokenFailed, Loop
<1>6. ASSUME NEW i \in running, Worker(i) PROVE Good
  BY <1>6 DEF Worker, WorkerSucceeds, WorkerCopyFails, WorkerFails, WorkerPanics,
     WorkerEnds
<1>7. CASE Terminated \/ PrepareCgusFails \/ \E u \in Cgus : CodegenCguFails(u)
  BY <1>7 DEF Terminated, PrepareCgusFails, CodegenCguFails, vars
<1>. QED  BY <1>2, <1>3, <1>4, <1>5, <1>6, <1>7 DEF Next

-------------------------------------------------------------------------------
(***************************************************************************)
(* The steps that move units                                               *)
(***************************************************************************)
\* The main thread answers a signal when no answer is on its way.
LEMMA SendSole ==
  ASSUME TypeOK, HandshakeInv, EndInv, Good, mpc = "translate",
         NEW m \in Message, Send(m)
  PROVE  inbox = <<>> /\ DOMAIN inbox = {} /\ DOMAIN inbox' = {1} /\ inbox'[1] = m
<1>1. cpc # "exited"
  BY DEF EndInv, Good, Running
<1>2. inbox = <<>> /\ inbox' = Append(inbox, m)
  BY <1>1 DEF HandshakeInv, Running, Translating, Send
<1>3. inbox \in Seq(Message) /\ inbox' \in Seq(Message)
  BY <1>2 DEF TypeOK
<1>4. Len(inbox) = 0 /\ Len(inbox') = 1 /\ inbox'[1] = m
  BY <1>2, <1>3, ShortSeq
<1>. QED  BY <1>2, <1>3, <1>4, LenProperties

\* A unit handed over goes from todo to the inbox, the others stay.
LEMMA HandedOver ==
  ASSUME TypeOK, HandshakeInv, EndInv, Good, mpc = "translate",
         NEW m \in Message, Send(m), NEW u, Sole(u),
         \A w \in m.item.mod : w \in todo, todo' = todo \ m.item.mod,
         UNCHANGED <<workItems, running, finished, lists>>
  PROVE  Sole(u)'
<1>1. DOMAIN inbox = {} /\ DOMAIN inbox' = {1} /\ inbox'[1] = m
  BY SendSole
<1>2. CASE u \in m.item.mod
  <2>1. Lies(u, "todo", u)
    BY <1>2 DEF Lies
  <2>2. Lies(u, "inbox", 1)'
    BY <1>1, <1>2 DEF Lies
  <2>3. ASSUME NEW l, NEW y, Lies(u, l, y)'
        PROVE  (l = "inbox" /\ y = 1) \/ (Lies(u, l, y) /\ ~(l = "todo" /\ y = u))
    BY <1>1, <1>2, <2>3 DEF Lies, ListNames
  <2>. QED  BY <2>1, <2>2, <2>3, Moved
<1>3. CASE u \notin m.item.mod
  <2>1. \A l, y : Lies(u, l, y)' <=> Lies(u, l, y)
    BY <1>1, <1>3 DEF Lies
  <2>. QED  BY <2>1, Kept
<1>. QED  BY <1>2, <1>3

LEMMA MainUnits ==
  ASSUME TypeOK, HandshakeInv, EndInv, Good, Good', Main, NEW u, Sole(u)
  PROVE  Sole(u)'
<1>. USE DEF mainVars, confVars, coordinatorVars, exitVars, queueVars, ltoVars,
             envVars
<1>1. UNCHANGED <<workItems, running, finished, lists>>
  BY DEF Main, PrepareCgus, WaitForSignal, SubmitAllocator, CodegenCgu,
     CodegenFinished, DropCoordinator, DropJoined, JoinMeetsError, JoinReturns
<1>2. CASE UNCHANGED <<todo, inbox>>
  BY <1>1, <1>2, Undisturbed DEF placeVars
<1>3. CASE SubmitAllocator
  <2>. DEFINE m == [type |-> "CodegenDone", item |-> Item("Optimize", {Alloc})]
  <2>1. m \in Message /\ m.item.mod = {Alloc}
    BY DEF Message, Item, WorkItem, Module, AllUnits
  <2>2. Send(m) /\ mpc = "translate" /\ Alloc \in todo /\ todo' = todo \ {Alloc}
    BY <1>3 DEF SubmitAllocator
  <2>. HIDE DEF m
  <2>. QED  BY <1>1, <2>1, <2>2, HandedOver
<1>4. ASSUME NEW c \in Cgus, CodegenCgu(c)
      PROVE  Sole(u)'
  <2>1. PICK op \in {"Optimize", "LTO", "CopyPostLtoArtifacts"},
             t \in {"CodegenDone", "AddImportOnlyModule"} :
          Send([type |-> t, item |-> Item(op, {c})])
    BY <1>4 DEF CodegenCgu
  <2>. DEFINE m == [type |-> t, item |-> Item(op, {c})]
  <2>2. m \in Message /\ m.item.mod = {c}
    BY DEF Message, Item, WorkItem, Module, AllUnits
  <2>3. Send(m) /\ mpc = "translate" /\ c \in todo /\ todo' = todo \ {c}
    BY <1>4, <2>1 DEF CodegenCgu
  <2>. HIDE DEF m
  <2>. QED  BY <1>1, <2>2, <2>3, HandedOver
<1>5. CASE CodegenFinished
  <2>. DEFINE m == Plain("CodegenComplete")
  <2>1. m \in Message /\ m.item.mod = {}
    BY DEF Message, Plain, NoItem, Item, WorkItem, Module
  <2>2. Send(m) /\ mpc = "translate" /\ todo' = todo
    BY <1>5 DEF CodegenFinished
  <2>. HIDE DEF m
  <2>. QED  BY <1>1, <2>1, <2>2, HandedOver
<1>6. ~DropCoordinator
  BY DEF DropCoordinator, Good, MainListens
<1>. QED  BY <1>2, <1>3, <1>4, <1>5, <1>6 DEF Main, PrepareCgus, WaitForSignal,
          DropJoined, JoinMeetsError, JoinReturns

\* The end of a turn takes units from the queue to the workers.
LEMMA SpawnUnits ==
  ASSUME NEW u, Sole(u), NEW w, NEW lend, SpawnWork(workItems, w, lend),
         UNCHANGED <<todo, inbox, finished, lists>>
  PROVE  Sole(u)'
<1>1. PICK s \in SUBSET workItems :
        workItems' = workItems \ s /\ running' = running \cup s
  BY DEF SpawnWork, Popped
<1>2. CASE \E i \in s : u \in i.mod
  <2>1. PICK i \in s : u \in i.mod
    BY <1>2
  <2>2. Lies(u, "queue", i)
    BY <2>1 DEF Lies
  <2>3. Lies(u, "running", i)'
    BY <1>1, <2>1 DEF Lies
  <2>4. \A j \in workItems : u \in j.mod => j = i
    BY <2>2 DEF Sole, Lies
  <2>5. ASSUME NEW l, NEW y, Lies(u, l, y)'
        PROVE  (l = "running" /\ y = i) \/ (Lies(u, l, y) /\ ~(l = "queue" /\ y = i))
    BY <1>1, <2>1, <2>4, <2>5 DEF Lies, ListNames
  <2>. QED  BY <2>2, <2>3, <2>5, Moved
<1>3. CASE ~ \E i \in s : u \in i.mod
  <2>1. \A l, y : Lies(u, l, y)' <=> Lies(u, l, y)
    BY <1>1, <1>3 DEF Lies
  <2>. QED  BY <2>1, Kept
<1>. QED  BY <1>2, <1>3

\* What LTO makes of the vectors it takes from: the code of a unit that is in
\* one of them is in exactly one item, and no other unit is in any.
LEMMA LtoUnits ==
  ASSUME TypeOK, ResultInv, NEW u, u \notin Upstream, Sole(u),
         NEW reused \in SUBSET (IF lists["fat"] = {} THEN lists["import"] ELSE {})
  PROVE  /\ \A i, j \in GenerateLtoWork(reused) :
              u \in i.mod /\ u \in j.mod => i = j
         /\ (\E i \in GenerateLtoWork(reused) : u \in i.mod) <=>
              \E k \in {"fat", "thin", "import"} : \E m \in lists[k] : u \in m
<1>. DEFINE work == GenerateLtoWork(reused)
            merged == (UNION (lists["fat"] \cup lists["import"])) \cup LtoUpstream
<1>1. LtoUpstream \subseteq Upstream
  BY DEF LtoUpstream, TypeOK, Config
<1>2. \A k, l \in {"fat", "thin", "import"} : \A m \in lists[k], n \in lists[l] :
        u \in m /\ u \in n => m = n /\ k = l
  BY DEF Sole, Lies, ListNames
<1>3. CASE lists["fat"] # {}
  <2>1. lists["thin"] = {}
    BY <1>3 DEF ResultInv
  <2>2. work = {Item("LTO", merged)}
    BY <1>3 DEF GenerateLtoWork
  <2>3. Item("LTO", merged).mod = merged
    BY DEF Item
  <2>4. u \in merged <=> \E k \in {"fat", "thin", "import"} : \E m \in lists[k] : u \in m
    BY <1>1, <2>1
  <2>. HIDE DEF merged, work
  <2>5. /\ \A i, j \in work : u \in i.mod /\ u \in j.mod => i = j
        /\ (\E i \in work : u \in i.mod) <=> u \in merged
    BY <2>2, <2>3
  <2>. QED  BY <2>4, <2>5 DEF work
<1>4. CASE lists["fat"] = {}
  <2>1. reused \subseteq lists["import"]
    BY <1>4
  <2>2. \A i : i \in work <=>
          \/ \E m \in lists["thin"] \cup (lists["import"] \ reused) : i = Item("LTO", m)
          \/ \E x \in LtoUpstream : i = Item("LTO", {x})
          \/ \E m \in reused : i = Item("CopyPostLtoArtifacts", m)
    BY <1>4 DEF GenerateLtoWork
  <2>3. \A op, m : Item(op, m).mod = m
    BY DEF Item
  <2>. HIDE DEF merged, work
  <2>4. ASSUME NEW i \in work, u \in i.mod
        PROVE  \/ /\ i.mod \in lists["thin"] \cup (lists["import"] \ reused)
                  /\ i = Item("LTO", i.mod)
               \/ i.mod \in reused /\ i = Item("CopyPostLtoArtifacts", i.mod)
    <3>1. CASE \E m \in lists["thin"] \cup (lists["import"] \ reused) :
                 i = Item("LTO", m)
      BY <2>3, <3>1
    <3>2. CASE \E x \in LtoUpstream : i = Item("LTO", {x})
      BY <1>1, <2>3, <2>4, <3>2
    <3>3. CASE \E m \in reused : i = Item("CopyPostLtoArtifacts", m)
      BY <2>3, <3>3
    <3>. QED  BY <2>2, <3>1, <3>2, <3>3
  <2>5. ASSUME NEW i \in work, NEW j \in work, u \in i.mod, u \in j.mod
        PROVE  i = j
    <3>1. i.mod = j.mod
      BY <1>2, <2>1, <2>4, <2>5
    <3>2. ~(i.mod \in lists["thin"] /\ i.mod \in reused)
      BY <1>2, <2>1, <2>5
    <3>. QED  BY <2>4, <2>5, <3>1, <3>2
  <2>6. ASSUME NEW k \in {"fat", "thin", "import"}, NEW m \in lists[k], u \in m
        PROVE  \E i \in work : u \in i.mod
    <3>1. CASE m \in lists["thin"] \cup (lists["import"] \ reused)
      BY <2>2, <2>3, <2>6, <3>1
    <3>2. CASE m \in reused
      BY <2>2, <2>3, <2>6, <3>2
    <3>. QED  BY <1>4, <2>6, <3>1, <3>2
  <2>7. ASSUME NEW i \in work, u \in i.mod
        PROVE  \E k \in {"fat", "thin", "import"} : \E m \in lists[k] : u \in m
    BY <2>1, <2>4, <2>7
  <2>. QED  BY <2>5, <2>6, <2>7 DEF work
<1>. QED  BY <1>3, <1>4

\* LTO takes units from its vectors to the queue and the workers.
LEMMA StartLtoUnits ==
  ASSUME TypeOK, ResultInv, NEW u, u \notin Upstream, Sole(u),
         workItems = {}, running = {},
         NEW reused \in SUBSET (IF lists["fat"] = {} THEN lists["import"] ELSE {}),
         SpawnWork(GenerateLtoWork(reused), own, 1),
         lists' = [lists EXCEPT !["fat"] = {}, !["thin"] = {}, !["import"] = {}],
         UNCHANGED <<todo, inbox, finished>>
  PROVE  Sole(u)'
<1>. DEFINE work == GenerateLtoWork(reused)
            Taken == {"fat", "thin", "import"}
<1>1. PICK s \in SUBSET work : workItems' = work \ s /\ running' = s
  BY DEF SpawnWork, Popped
<1>2. /\ \A i, j \in work : u \in i.mod /\ u \in j.mod => i = j
      /\ (\E i \in work : u \in i.mod) <=> \E k \in Taken : \E m \in lists[k] : u \in m
  BY LtoUnits
<1>. HIDE DEF work
<1>3. /\ \A k \in Taken : lists'[k] = {}
      /\ \A k \in ListNames \ Taken : lists'[k] = lists[k]
      /\ Taken \subseteq ListNames
  BY DEF TypeOK, ListNames
<1>. HIDE DEF Taken
<1>4. ListNames \cap {"todo", "inbox", "queue", "running", "finished"} = {}
  BY DEF ListNames
<1>5. CASE \E i \in work : u \in i.mod
  <2>1. PICK k \in Taken : \E n \in lists[k] : u \in n
    BY <1>2, <1>5
  <2>2. PICK m \in lists[k] : u \in m
    BY <2>1
  <2>3. PICK i \in work : u \in i.mod
    BY <1>5
  <2>. DEFINE b == IF i \in s THEN "running" ELSE "queue"
  <2>4. Lies(u, k, m)
    BY <1>3, <2>2 DEF Lies
  <2>5. Lies(u, b, i)'
    BY <1>1, <2>3 DEF Lies
  <2>6. ASSUME NEW l, NEW y, Lies(u, l, y)'
        PROVE  (l = b /\ y = i) \/ (Lies(u, l, y) /\ ~(l = k /\ y = m))
    <3>1. CASE l = "queue" /\ y \in workItems' /\ u \in y.mod
      BY <1>1, <1>2, <2>3, <3>1
    <3>2. CASE l = "running" /\ y \in running' /\ u \in y.mod
      BY <1>1, <1>2, <2>3, <3>2
    <3>3. CASE l \in ListNames /\ y \in lists'[l] /\ u \in y
      <4>1. l \notin Taken
        BY <1>3, <3>3
      <4>. QED  BY <1>3, <3>3, <4>1 DEF Lies
    <3>4. CASE l \in {"todo", "inbox", "finished"}
      <4>1. Lies(u, l, y)
        BY <1>4, <2>6, <3>4 DEF Lies
      <4>2. l # k
        BY <1>3, <1>4, <2>1, <3>4
      <4>. QED  BY <4>1, <4>2
    <3>. QED  BY <2>6, <3>1, <3>2, <3>3, <3>4 DEF Lies
  <2>. QED  BY <2>4, <2>5, <2>6, Moved
<1>6. CASE ~ \E i \in work : u \in i.mod
  <2>1. ASSUME NEW l, NEW y
        PROVE  Lies(u, l, y)' <=> Lies(u, l, y)
    <3>1. CASE l \in {"queue", "running"}
      BY <1>1, <1>4, <1>6, <3>1 DEF Lies
    <3>2. CASE l \in Taken
      BY <1>2, <1>3, <1>4, <1>6, <3>2 DEF Lies
    <3>3. CASE l \in ListNames \ Taken
      BY <1>3, <1>4, <3>3 DEF Lies
    <3>4. CASE l \notin ListNames /\ l \notin {"queue", "running"}
      BY <3>4 DEF Lies
    <3>. QED  BY <3>1, <3>2, <3>3, <3>4
  <2>. QED  BY <2>1, Kept
<1>. QED  BY <1>5, <1>6

\* Linking takes units from the modules to link to the compiled one.
LEMMA LinkUnits ==
  ASSUME TypeOK, NEW u, Sole(u), lists["compiled"] = {},
         lists' = [lists EXCEPT !["link"] = {},
                                !["compiled"] = {UNION lists["link"]}],
         UNCHANGED <<todo, inbox, workItems, running, finished>>
  PROVE  Sole(u)'
<1>1. /\ lists'["link"] = {} /\ lists'["compiled"] = {UNION lists["link"]}
      /\ \A k \in ListNames \ {"link", "compiled"} : lists'[k] = lists[k]
      /\ {"link", "compiled"} \subseteq ListNames
  BY DEF TypeOK, ListNames
<1>2. ListNames \cap {"todo", "inbox", "queue", "running", "finished"} = {}
  BY DEF ListNames
<1>3. CASE \E m \in lists["link"] : u \in m
  <2>1. PICK m \in lists["link"] : u \in m
    BY <1>3
  <2>2. PICK w : w = UNION lists["link"]
    OBVIOUS
  <2>3. Lies(u, "link", m)
    BY <1>1, <2>1 DEF Lies
  <2>4. Lies(u, "compiled", w)'
    BY <1>1, <2>1, <2>2 DEF Lies
  <2>5. ASSUME NEW l, NEW y, Lies(u, l, y)'
        PROVE  (l = "compiled" /\ y = w) \/ (Lies(u, l, y) /\ ~(l = "link" /\ y = m))
    <3>1. CASE l \in ListNames /\ y \in lists'[l] /\ u \in y
      BY <1>1, <2>2, <3>1 DEF Lies
    <3>2. CASE l \notin ListNames
      BY <1>1, <2>5, <3>2 DEF Lies
    <3>. QED  BY <1>2, <2>5, <3>1, <3>2 DEF Lies
  <2>. QED  BY <2>3, <2>4, <2>5, Moved
<1>4. CASE ~ \E m \in lists["link"] : u \in m
  <2>1. ASSUME NEW l, NEW y
        PROVE  Lies(u, l, y)' <=> Lies(u, l, y)
    <3>1. CASE l \in ListNames
      <4>1. y \in lists'[l] /\ u \in y <=> y \in lists[l] /\ u \in y
        <5>1. CASE l = "link"
          BY <1>1, <1>4, <5>1
        <5>2. CASE l = "compiled"
          <6>1. u \notin UNION lists["link"]
            BY <1>4
          <6>2. lists[l] = {} /\ lists'[l] = {UNION lists["link"]}
            BY <1>1, <5>2
          <6>. QED  BY <6>1, <6>2
        <5>3. CASE l \notin {"link", "compiled"}
          BY <1>1, <3>1, <5>3
        <5>. QED  BY <5>1, <5>2, <5>3
      <4>. QED  BY <1>2, <3>1, <4>1 DEF Lies
    <3>2. CASE l \notin ListNames
      BY <3>2 DEF Lies
    <3>. QED  BY <3>1, <3>2
  <2>. QED  BY <2>1, Kept
<1>. QED  BY <1>3, <1>4

LEMMA TurnUnits ==
  ASSUME TypeOK, HandshakeInv, AccountInv, ResultInv, Good', Turn,
         NEW u \in Units, Sole(u)
  PROVE  Sole(u)'
<1>. USE DEF mainVars, confVars, exitVars, queueVars, ltoVars, envVars
<1>1. ASSUME NEW why, why \notin {"none", "Ok"}, Leave(why) PROVE FALSE
  BY <1>1 DEF Leave, Good
<1>2. CASE TurnOngoingIdle
  BY <1>1, <1>2, SpawnUnits DEF TurnOngoingIdle, Panic
<1>3. CASE TurnOngoingBusy
  BY <1>3, SpawnUnits DEF TurnOngoingBusy
<1>4. CASE TurnCompletedDone
  <2>1. UNCHANGED <<todo, inbox, workItems, running, finished>>
    BY <1>4 DEF TurnCompletedDone
  <2>2. CASE UNCHANGED lists
    BY <2>1, <2>2, Undisturbed DEF placeVars
  <2>3. CASE /\ lists["compiled"] = {}
             /\ lists' = [lists EXCEPT !["link"] = {},
                                       !["compiled"] = {UNION lists["link"]}]
    BY <2>1, <2>3, LinkUnits
  <2>. QED  BY <1>4, <2>2, <2>3 DEF TurnCompletedDone, ReturnModules
<1>5. CASE TurnCompletedLto
  <2>1. running = {} /\ workItems = {}
    BY <1>5, LtoStart DEF TurnCompletedLto, AllWorkDone
  <2>2. u \notin Upstream
    BY UnitsTyped
  <2>3. UNCHANGED <<todo, inbox>>
    BY <1>5 DEF TurnCompletedLto
  <2>4. ASSUME NEW reused \in SUBSET (IF lists["fat"] = {} THEN lists["import"]
                                                         ELSE {}),
               StartLto(reused)
        PROVE  Sole(u)'
    <3>1. /\ SpawnWork(GenerateLtoWork(reused), own, 1) /\ UNCHANGED finished
          /\ lists' = [lists EXCEPT !["fat"] = {}, !["thin"] = {},
                                    !["import"] = {}]
      BY <1>1, <2>4 DEF StartLto, Panic
    <3>. QED  BY <2>1, <2>2, <2>3, <3>1, StartLtoUnits
  <2>. QED  BY <1>1, <1>5, <2>4 DEF TurnCompletedLto, Panic
<1>6. CASE TurnCompleted
  BY <1>1, <1>6, SpawnUnits DEF TurnCompleted, Panic
<1>7. CASE TurnAborted
  BY <1>7, Undisturbed DEF TurnAborted, placeVars
<1>. QED  BY <1>2, <1>3, <1>4, <1>5, <1>6, <1>7 DEF Turn

\* While the main thread listens its one message is received alone.
LEMMA ReceiveSole ==
  ASSUME TypeOK, HandshakeInv, MainListens, NEW t, Receive(t)
  PROVE  /\ DOMAIN inbox = {1} /\ DOMAIN inbox' = {} /\ Head(inbox) = inbox[1]
         /\ inbox[1].type = t
<1>1. /\ inbox \in Seq(Message) /\ inbox' \in Seq(Message) /\ inbox # <<>>
      /\ Head(inbox) = inbox[1] /\ inbox[1].type = t /\ cpc = "recv"
  BY ReceiveTyped DEF TypeOK
<1>2. inbox' = <<>> /\ Len(inbox') = 0
  BY ReceiveEffect DEF MainListens
<1>3. Len(inbox) = 1
  BY <1>1 DEF HandshakeInv, Running, InboxShape, MainListens
<1>. QED  BY <1>1, <1>2, <1>3, LenProperties

\* What handling a message of the main thread does to a unit.
LEMMA HandleUnits ==
  ASSUME TypeOK, HandshakeInv, EndInv, Good, Good',
         Handle \/ TokenAcquired \/ TokenFailed, NEW u, Sole(u)
  PROVE  Sole(u)'
<1>. USE DEF mainVars, confVars, exitVars, queueVars, ltoVars, envVars
<1>1. ASSUME NEW why, why \notin {"none", "Ok"}, Panic(why) PROVE FALSE
  BY <1>1 DEF Panic, Leave, Good
<1>2. ListNames \cap {"todo", "inbox", "queue", "running", "finished"} = {}
  BY DEF ListNames
<1>3. MainListens
  BY DEF Good
<1>4. CASE CodegenDone
  <2>1. PICK i : i = inbox[1].item
    OBVIOUS
  <2>2. /\ DOMAIN inbox = {1} /\ DOMAIN inbox' = {} /\ Head(inbox) = inbox[1]
    BY <1>3, <1>4, ReceiveSole DEF CodegenDone
  <2>3. workItems' = workItems \cup {i}
        /\ UNCHANGED <<todo, running, finished, lists>>
    BY <1>1, <1>4, <2>2, <2>1 DEF CodegenDone
  <2>4. CASE u \in i.mod
    <3>1. Lies(u, "inbox", 1)
      BY <2>2, <2>4, <2>1 DEF Lies
    <3>2. Lies(u, "queue", i)'
      BY <2>3, <2>4 DEF Lies
    <3>3. ASSUME NEW l, NEW y, Lies(u, l, y)'
          PROVE  (l = "queue" /\ y = i) \/ (Lies(u, l, y) /\ ~(l = "inbox" /\ y = 1))
      BY <1>2, <2>2, <2>3, <3>3 DEF Lies
    <3>. QED  BY <3>1, <3>2, <3>3, Moved
  <2>5. CASE u \notin i.mod
    <3>1. \A l, y : Lies(u, l, y)' <=> Lies(u, l, y)
      BY <2>2, <2>3, <2>5, <2>1 DEF Lies
    <3>. QED  BY <3>1, Kept
  <2>. QED  BY <2>4, <2>5
<1>5. CASE AddImportOnlyModule
  <2>1. PICK m : m = inbox[1].item.mod
    OBVIOUS
  <2>2. /\ DOMAIN inbox = {1} /\ DOMAIN inbox' = {} /\ Head(inbox) = inbox[1]
    BY <1>3, <1>5, ReceiveSole DEF AddImportOnlyModule
  <2>3. lists' = [lists EXCEPT !["import"] = @ \cup {m}]
        /\ UNCHANGED <<todo, workItems, running, finished>>
    BY <1>1, <1>5, <2>2, <2>1 DEF AddImportOnlyModule
  <2>4. /\ lists'["import"] = lists["import"] \cup {m} /\ "import" \in ListNames
        /\ \A k \in ListNames \ {"import"} : lists'[k] = lists[k]
    BY <2>3 DEF TypeOK, ListNames
  <2>5. CASE u \in m
    <3>1. Lies(u, "inbox", 1)
      BY <2>2, <2>5, <2>1 DEF Lies
    <3>2. Lies(u, "import", m)'
      BY <2>4, <2>5 DEF Lies
    <3>3. ASSUME NEW l, NEW y, Lies(u, l, y)'
          PROVE  (l = "import" /\ y = m) \/ (Lies(u, l, y) /\ ~(l = "inbox" /\ y = 1))
      <4>1. CASE l \in ListNames /\ y \in lists'[l] /\ u \in y
        BY <1>2, <2>4, <4>1 DEF Lies
      <4>2. CASE l \notin ListNames
        BY <2>2, <2>3, <2>4, <3>3, <4>2 DEF Lies
      <4>. QED  BY <1>2, <3>3, <4>1, <4>2 DEF Lies
    <3>. QED  BY <3>1, <3>2, <3>3, Moved
  <2>6. CASE u \notin m
    <3>1. ASSUME NEW l, NEW y
          PROVE  Lies(u, l, y)' <=> Lies(u, l, y)
      <4>1. CASE l \in ListNames
        <5>1. y \in lists'[l] /\ u \in y <=> y \in lists[l] /\ u \in y
          BY <2>4, <2>6, <4>1
        <5>. QED  BY <1>2, <4>1, <5>1 DEF Lies
      <4>2. CASE l \notin ListNames
        BY <2>2, <2>3, <2>6, <2>1, <4>2 DEF Lies
      <4>. QED  BY <4>1, <4>2
    <3>. QED  BY <3>1, Kept
  <2>. QED  BY <2>5, <2>6
<1>6. CASE CodegenComplete
  <2>1. /\ DOMAIN inbox = {1} /\ DOMAIN inbox' = {}
        /\ inbox[1].type = "CodegenComplete"
    BY <1>3, <1>6, ReceiveSole DEF CodegenComplete
  <2>2. inbox[1].item.mod = {}
    BY <2>1 DEF EndInv
  <2>3. UNCHANGED <<todo, workItems, running, finished, lists>>
    BY <1>1, <1>6 DEF CodegenComplete
  <2>4. \A l, y : Lies(u, l, y)' <=> Lies(u, l, y)
    BY <2>1, <2>2, <2>3 DEF Lies
  <2>. QED  BY <2>4, Kept
<1>7. ~CodegenAborted /\ ~TokenFailed
  BY DEF CodegenAborted, TokenFailed, Good
<1>8. CASE TokenAcquired
  BY <1>8, Undisturbed DEF TokenAcquired, placeVars
<1>9. ASSUME NEW f \in finished, WorkItemDone(f)
      PROVE  Sole(u)'
  <2>. DEFINE m == f.item.mod
              k == Destination(f)
  <2>1. /\ lists' = [lists EXCEPT ![k] = @ \cup {m}]
        /\ finished' = finished \ {f}
        /\ UNCHANGED <<todo, inbox, workItems, running>>
        /\ f.res \notin {"FatalError", "Panicked"}
    BY <1>1, <1>9 DEF WorkItemDone, Good
  <2>2. k \in ListNames
    BY <2>1, DestinationTyped DEF TypeOK
  <2>. HIDE DEF m, k
  <2>3. /\ lists'[k] = lists[k] \cup {m}
        /\ \A l \in ListNames \ {k} : lists'[l] = lists[l]
    BY <2>1, <2>2 DEF TypeOK
  <2>4. CASE u \in m
    <3>1. Lies(u, "finished", f)
      BY <2>4 DEF Lies, m
    <3>2. Lies(u, k, m)'
      BY <2>2, <2>3, <2>4 DEF Lies
    <3>3. ASSUME NEW l, NEW y, Lies(u, l, y)'
          PROVE  (l = k /\ y = m) \/ (Lies(u, l, y) /\ ~(l = "finished" /\ y = f))
      <4>1. CASE l \in ListNames /\ y \in lists'[l] /\ u \in y
        BY <1>2, <2>3, <4>1 DEF Lies
      <4>2. CASE l \notin ListNames
        BY <2>1, <3>3, <4>2 DEF Lies
      <4>. QED  BY <1>2, <3>3, <4>1, <4>2 DEF Lies
    <3>. QED  BY <3>1, <3>2, <3>3, Moved
  <2>5. CASE u \notin m
    <3>1. ASSUME NEW l, NEW y
          PROVE  Lies(u, l, y)' <=> Lies(u, l, y)
      <4>1. CASE l \in ListNames
        <5>1. y \in lists'[l] /\ u \in y <=> y \in lists[l] /\ u \in y
          BY <2>3, <2>5, <4>1
        <5>. QED  BY <1>2, <4>1, <5>1 DEF Lies
      <4>2. CASE l \notin ListNames
        BY <2>1, <2>5, <4>2 DEF Lies, m
      <4>. QED  BY <4>1, <4>2
    <3>. QED  BY <3>1, Kept
  <2>. QED  BY <2>4, <2>5
<1>. QED  BY <1>4, <1>5, <1>6, <1>7, <1>8, <1>9 DEF Handle

\* A worker that ends hands its units to the coordinator.
LEMMA WorkerUnits ==
  ASSUME NEW i \in running, Worker(i), NEW u, Sole(u)
  PROVE  Sole(u)'
<1>. USE DEF mainVars, confVars, exitVars, queueVars, ltoVars
<1>1. PICK res : WorkerEnds(i, res)
  BY DEF Worker, WorkerSucceeds, WorkerCopyFails, WorkerFails, WorkerPanics
<1>. DEFINE f == [item |-> i, res |-> res]
<1>2. /\ running' = running \ {i} /\ finished' = finished \cup {f}
      /\ UNCHANGED <<todo, inbox, workItems, lists>>
  BY <1>1 DEF WorkerEnds
<1>3. f.item = i
  OBVIOUS
<1>. HIDE DEF f
<1>4. CASE u \in i.mod
  <2>1. Lies(u, "running", i)
    BY <1>4 DEF Lies
  <2>2. Lies(u, "finished", f)'
    BY <1>2, <1>3, <1>4 DEF Lies
  <2>3. ASSUME NEW l, NEW y, Lies(u, l, y)'
        PROVE  (l = "finished" /\ y = f) \/ (Lies(u, l, y) /\ ~(l = "running" /\ y = i))
    BY <1>2, <2>3 DEF Lies, ListNames
  <2>. QED  BY <2>1, <2>2, <2>3, Moved
<1>5. CASE u \notin i.mod
  <2>1. \A l, y : Lies(u, l, y)' <=> Lies(u, l, y)
    BY <1>2, <1>3, <1>5 DEF Lies
  <2>. QED  BY <2>1, Kept
<1>. QED  BY <1>4, <1>5

\* Every unit starts in todo.
LEMMA InitUnits == Init => UnitsInv
<1>. SUFFICES ASSUME Init, NEW u \in Units PROVE Sole(u)
  BY DEF UnitsInv
<1>1. Lies(u, "todo", u)
  BY DEF Init, Lies
<1>2. ASSUME NEW l, NEW y, Lies(u, l, y) PROVE l = "todo" /\ y = u
  <2>1. DOMAIN inbox = {} /\ \A k \in ListNames : lists[k] = {}
    BY DEF Init
  <2>. QED  BY <1>2, <2>1 DEF Init, Lies
<1>. QED  BY <1>1, <1>2 DEF Sole

\* UnitsInv is inductive, given the other invariants.
LEMMA NextUnits ==
  ASSUME TypeOK, HandshakeInv, AccountInv, ErrorInv, ResultInv, EndInv,
         UnitsInv, [Next]_vars
  PROVE  UnitsInv'
<1>. USE DEF mainVars, confVars, coordinatorVars, exitVars, queueVars, ltoVars,
             envVars
<1>1. UNCHANGED conf
  BY DEF Next, Main, PrepareCgus, WaitForSignal, SubmitAllocator, CodegenCgu,
     CodegenFinished, DropCoordinator, DropJoined, JoinMeetsError, JoinReturns,
     Turn, TurnOngoingIdle, TurnOngoingBusy, TurnCompletedDone,
     TurnCompletedLto, TurnCompleted, TurnAborted, Handle, CodegenDone,
     AddImportOnlyModule, CodegenComplete, CodegenAborted, WorkItemDone,
     TokenAcquired, TokenFailed, PrepareCgusFails, CodegenCguFails, Worker, WorkerSucceeds,
     WorkerCopyFails, WorkerFails, WorkerPanics, WorkerEnds, Terminated, vars
<1>2. SUFFICES ASSUME Good', NEW u \in Units PROVE Sole(u)'
  BY <1>1 DEF UnitsInv, Units
<1>3. CASE UNCHANGED vars
  <2>1. Good
    BY <1>2, <1>3 DEF vars, Good, MainListens
  <2>. QED  BY <1>2, <1>3, <2>1, Undisturbed DEF UnitsInv, vars, placeVars
<1>4. CASE Next
  <2>1. Good
    BY <1>2, <1>4, GoodBefore
  <2>2. Sole(u)
    BY <1>2, <2>1 DEF UnitsInv
  <2>3. ~PrepareCgusFails /\ ~\E c \in Cgus : CodegenCguFails(c)
    BY <1>2 DEF PrepareCgusFails, CodegenCguFails, Good, MainListens
  <2>4. CASE Terminated
    BY <2>2, <2>4, Undisturbed DEF Terminated, vars, placeVars
  <2>. QED  BY <1>2, <1>4, <2>1, <2>2, <2>3, <2>4, MainUnits, TurnUnits,
               HandleUnits, WorkerUnits DEF Next
<1>. QED  BY <1>3, <1>4

\* While codegen goes well every unit is in one place.
THEOREM UnitsCorrect == Spec => []UnitsInv
<1>. QED  BY InitUnits, NextUnits, TypeCorrect, HandshakeCorrect, AccountCorrect,
             ErrorCorrect, ResultCorrect, EndCorrect, PTL DEF Spec

\* No unit is dropped or compiled twice between the main thread, the queue, the
\* workers, LTO and linking, for any number of units, tokens and workers.
THEOREM UnitsConservedCorrect == Spec => []UnitsConserved
<1>1. UnitsInv => UnitsConserved
  BY SoleIsOne DEF UnitsInv, UnitsConserved, Good
<1>. QED  BY <1>1, UnitsCorrect, PTL

\* When join returns with success each unit is in one compiled module, and no
\* object file is missing.
THEOREM SuccessCorrect == Spec => []SuccessIsComplete
<1>1. ErrorInv /\ EndInv /\ UnitsInv => SuccessIsComplete
  <2>. SUFFICES ASSUME ErrorInv, EndInv, UnitsInv, mpc = "success"
                PROVE  /\ noObject = {}
                       /\ \A u \in Units :
                            Cardinality({m \in lists["compiled"] \cup
                                               lists["allocator"] : u \in m}) = 1
    BY DEF SuccessIsComplete
  <2>1. exit = "Ok" /\ codegenState = "Completed" /\ noObject = {} /\ MainListens
    BY DEF ErrorInv, EndInv, MainListens
  <2>2. ASSUME NEW u \in Units
        PROVE  Cardinality({m \in lists["compiled"] \cup
                                  lists["allocator"] : u \in m}) = 1
    <3>1. PICK k, x : Lies(u, k, x) /\ \A l, y : Lies(u, l, y) => l = k /\ y = x
      BY <2>1 DEF UnitsInv, Good, Sole
    <3>2. /\ todo = {} /\ inbox = <<>> /\ workItems = {} /\ running = {}
          /\ finished = {}
          /\ \A l \in {"link", "fat", "thin", "import"} : lists[l] = {}
      BY <2>1 DEF EndInv
    <3>3. k \in {"compiled", "allocator"} /\ x \in lists[k] /\ u \in x
      BY <3>1, <3>2 DEF Lies, ListNames
    <3>4. \A l \in {"compiled", "allocator"} : \A y \in lists[l] : u \in y => y = x
      BY <3>1 DEF Lies, ListNames
    <3>5. {m \in lists["compiled"] \cup lists["allocator"] : u \in m} = {x}
      BY <3>3, <3>4
    <3>. QED  BY <3>5, FS_Singleton
  <2>. QED  BY <2>1, <2>2
<1>. QED  BY <1>1, ErrorCorrect, EndCorrect, UnitsCorrect, PTL
===============================================================================
