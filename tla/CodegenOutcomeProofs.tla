------------------------- MODULE CodegenOutcomeProofs -------------------------
(***************************************************************************)
(* Proofs about how the pipeline of CodegenCoordinator ends: errors reach  *)
(* the main thread, an abort is final, the coordinator's assertions on the *)
(* handshake and on its vectors hold, and LTO starts after everything else.*)
(***************************************************************************)
EXTENDS CodegenCoordinatorProofs

(***************************************************************************)
(* Errors and aborts                                                       *)
(***************************************************************************)
\* Sending adds the message at the end, or nothing.
LEMMA SendEffect ==
  ASSUME TypeOK, NEW m \in Message, Send(m), NEW k \in DOMAIN inbox'
  PROVE  inbox'[k] = m \/ (k \in DOMAIN inbox /\ inbox'[k] = inbox[k])
<1>1. inbox \in Seq(Message)
  BY DEF TypeOK
<1>2. CASE inbox' = inbox
  BY <1>2
<1>3. CASE inbox' = Append(inbox, m)
  <2>1. /\ Len(inbox') = Len(inbox) + 1 /\ inbox' \in Seq(Message)
        /\ \A j \in 1 .. Len(inbox) : inbox'[j] = inbox[j]
        /\ inbox'[Len(inbox) + 1] = m /\ Len(inbox) \in Nat
    BY <1>1, <1>3, AppendProperties, LenProperties
  <2>2. DOMAIN inbox' = 1 .. Len(inbox) + 1 /\ DOMAIN inbox = 1 .. Len(inbox)
    BY <1>1, <2>1, LenProperties
  <2>. QED  BY <2>1, <2>2
<1>. QED  BY <1>2, <1>3 DEF Send

\* Receiving keeps what is behind the first message.
LEMMA ReceiveKeeps ==
  ASSUME TypeOK, NEW t, Receive(t), NEW k \in DOMAIN inbox'
  PROVE  k + 1 \in DOMAIN inbox /\ inbox'[k] = inbox[k + 1]
<1>1. inbox \in Seq(Message) /\ inbox # <<>> /\ inbox' = Tail(inbox)
  BY ReceiveTyped DEF TypeOK
<1>2. /\ inbox' \in Seq(Message) /\ Len(inbox') = Len(inbox) - 1
      /\ \A i \in 1 .. Len(inbox') : inbox'[i] = inbox[i + 1]
  BY <1>1, HeadTailProperties
<1>3. Len(inbox) \in Nat /\ DOMAIN inbox = 1 .. Len(inbox)
      /\ DOMAIN inbox' = 1 .. Len(inbox')
  BY <1>1, <1>2, LenProperties
<1>. QED  BY <1>2, <1>3

\* The messages of the main thread, by the action that sends them.
LEMMA MainSends ==
  ASSUME TypeOK, Main, NEW k \in DOMAIN inbox', inbox'[k].type = "CodegenAborted"
  PROVE  mpc' = "dropJoin" \/ (k \in DOMAIN inbox /\ inbox'[k] = inbox[k])
<1>1. NoItem \in WorkItem
  BY DEF NoItem, Item, WorkItem, Module
<1>2. CASE UNCHANGED inbox
  BY <1>2
<1>3. CASE SubmitAllocator
  <2>. DEFINE m == [type |-> "CodegenDone", item |-> Item("Optimize", {Alloc})]
  <2>1. m \in Message /\ m.type # "CodegenAborted"
    BY DEF Message, Item, WorkItem, Module, AllUnits
  <2>2. Send(m)
    BY <1>3 DEF SubmitAllocator
  <2>. HIDE DEF m
  <2>. QED  BY <2>1, <2>2, SendEffect
<1>4. ASSUME NEW u \in Cgus, CodegenCgu(u)
      PROVE  k \in DOMAIN inbox /\ inbox'[k] = inbox[k]
  <2>1. PICK op \in {"Optimize", "LTO", "CopyPostLtoArtifacts"},
             t \in {"CodegenDone", "AddImportOnlyModule"} :
          Send([type |-> t, item |-> Item(op, {u})])
    BY <1>4 DEF CodegenCgu
  <2>. DEFINE m == [type |-> t, item |-> Item(op, {u})]
  <2>2. m \in Message /\ m.type # "CodegenAborted"
    BY DEF Message, Item, WorkItem, Module, AllUnits
  <2>3. Send(m)
    BY <2>1
  <2>. HIDE DEF m
  <2>. QED  BY <2>2, <2>3, SendEffect
<1>5. CASE CodegenFinished
  <2>. DEFINE m == Plain("CodegenComplete")
  <2>1. m \in Message /\ m.type # "CodegenAborted"
    BY <1>1 DEF Message, Plain
  <2>2. Send(m)
    BY <1>5 DEF CodegenFinished
  <2>. HIDE DEF m
  <2>. QED  BY <2>1, <2>2, SendEffect
<1>6. CASE DropCoordinator
  BY <1>6 DEF DropCoordinator
<1>. QED  BY <1>2, <1>3, <1>4, <1>5, <1>6 DEF Main, PrepareCgus, WaitForSignal,
          DropJoined, JoinMeetsError, JoinReturns

\* At first nothing has gone wrong.
LEMMA InitError == Init => ErrorInv
  BY DEF Init, ErrorInv, Running

\* The main thread aborts codegen only by unwinding.
LEMMA MainError ==
  ASSUME TypeOK, HandshakeInv, ErrorInv, Main
  PROVE  ErrorInv'
<1>. USE DEF mainVars, confVars, coordinatorVars, exitVars, queueVars, ltoVars,
             envVars, Running
<1>1. UNCHANGED <<codegenState, cpc, exit, errorSent, finished>>
  BY DEF Main, PrepareCgus, WaitForSignal, SubmitAllocator, CodegenCgu,
     CodegenFinished, DropCoordinator, DropJoined, JoinMeetsError, JoinReturns
<1>2. mpc \in {"dropJoin", "aborted"} => mpc' \in {"dropJoin", "aborted"}
  BY DEF Main, PrepareCgus, WaitForSignal, SubmitAllocator, CodegenCgu,
     CodegenFinished, DropCoordinator, DropJoined, JoinMeetsError, JoinReturns
<1>3. (mpc' = "success" => exit = "Ok") /\ mpc' # "expectedAbort"
  BY DEF ErrorInv, Main, PrepareCgus, WaitForSignal, SubmitAllocator, CodegenCgu,
     CodegenFinished, DropCoordinator, DropJoined, JoinMeetsError, JoinReturns
<1>4. ASSUME NEW k \in DOMAIN inbox', inbox'[k].type = "CodegenAborted"
      PROVE  mpc' \in {"dropJoin", "aborted"}
  BY <1>2, <1>4, MainSends DEF ErrorInv
<1>. QED  BY <1>1, <1>2, <1>3, <1>4 DEF ErrorInv

\* The coordinator's steps: those of the loop and those of the handlers.
LEMMA CoordinatorError ==
  ASSUME TypeOK, ErrorInv, Turn \/ Handle \/ TokenAcquired \/ TokenFailed
  PROVE  ErrorInv'
<1>. USE DEF mainVars, confVars, exitVars, queueVars, ltoVars, envVars, Running
<1>1. ASSUME NEW t, Receive(t), NEW k \in DOMAIN inbox',
             inbox'[k].type = "CodegenAborted"
      PROVE  mpc \in {"dropJoin", "aborted"}
  BY <1>1, ReceiveKeeps DEF ErrorInv
<1>2. ASSUME cpc # "exited", \E why : Panic(why) /\ why \notin {"none", "Ok", "Err"},
             UNCHANGED mainVars, UNCHANGED inbox \/ \E t : Receive(t)
      PROVE  ErrorInv'
  BY <1>1, <1>2 DEF ErrorInv, Panic, Leave
<1>3. ASSUME cpc # "exited", cpc' # "exited", UNCHANGED <<mainVars, exit>>,
             UNCHANGED inbox \/ \E t : Receive(t),
             codegenState' = "Aborted" =>
               \/ codegenState = "Aborted" \/ errorSent'
               \/ mpc \in {"dropJoin", "aborted"},
             errorSent => errorSent', finished' \subseteq finished
      PROVE  ErrorInv'
  BY <1>1, <1>3 DEF ErrorInv
<1>4. ASSUME NEW q, NEW w, NEW lend, SpawnWork(q, w, lend)
      PROVE  cpc' = "recv" /\ exit' = exit
  BY <1>4 DEF SpawnWork
<1>5. CASE TurnOngoingIdle
  BY <1>2, <1>3, <1>4, <1>5 DEF TurnOngoingIdle
<1>6. CASE TurnOngoingBusy
  BY <1>3, <1>4, <1>6 DEF TurnOngoingBusy
<1>7. CASE TurnCompletedDone
  BY <1>7 DEF TurnCompletedDone, ReturnModules, Leave, ErrorInv
<1>8. CASE TurnCompletedLto
  <2>1. ASSUME NEW reused, StartLto(reused) PROVE ErrorInv'
    <3>1. CASE Panic("lto_unreachable")
      BY <1>2, <1>8, <3>1 DEF TurnCompletedLto
    <3>2. CASE Leave("lto_failed") /\ errorSent' = TRUE
               /\ UNCHANGED <<codegenState, finished>>
      BY <1>8, <3>2 DEF TurnCompletedLto, Leave, ErrorInv
    <3>3. CASE cpc' = "recv" /\ UNCHANGED <<exit, codegenState, finished, errorSent>>
      BY <1>3, <1>8, <3>3 DEF TurnCompletedLto
    <3>. QED  BY <1>4, <2>1, <3>1, <3>2, <3>3 DEF StartLto
  <2>. QED  BY <1>2, <1>8, <2>1 DEF TurnCompletedLto
<1>9. CASE TurnCompleted
  BY <1>2, <1>3, <1>4, <1>9 DEF TurnCompleted
<1>10. CASE TurnAborted
  BY <1>10 DEF TurnAborted, Leave, ErrorInv
<1>11. CASE TokenAcquired
  BY <1>3, <1>11 DEF TokenAcquired, Loop
<1>12. CASE TokenFailed
  BY <1>3, <1>12 DEF TokenFailed, Loop
<1>13. CASE CodegenDone
  BY <1>2, <1>3, <1>13 DEF CodegenDone, Receive, Loop
<1>14. CASE AddImportOnlyModule
  BY <1>2, <1>3, <1>14 DEF AddImportOnlyModule, Receive, Loop
<1>15. CASE CodegenComplete
  BY <1>2, <1>3, <1>15 DEF CodegenComplete, Receive, Loop
<1>16. CASE CodegenAborted
  <2>1. mpc \in {"dropJoin", "aborted"}
    <3>1. inbox # <<>> /\ inbox[1].type = "CodegenAborted"
      BY <1>16, ReceiveTyped DEF CodegenAborted
    <3>2. 1 \in DOMAIN inbox
      BY <3>1 DEF TypeOK
    <3>. QED  BY <3>1, <3>2 DEF ErrorInv
  <2>. QED  BY <1>3, <1>16, <2>1 DEF CodegenAborted, Receive, Loop
<1>17. ASSUME NEW f \in finished, WorkItemDone(f)
       PROVE  ErrorInv'
  <2>1. CASE \E why : Panic(why) /\ why \notin {"none", "Ok", "Err"}
    BY <1>2, <1>17, <2>1 DEF WorkItemDone
  <2>2. CASE /\ codegenState' = "Aborted" /\ f.res = "FatalError" /\ Loop
             /\ finished' \subseteq finished /\ UNCHANGED errorSent
    <3>1. errorSent
      BY <2>2 DEF ErrorInv
    <3>. QED  BY <1>3, <1>17, <2>2, <3>1 DEF WorkItemDone, Loop
  <2>3. CASE Loop /\ finished' \subseteq finished
             /\ UNCHANGED <<codegenState, errorSent>>
    BY <1>3, <1>17, <2>3 DEF WorkItemDone, Loop
  <2>. QED  BY <1>17, <2>1, <2>2, <2>3 DEF WorkItemDone
<1>. QED  BY <1>5, <1>6, <1>7, <1>8, <1>9, <1>10, <1>11, <1>12, <1>13, <1>14,
             <1>15, <1>16, <1>17 DEF Turn, Handle

\* ErrorInv is inductive, given the types and the handshake.
LEMMA NextError == TypeOK /\ HandshakeInv /\ ErrorInv /\ [Next]_vars => ErrorInv'
<1>. SUFFICES ASSUME TypeOK, HandshakeInv, ErrorInv, [Next]_vars PROVE ErrorInv'
  OBVIOUS
<1>. USE DEF mainVars, confVars, coordinatorVars, exitVars, queueVars, ltoVars,
             envVars, Running
<1>1. ASSUME NEW i \in running, Worker(i) PROVE ErrorInv'
  <2>1. PICK res : WorkerEnds(i, res) /\ (res = "FatalError" => errorSent')
                   /\ (errorSent => errorSent')
    <3>1. Execute(i) # "FatalError"
      <4>1. ComputeLtoType(IsAllocator(i)) \in {"No", "Thin", "Fat"}
        BY DEF ComputeLtoType
      <4>. QED  BY <4>1 DEF Execute, FinishIntraModuleWork, TypeOK, WorkItem
    <3>. QED  BY <1>1, <3>1 DEF Worker, WorkerSucceeds, WorkerCopyFails, WorkerFails,
              WorkerPanics
  <2>. QED  BY <2>1 DEF WorkerEnds, ErrorInv
<1>2. CASE PrepareCgusFails \/ \E u \in Cgus : CodegenCguFails(u)
  BY <1>2 DEF PrepareCgusFails, CodegenCguFails, ErrorInv
<1>3. CASE Terminated \/ UNCHANGED vars
  BY <1>3 DEF Terminated, vars, ErrorInv
<1>. QED  BY <1>1, <1>2, <1>3, MainError, CoordinatorError DEF Next

\* Whatever aborts codegen is known to the main thread.
THEOREM ErrorCorrect == Spec => []ErrorInv
<1>. QED  BY InitError, NextError, TypeCorrect, HandshakeCorrect, PTL DEF Spec

\* join never meets a coordinator that gave up without an error reported.
THEOREM ErrorsReachMainCorrect == Spec => []ErrorsReachMain
<1>1. ErrorInv => ErrorsReachMain
  BY DEF ErrorInv, ErrorsReachMain
<1>. QED  BY <1>1, ErrorCorrect, PTL

\* Once codegen is aborted nothing is started and the session does not succeed.
THEOREM AbortCorrect == Spec => AbortIsFinal
<1>1. TypeOK /\ ErrorInv /\ [Next]_vars => [AbortIsFinalStep]_vars
  <2>. SUFFICES ASSUME TypeOK, ErrorInv, Next, codegenState = "Aborted"
                PROVE  AbortIsFinalStep
    BY DEF AbortIsFinalStep
  <2>. USE DEF mainVars, confVars, coordinatorVars, exitVars, queueVars, ltoVars,
               envVars, AbortIsFinalStep
  <2>1. signals \in Nat /\ mpc # "success" /\ exit # "Ok"
    BY DEF TypeOK, ErrorInv
  <2>2. CASE Main
    <3>1. codegenState' = codegenState /\ running' = running
      BY <2>2 DEF Main, PrepareCgus, WaitForSignal, SubmitAllocator,
         CodegenCgu, CodegenFinished, DropCoordinator, DropJoined, JoinMeetsError,
         JoinReturns
    <3>3. signals' = signals \/ (signals > 0 /\ signals' = signals - 1)
      BY <2>2 DEF Main, PrepareCgus, WaitForSignal, SubmitAllocator,
         CodegenCgu, CodegenFinished, DropCoordinator, DropJoined, JoinMeetsError,
         JoinReturns
    <3>2. mpc' # "success"
      BY <2>1, <2>2 DEF Main, PrepareCgus, WaitForSignal, SubmitAllocator,
         CodegenCgu, CodegenFinished, DropCoordinator, DropJoined, JoinMeetsError,
         JoinReturns
    <3>. QED  BY <2>1, <3>1, <3>2, <3>3
  <2>3. CASE Turn
    BY <2>1, <2>3 DEF Turn, TurnOngoingIdle, TurnOngoingBusy, TurnCompletedDone,
       TurnCompletedLto, TurnCompleted, TurnAborted
  <2>4. CASE Handle
    BY <2>1, <2>4 DEF Handle, CodegenDone, AddImportOnlyModule, CodegenComplete,
       CodegenAborted, WorkItemDone, Panic, Leave
  <2>5. CASE TokenAcquired \/ TokenFailed
    BY <2>1, <2>5 DEF TokenAcquired, TokenFailed
  <2>6. ASSUME NEW i \in running, Worker(i) PROVE AbortIsFinalStep
    BY <2>1, <2>6 DEF Worker, WorkerSucceeds, WorkerCopyFails, WorkerFails,
       WorkerPanics, WorkerEnds
  <2>7. CASE Terminated \/ PrepareCgusFails \/ \E u \in Cgus : CodegenCguFails(u)
    BY <2>1, <2>7 DEF Terminated, PrepareCgusFails, CodegenCguFails, vars
  <2>. QED  BY <2>2, <2>3, <2>4, <2>5, <2>6, <2>7 DEF Next
<1>. QED  BY <1>1, TypeCorrect, ErrorCorrect, PTL DEF Spec, AbortIsFinal

-------------------------------------------------------------------------------
(***************************************************************************)
(* What the vectors hold                                                   *)
(***************************************************************************)
LEMMA InitResult == Init => ResultInv
<1>. SUFFICES ASSUME Init PROVE ResultInv
  OBVIOUS
<1>1. \A k \in ListNames : lists[k] = {}
  BY DEF Init
<1>. QED  BY <1>1 DEF Init, ResultInv, ListNames

\* A result names the LTO of the session.
LEMMA ExecuteFlavour ==
  ASSUME NEW i \in WorkItem
  PROVE  /\ Execute(i) = "NeedsFatLto" => conf.lto = "Fat" /\ i.op = "Optimize"
         /\ Execute(i) = "NeedsThinLto" =>
              conf.lto \in {"Thin", "ThinLocal"} /\ i.op = "Optimize"
  BY DEF Execute, ComputeLtoType, FinishIntraModuleWork, WorkItem

\* The main thread sends the allocator shim at most once.
LEMMA MainResult ==
  ASSUME TypeOK, HandshakeInv, ResultInv, Main
  PROVE  ResultInv'
<1>. USE DEF mainVars, confVars, coordinatorVars, exitVars, queueVars, ltoVars,
             envVars
<1>1. UNCHANGED <<conf, coordinatorVars>> /\ todo' \subseteq todo
  BY DEF Main, PrepareCgus, WaitForSignal, SubmitAllocator, CodegenCgu,
     CodegenFinished, DropCoordinator, DropJoined, JoinMeetsError, JoinReturns
<1>2. Known' = Known /\ NoLtoWork' = NoLtoWork
      /\ \A i : IsAllocator(i)' = IsAllocator(i) /\ Execute(i)' = Execute(i)
  BY <1>1 DEF Known, NoLtoWork, IsAllocator, Execute, ComputeLtoType,
     FinishIntraModuleWork
<1>3. ASSUME lists["allocator"] # {}, NEW k \in DOMAIN inbox',
             inbox'[k].type = "CodegenDone"
      PROVE  ~IsAllocator(inbox'[k].item)
  <2>1. Alloc \notin todo /\ \A j \in DOMAIN inbox :
          inbox[j].type = "CodegenDone" => ~IsAllocator(inbox[j].item)
    BY <1>3 DEF ResultInv
  <2>2. CASE UNCHANGED inbox
    BY <1>3, <2>1, <2>2
  <2>3. ASSUME NEW u \in Cgus, CodegenCgu(u)
        PROVE  ~IsAllocator(inbox'[k].item)
    <3>1. PICK op \in {"Optimize", "LTO", "CopyPostLtoArtifacts"},
               t \in {"CodegenDone", "AddImportOnlyModule"} :
            Send([type |-> t, item |-> Item(op, {u})])
      BY <2>3 DEF CodegenCgu
    <3>. DEFINE m == [type |-> t, item |-> Item(op, {u})]
    <3>2. m \in Message /\ m.item.mod = {u}
      BY DEF Message, Item, WorkItem, Module, AllUnits
    <3>3. Send(m)
      BY <3>1
    <3>4. ~IsAllocator(m.item)
      BY <3>2, UnitsAssumption DEF IsAllocator
    <3>. HIDE DEF m
    <3>. QED  BY <1>3, <2>1, <3>2, <3>3, <3>4, SendEffect
  <2>4. CASE CodegenFinished \/ DropCoordinator
    <3>1. PICK t \in {"CodegenComplete", "CodegenAborted"} : Send(Plain(t))
      BY <2>4 DEF CodegenFinished, DropCoordinator
    <3>2. Plain(t) \in Message /\ Plain(t).type # "CodegenDone"
      BY DEF Message, Plain, NoItem, Item, WorkItem, Module
    <3>. QED  BY <1>3, <2>1, <3>1, <3>2, SendEffect
  <2>. QED  BY <2>1, <2>2, <2>3, <2>4 DEF Main, PrepareCgus, WaitForSignal,
            SubmitAllocator, DropJoined, JoinMeetsError, JoinReturns
<1>. QED  BY <1>1, <1>2, <1>3 DEF ResultInv

\* The items of a turn come out of the queue.
LEMMA SpawnResult ==
  ASSUME ResultInv, NEW w, NEW lend, SpawnWork(workItems, w, lend),
         UNCHANGED <<conf, todo, inbox, lists, startedLto, finished>>
  PROVE  ResultInv'
<1>1. workItems' \cup running' = workItems \cup running
  BY DEF SpawnWork, Popped
<1>2. Known' = Known /\ NoLtoWork' = NoLtoWork
      /\ \A i : IsAllocator(i)' = IsAllocator(i) /\ Execute(i)' = Execute(i)
  BY <1>1 DEF Known, NoLtoWork, IsAllocator, Execute, ComputeLtoType,
     FinishIntraModuleWork
<1>. QED  BY <1>2 DEF ResultInv

\* LTO starts with every vector it takes from emptied and only LTO items queued.
LEMMA TurnResult ==
  ASSUME TypeOK, HandshakeInv, AccountInv, ResultInv, Turn
  PROVE  ResultInv'
<1>. USE DEF mainVars, confVars, exitVars, queueVars, ltoVars, envVars
<1>1. UNCHANGED <<conf, todo, inbox>>
  BY DEF Turn, TurnOngoingIdle, TurnOngoingBusy, TurnCompletedDone,
     TurnCompletedLto, TurnCompleted, TurnAborted
<1>2. \A i : IsAllocator(i)' = IsAllocator(i) /\ Execute(i)' = Execute(i)
  BY <1>1 DEF IsAllocator, Execute, ComputeLtoType, FinishIntraModuleWork
<1>3. ASSUME UNCHANGED <<workItems, running, finished, lists, startedLto>>
      PROVE  ResultInv'
  BY <1>1, <1>2, <1>3 DEF ResultInv, Known, NoLtoWork
<1>4. CASE TurnOngoingIdle
  BY <1>1, <1>3, <1>4, SpawnResult DEF TurnOngoingIdle, Panic
<1>5. CASE TurnOngoingBusy
  BY <1>1, <1>5, SpawnResult DEF TurnOngoingBusy
<1>6. CASE TurnCompletedDone
  <2>1. UNCHANGED <<workItems, running, finished, startedLto>>
    BY <1>6 DEF TurnCompletedDone
  <2>2. /\ lists["fat"]' = lists["fat"] /\ lists["thin"]' = lists["thin"]
        /\ lists["import"]' = lists["import"]
        /\ lists["allocator"]' = lists["allocator"]
    BY <1>6 DEF TurnCompletedDone, ReturnModules, TypeOK, ListNames
  <2>3. Known' = Known /\ NoLtoWork' = NoLtoWork
    BY <2>1, <2>2 DEF Known, NoLtoWork
  <2>. QED  BY <1>1, <1>2, <2>1, <2>2, <2>3 DEF ResultInv
<1>7. CASE TurnCompletedLto
  <2>1. ASSUME NEW reused \in SUBSET (IF lists["fat"] = {} THEN lists["import"] ELSE {}),
               StartLto(reused)
        PROVE  ResultInv'
    <3>. DEFINE work == GenerateLtoWork(reused)
    <3>1. /\ running = {} /\ finished = {} /\ todo = {} /\ ~NoLtoWork
          /\ \A k \in DOMAIN inbox : inbox[k].type # "CodegenDone"
      BY <1>7, LtoStart DEF TurnCompletedLto
    <3>2. \A i \in work : i.op # "Optimize"
      BY <2>1, <3>1, LtoWork
    <3>. HIDE DEF work
    <3>3. CASE /\ lists' = [lists EXCEPT !["fat"] = {}, !["thin"] = {},
                                         !["import"] = {}]
               /\ SpawnWork(work, own, 1) /\ UNCHANGED finished
      <4>1. Known' \subseteq work
        BY <3>1, <3>3 DEF SpawnWork, Popped, Known
      <4>2. NoLtoWork' /\ lists'["fat"] = {} /\ lists'["thin"] = {}
        BY <3>3 DEF NoLtoWork, TypeOK, ListNames
      <4>3. \A i \in Known' : i.op # "Optimize"
        BY <3>2, <4>1
      <4>. QED  BY <1>1, <3>1, <3>3, <4>2, <4>3 DEF ResultInv, IsAllocator
    <3>4. CASE UNCHANGED <<workItems, running, finished, lists, startedLto>>
      BY <1>3, <3>4
    <3>. QED  BY <2>1, <3>3, <3>4 DEF StartLto, Panic, work
  <2>. QED  BY <1>3, <1>7, <2>1 DEF TurnCompletedLto, Panic
<1>8. CASE TurnCompleted
  BY <1>1, <1>3, <1>8, SpawnResult DEF TurnCompleted, Panic
<1>9. CASE TurnAborted
  BY <1>3, <1>9 DEF TurnAborted
<1>. QED  BY <1>4, <1>5, <1>6, <1>7, <1>8, <1>9 DEF Turn

\* The item of an answer is not LTO's business: it comes before LTO starts.
LEMMA ReceiveResult ==
  ASSUME TypeOK, HandshakeInv, ResultInv, NEW t, Receive(t),
         UNCHANGED <<conf, todo, running, finished, startedLto>>,
         workItems' \subseteq workItems \cup {inbox[1].item},
         workItems' # workItems => t = "CodegenDone",
         \A k \in {"fat", "thin", "allocator"} : lists'[k] = lists[k],
         lists'["import"] # lists["import"] => ~startedLto
  PROVE  ResultInv'
<1>1. \A i : IsAllocator(i)' = IsAllocator(i) /\ Execute(i)' = Execute(i)
  BY DEF IsAllocator, Execute, ComputeLtoType, FinishIntraModuleWork
<1>2. /\ cpc = "recv" /\ inbox # <<>> /\ inbox[1].type = t /\ 1 \in DOMAIN inbox
      /\ \A k \in DOMAIN inbox' : inbox'[k].type # "CodegenDone"
  <2>1. 1 \in DOMAIN inbox
    BY ReceiveTyped DEF TypeOK
  <2>. QED  BY <2>1, ReceiveEffect, ReceiveEmpties
<1>3. startedLto => workItems' = workItems /\ lists'["import"] = lists["import"]
  BY <1>2 DEF HandshakeInv, Running, Answers
<1>4. Known' \subseteq Known \cup {inbox[1].item}
      /\ (workItems' = workItems => Known' = Known)
  BY DEF Known
<1>5. startedLto => NoLtoWork' /\ \A i \in Known' : i.op # "Optimize"
  BY <1>3, <1>4 DEF ResultInv, NoLtoWork
<1>6. lists["allocator"] # {} => \A i \in Known' : ~IsAllocator(i)
  <2>1. lists["allocator"] # {} /\ t = "CodegenDone" => ~IsAllocator(inbox[1].item)
    BY <1>2 DEF ResultInv
  <2>. QED  BY <1>4, <2>1 DEF ResultInv
<1>. QED  BY <1>1, <1>2, <1>5, <1>6 DEF ResultInv

\* A result that is collected goes where its session's LTO wants it, and there
\* is no second allocator shim after the first.
LEMMA CollectResult ==
  ASSUME TypeOK, AccountInv, ResultInv, NEW f \in finished,
         f.res \notin {"FatalError", "Panicked"},
         lists' = [lists EXCEPT ![Destination(f)] = @ \cup {f.item.mod}],
         finished' = finished \ {f},
         UNCHANGED <<conf, todo, inbox, workItems, running, startedLto>>
  PROVE  ResultInv'
<1>1. \A i : IsAllocator(i)' = IsAllocator(i) /\ Execute(i)' = Execute(i)
  BY DEF IsAllocator, Execute, ComputeLtoType, FinishIntraModuleWork
<1>2. /\ f \in [item : WorkItem, res : Results] /\ f.item \in WorkItem
      /\ f.res = Execute(f.item) /\ f.item \in Known
      /\ \A g \in finished : g.item \in WorkItem
      /\ workItems \in SUBSET WorkItem /\ running \in SUBSET WorkItem
  BY DEF TypeOK, ResultInv, Known
<1>3. Destination(f) \in ListNames
  BY <1>2, DestinationTyped
<1>4. Known' \subseteq Known
  BY DEF Known
<1>5. \A k \in ListNames : k # Destination(f) => lists'[k] = lists[k]
  BY <1>3 DEF TypeOK
<1>6. Destination(f) \in {"fat", "thin"} => ~startedLto
  BY <1>2, ExecuteFlavour DEF Destination, ResultInv, Results
<1>7. Destination(f) # "import"
  BY <1>2 DEF Destination, Results
<1>8. startedLto => NoLtoWork'
  <2>1. startedLto => \A k \in {"fat", "thin", "import"} : lists'[k] = lists[k]
    BY <1>5, <1>6, <1>7 DEF ListNames
  <2>. QED  BY <2>1 DEF ResultInv, NoLtoWork
<1>9. lists'["fat"] # {} => conf.lto = "Fat"
  <2>1. Destination(f) = "fat" => f.res = "NeedsFatLto"
    BY <1>2 DEF Destination, Results
  <2>. QED  BY <1>2, <1>5, <2>1, ExecuteFlavour DEF ResultInv, ListNames
<1>10. lists'["thin"] # {} => conf.lto \in {"Thin", "ThinLocal"}
  <2>1. Destination(f) = "thin" => f.res = "NeedsThinLto"
    BY <1>2 DEF Destination, Results
  <2>. QED  BY <1>2, <1>5, <2>1, ExecuteFlavour DEF ResultInv, ListNames
<1>11. ASSUME lists'["allocator"] # {}
       PROVE  /\ Alloc \notin todo /\ \A i \in Known' : ~IsAllocator(i)
              /\ \A k \in DOMAIN inbox :
                   inbox[k].type = "CodegenDone" => ~IsAllocator(inbox[k].item)
  <2>1. CASE lists["allocator"] # {}
    BY <1>4, <2>1 DEF ResultInv
  <2>2. CASE lists["allocator"] = {}
    <3>1. Destination(f) = "allocator"
      BY <1>5, <1>11, <2>2 DEF ListNames
    <3>2. IsAllocator(f.item)
      BY <1>2, <3>1 DEF Destination, Results
    <3>3. f.item.op = "Optimize" /\ f.item.mod = {Alloc}
      BY <3>2 DEF IsAllocator
    <3>4. \A i \in WorkItem : IsAllocator(i) => i = f.item
      <4>1. \A i \in WorkItem : i = [op |-> i.op, mod |-> i.mod]
        BY DEF WorkItem
      <4>2. f.item = [op |-> "Optimize", mod |-> {Alloc}]
        BY <1>2, <3>3, <4>1, Zenon
      <4>. QED  BY <4>1, <4>2, Zenon DEF IsAllocator
    <3>5. Alloc \notin todo
      BY <1>2, <3>3 DEF AccountInv, ItemsInv
    <3>6. ASSUME NEW i \in Known' PROVE i # f.item /\ i \in WorkItem
      <4>1. CASE i \in workItems \cup running
        BY <1>2, <4>1 DEF AccountInv, ItemsInv
      <4>2. CASE i \notin workItems \cup running
        <5>1. PICK g \in finished : g # f /\ i = g.item
          BY <3>6, <4>2 DEF Known
        <5>. QED  BY <1>2, <5>1 DEF AccountInv, ItemsInv
      <4>. QED  BY <4>1, <4>2
    <3>7. ASSUME NEW k \in DOMAIN inbox, inbox[k].type = "CodegenDone"
          PROVE  ~IsAllocator(inbox[k].item)
      <4>1. inbox[k] \in Message
        BY DEF TypeOK
      <4>2. inbox[k].item \in WorkItem /\ inbox[k].item # f.item
        BY <1>2, <3>7, <4>1 DEF AccountInv, ItemsInv, Message
      <4>. QED  BY <3>4, <4>2
    <3>. QED  BY <3>4, <3>5, <3>6, <3>7
  <2>. QED  BY <2>1, <2>2
<1>. QED  BY <1>1, <1>4, <1>8, <1>9, <1>10, <1>11 DEF ResultInv

\* A result is collected where Execute says, and never an allocator shim twice.
LEMMA HandleResult ==
  ASSUME TypeOK, HandshakeInv, AccountInv, ResultInv,
         Handle \/ TokenAcquired \/ TokenFailed
  PROVE  ResultInv'
<1>. USE DEF mainVars, confVars, exitVars, queueVars, ltoVars, envVars
<1>1. ASSUME UNCHANGED <<conf, todo, inbox, workItems, running, lists, startedLto>>,
             finished' \subseteq finished
      PROVE  ResultInv'
  <2>1. \A i : IsAllocator(i)' = IsAllocator(i) /\ Execute(i)' = Execute(i)
    BY <1>1 DEF IsAllocator, Execute, ComputeLtoType, FinishIntraModuleWork
  <2>2. Known' \subseteq Known /\ NoLtoWork' = NoLtoWork
    BY <1>1 DEF Known, NoLtoWork
  <2>. QED  BY <1>1, <2>1, <2>2 DEF ResultInv
<1>2. CASE TokenAcquired \/ TokenFailed
  BY <1>1, <1>2 DEF TokenAcquired, TokenFailed
<1>3. CASE CodegenDone
  <2>1. Head(inbox) = inbox[1]
    BY <1>3, ReceiveTyped DEF CodegenDone
  <2>. QED  BY <1>3, <2>1, ReceiveResult DEF CodegenDone, Panic
<1>4. CASE AddImportOnlyModule
  <2>1. CASE \E why : Panic(why)
    BY <1>4, <2>1, ReceiveResult DEF AddImportOnlyModule, Panic
  <2>2. CASE ~\E why : Panic(why)
    <3>1. \A k \in {"fat", "thin", "allocator"} : lists'[k] = lists[k]
      BY <1>4, <2>2 DEF AddImportOnlyModule, TypeOK, ListNames
    <3>2. ~startedLto /\ UNCHANGED <<conf, todo, workItems, running, finished,
                                     startedLto>>
      BY <1>4, <2>2 DEF AddImportOnlyModule
    <3>. QED  BY <1>4, <3>1, <3>2, ReceiveResult DEF AddImportOnlyModule
  <2>. QED  BY <2>1, <2>2
<1>5. CASE CodegenComplete
  BY <1>5, ReceiveResult DEF CodegenComplete, Panic
<1>6. CASE CodegenAborted
  BY <1>6, ReceiveResult DEF CodegenAborted
<1>7. ASSUME NEW f \in finished, WorkItemDone(f)
      PROVE  ResultInv'
  <2>1. CASE (\E why : Panic(why)) \/ UNCHANGED lists
    BY <1>1, <1>7, <2>1 DEF WorkItemDone, Panic
  <2>2. CASE ~((\E why : Panic(why)) \/ UNCHANGED lists)
    <3>1. /\ f.res \notin {"FatalError", "Panicked"}
          /\ lists' = [lists EXCEPT ![Destination(f)] = @ \cup {f.item.mod}]
          /\ finished' = finished \ {f}
          /\ UNCHANGED <<conf, todo, inbox, workItems, running, startedLto>>
      BY <1>7, <2>2 DEF WorkItemDone
    <3>. QED  BY <3>1, CollectResult
  <2>. QED  BY <2>1, <2>2
<1>. QED  BY <1>2, <1>3, <1>4, <1>5, <1>6, <1>7 DEF Handle

\* ResultInv is inductive, given the invariants before it.
LEMMA NextResult ==
  TypeOK /\ HandshakeInv /\ AccountInv /\ ResultInv /\ [Next]_vars => ResultInv'
<1>. SUFFICES ASSUME TypeOK, HandshakeInv, AccountInv, ResultInv, [Next]_vars
              PROVE  ResultInv'
  OBVIOUS
<1>. USE DEF mainVars, confVars, coordinatorVars, exitVars, queueVars, ltoVars,
             envVars
<1>1. ASSUME NEW i \in running, Worker(i) PROVE ResultInv'
  <2>1. PICK res \in {Execute(i), "FatalError", "Panicked"} : WorkerEnds(i, res)
    BY <1>1 DEF Worker, WorkerSucceeds, WorkerCopyFails, WorkerFails, WorkerPanics
  <2>2. UNCHANGED <<conf, todo, inbox, workItems, lists, startedLto>>
    BY <2>1 DEF WorkerEnds
  <2>3. \A j : IsAllocator(j)' = IsAllocator(j) /\ Execute(j)' = Execute(j)
    BY <2>2 DEF IsAllocator, Execute, ComputeLtoType, FinishIntraModuleWork
  <2>4. Known' \subseteq Known /\ NoLtoWork' = NoLtoWork
    BY <1>1, <2>1, <2>2 DEF Known, NoLtoWork, WorkerEnds
  <2>5. \A f \in finished' : f.res \in {Execute(f.item), "FatalError", "Panicked"}
    BY <2>1 DEF WorkerEnds, ResultInv
  <2>. QED  BY <2>2, <2>3, <2>4, <2>5 DEF ResultInv
<1>2. CASE \/ Terminated \/ PrepareCgusFails \/ \E u \in Cgus : CodegenCguFails(u)
           \/ UNCHANGED vars
  <2>1. UNCHANGED <<conf, todo, inbox, workItems, running, finished, lists,
                    startedLto>>
    BY <1>2 DEF Terminated, PrepareCgusFails, CodegenCguFails, vars
  <2>2. \A j : IsAllocator(j)' = IsAllocator(j) /\ Execute(j)' = Execute(j)
    BY <2>1 DEF IsAllocator, Execute, ComputeLtoType, FinishIntraModuleWork
  <2>3. Known' = Known /\ NoLtoWork' = NoLtoWork
    BY <2>1 DEF Known, NoLtoWork
  <2>. QED  BY <2>1, <2>2, <2>3 DEF ResultInv
<1>. QED  BY <1>1, <1>2, MainResult, TurnResult, HandleResult DEF Next

\* The coordinator's vectors hold what the session's settings call for.
THEOREM ResultCorrect == Spec => []ResultInv
<1>. QED  BY InitResult, NextResult, TypeCorrect, HandshakeCorrect, AccountCorrect,
             PTL DEF Spec

\* LTO waits for every unit to be translated and optimized.
THEOREM LtoBarrierCorrect == Spec => []LtoBarrier
<1>1. ResultInv => LtoBarrier
  BY DEF ResultInv, LtoBarrier, Known
<1>. QED  BY <1>1, ResultCorrect, PTL

-------------------------------------------------------------------------------
(***************************************************************************)
(* The assertions of the coordinator                                       *)
(***************************************************************************)
\* A result can be collected: of the assertions on the vectors only those on
\* modules to be linked can fail.
LEMMA Collectable ==
  ASSUME TypeOK, AccountInv, ResultInv, NEW f \in finished,
         f.res \notin {"FatalError", "Panicked"},
         ~CollectAsserts(Destination(f))
  PROVE  Destination(f) \in {"compiled", "link"}
<1>1. f \in [item : WorkItem, res : Results] /\ f.item \in WorkItem
      /\ f.res = Execute(f.item) /\ f.item \in Known
  BY DEF TypeOK, ResultInv, Known
<1>2. CASE Destination(f) = "fat"
  <2>1. f.res = "NeedsFatLto"
    BY <1>1, <1>2 DEF Destination, Results
  <2>2. conf.lto = "Fat" /\ f.item.op = "Optimize"
    BY <1>1, <2>1, ExecuteFlavour
  <2>3. ~startedLto /\ lists["thin"] = {}
    BY <1>1, <2>2 DEF ResultInv
  <2>. QED  BY <1>2, <2>3 DEF CollectAsserts
<1>3. CASE Destination(f) = "thin"
  <2>1. f.res = "NeedsThinLto"
    BY <1>1, <1>3 DEF Destination, Results
  <2>2. conf.lto \in {"Thin", "ThinLocal"} /\ f.item.op = "Optimize"
    BY <1>1, <2>1, ExecuteFlavour
  <2>3. ~startedLto /\ lists["fat"] = {}
    BY <1>1, <2>2 DEF ResultInv
  <2>. QED  BY <1>3, <2>3 DEF CollectAsserts
<1>4. CASE Destination(f) = "allocator"
  <2>1. IsAllocator(f.item)
    BY <1>1, <1>4 DEF Destination, Results
  <2>2. lists["allocator"] = {}
    BY <1>1, <2>1 DEF ResultInv
  <2>. QED  BY <1>4, <2>2 DEF CollectAsserts
<1>5. Destination(f) \in {"compiled", "allocator", "link", "fat", "thin"}
  BY <1>1 DEF Destination, Results
<1>. QED  BY <1>2, <1>3, <1>4, <1>5

\* No step runs into one of the handshake's assertions.
LEMMA NextAsserts ==
  ASSUME TypeOK, HandshakeInv, AccountInv, ResultInv, exit \notin HandshakeFailures,
         Next
  PROVE  exit' \notin HandshakeFailures
<1>. USE DEF mainVars, confVars, coordinatorVars, exitVars, queueVars, ltoVars,
             envVars, Running, HandshakeFailures
<1>1. ASSUME NEW q, NEW w, NEW lend, SpawnWork(q, w, lend)
      PROVE  exit' = exit
  BY <1>1 DEF SpawnWork
<1>2. own \in Nat /\ tokens \in Nat /\ (cpc # "exited" => own <= tokens)
  BY DEF TypeOK, AccountInv, TokenInv
<1>3. CASE TurnOngoingIdle
  <2>1. ~(tokens < own)
    BY <1>2, <1>3 DEF TurnOngoingIdle
  <2>. QED  BY <1>1, <1>3, <2>1 DEF TurnOngoingIdle, Panic, Leave
<1>4. CASE TurnOngoingBusy \/ TurnAborted
  BY <1>1, <1>4 DEF TurnOngoingBusy, TurnAborted, Leave
<1>5. CASE TurnCompletedDone
  BY <1>5 DEF TurnCompletedDone, ReturnModules, Leave
<1>6. CASE TurnCompletedLto
  <2>1. ~startedLto /\ mainThreadState # "Codegenning"
    BY <1>6 DEF TurnCompletedLto, ResultInv, HandshakeInv
  <2>2. PICK reused : StartLto(reused)
    BY <1>6, <2>1 DEF TurnCompletedLto
  <2>. QED  BY <1>1, <2>2 DEF StartLto, Panic, Leave
<1>7. CASE TurnCompleted
  <2>1. mainThreadState # "Codegenning"
    BY <1>7 DEF TurnCompleted, HandshakeInv
  <2>. QED  BY <1>1, <1>7, <2>1 DEF TurnCompleted
<1>8. ASSUME NEW t \in Answers, Receive(t) PROVE mainThreadState = "Codegenning"
  BY <1>8, ReceiveTyped DEF HandshakeInv
<1>9. CASE CodegenDone
  BY <1>8, <1>9 DEF CodegenDone, Answers, Loop
<1>10. CASE AddImportOnlyModule
  <2>1. ~startedLto
    BY <1>10, ReceiveTyped DEF AddImportOnlyModule, HandshakeInv, Answers
  <2>. QED  BY <1>8, <1>10, <2>1 DEF AddImportOnlyModule, Answers, Loop, Panic, Leave
<1>11. CASE CodegenComplete
  BY <1>8, <1>11 DEF CodegenComplete, Answers, Loop
<1>12. CASE CodegenAborted \/ TokenAcquired \/ TokenFailed
  BY <1>12 DEF CodegenAborted, TokenAcquired, TokenFailed, Loop
<1>13. ASSUME NEW f \in finished, WorkItemDone(f)
       PROVE  exit' \notin HandshakeFailures
  <2>1. RunningWithAnyToken # 0
    <3>1. /\ IsFiniteSet(finished) /\ Cardinality(finished) \in Nat
          /\ Cardinality(running) \in Nat
      BY ItemSetsFinite
    <3>2. Cardinality(finished) # 0
      BY <3>1, FS_EmptySet
    <3>3. Cardinality(running) + Cardinality(finished) = RunningWithAnyToken
      BY <1>13 DEF WorkItemDone, AccountInv, WorkerAccounting
    <3>. QED  BY <3>1, <3>2, <3>3
  <2>2. CASE f.res \in {"FatalError", "Panicked"}
    BY <1>13, <2>1, <2>2 DEF WorkItemDone, Panic, Leave, Loop
  <2>3. CASE f.res \notin {"FatalError", "Panicked"}
    <3>1. ~CollectAsserts(Destination(f)) => Destination(f) \in {"compiled", "link"}
      BY <2>3, Collectable
    <3>2. exit' = exit \/ exit' = "link_mixed"
      BY <1>13, <2>1, <2>3, <3>1 DEF WorkItemDone, Panic, Leave, Loop
    <3>. QED  BY <3>2
  <2>. QED  BY <2>2, <2>3
<1>14. CASE \/ Main \/ PrepareCgusFails \/ \E u \in Cgus : CodegenCguFails(u)
            \/ Terminated
  BY <1>14 DEF Main, PrepareCgus, WaitForSignal, SubmitAllocator, CodegenCgu,
     CodegenFinished, DropCoordinator, DropJoined, JoinMeetsError, JoinReturns,
     PrepareCgusFails, CodegenCguFails, Terminated, vars
<1>15. CASE \E i \in running : Worker(i)
  BY <1>15 DEF Worker, WorkerSucceeds, WorkerCopyFails, WorkerFails, WorkerPanics,
     WorkerEnds
<1>. QED  BY <1>3, <1>4, <1>5, <1>6, <1>7, <1>9, <1>10, <1>11, <1>12, <1>13,
             <1>14, <1>15 DEF Next, Turn, Handle

\* The assertions about the handshake, the counters, LTO and the allocator shim
\* never fail, and a signal finds its receiver gone only where the main thread
\* unwound before its first unit.
THEOREM AssertsCorrect == Spec => []HandshakeAsserts
<1>. DEFINE Kept == exit \notin HandshakeFailures
<1>1. Init => Kept
  BY DEF Init, HandshakeFailures
<1>2. Kept /\ UNCHANGED vars => Kept'
  BY DEF vars, exitVars
<1>3. TypeOK /\ HandshakeInv /\ AccountInv /\ ResultInv /\ Kept /\ [Next]_vars
      => Kept'
  BY <1>2, NextAsserts
<1>4. HandshakeInv /\ Kept => HandshakeAsserts
  BY DEF HandshakeInv, NoneHandedOver, HandshakeAsserts
<1>. HIDE DEF Kept
<1>. QED  BY <1>1, <1>3, <1>4, TypeCorrect, HandshakeCorrect, AccountCorrect,
             ResultCorrect, PTL DEF Spec
===============================================================================
