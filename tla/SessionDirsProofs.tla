--------------------------- MODULE SessionDirsProofs ---------------------------
(***************************************************************************)
(* Proofs about the incremental session directories, for any number of     *)
(* processes, directories and faults.                                      *)
(*                                                                         *)
(* SessionInv says who holds which lock: a session the lock of its own     *)
(* directory from lock_directory until it publishes or gives up, a garbage *)
(* collector the locks of what it is about to remove.  What a collector    *)
(* has scanned, opened or locked stays behind: a directory that was seen   *)
(* as final is never a working one again (Past).  LocklessInv says that a  *)
(* directory that is copied from is not among those that a collector saw   *)
(* without a lock file, and CacheInv that whatever has been final has a    *)
(* usable directory at or after it that no collector has marked for        *)
(* deletion.                                                               *)
(***************************************************************************)
EXTENDS SessionDirs, WellFoundedInduction, TLAPS

-------------------------------------------------------------------------------
(* The invariants *)

CopyLabels   == {"source", "copyOpen", "copying"}
DeleteLabels == {"gcDelete", "gcDeleting", "gcDeleteLock"}
CollectLabels == {"gcStep", "gcFinal", "gcOld", "gcOldDir", "gcOldLock"} \cup DeleteLabels
GcLabels     == {"gc", "gcGarbage", "gcRemoving"} \cup CollectLabels
EarlyLabels  == Labels \ (GcLabels \cup {"invalidRename", "done", "dead"})

\* d has been allocated and is not between lock_directory and create_dir_all.
Made(d) ==
  d \in 1 .. clock /\ \A p \in Procs : sid[p] = d => pc[p] \notin {"opened", "locked"}

\* d has been made and is no working directory any more.
Past(d) == Made(d) /\ name[d] # "working"

\* p holds the lock of its own session directory.
Holds(p) == result[p] = "active" /\ pc[p] \notin {"start", "opened", "done", "dead"}

\* The session of p: its directory, its lock file and its lock.
Session(p) ==
  /\ sid[p] <= clock
  /\ pc[p] \notin {"start", "dead"} => sid[p] \in Ids
  /\ pc[p] \in EarlyLabels => result[p] = "active"
  /\ Holds(p) => ex[sid[p]] = p
  /\ pc[p] \in {"opened", "locked"} => name[sid[p]] = "none" /\ sid[p] \in lockFile
  /\ Inside(p) => name[sid[p]] = "working" /\ sid[p] \in lockFile

\* What p copies from.
Copying(p) ==
  /\ pc[p] \in CopyLabels \cup {"undo"} => Past(cur[p])
  /\ pc[p] = "copying" => p \in sh[cur[p]]

\* p removes the directory that is next in its garbage.
Removing(p) ==
  /\ cur[p] = NextGarbage(garbage[p])[1]
  /\ NextGarbage(garbage[p])[2] # "lock"

\* What p collects.
Collecting(p) ==
  /\ pc[p] \in {"gcGarbage", "gcRemoving"} => garbage[p] # {}
  /\ pc[p] = "gcRemoving" => Removing(p)
  /\ \A e \in garbage[p] : e[2] # "lock" => e[1] \in (1 .. clock) \ lockFile
  /\ \A e \in mapped[p] : Made(e[1]) /\ (e[2] = "final" => Past(e[1]))
  /\ pc[p] \notin CollectLabels => cand[p] = {}
  /\ \A d \in cand[p] : Past(d) /\ ex[d] = p
  /\ pc[p] = "gcFinal" => Past(cur[p])
  /\ pc[p] \in {"gcOld", "gcOldDir"} => Made(cur[p])
  /\ pc[p] \in {"gcOldDir", "gcOldLock"} => ex[cur[p]] = p
  /\ pc[p] \in {"gcOldDir", "gcOldLock"} => cur[p] \notin cand[p]
  /\ pc[p] = "gcOldDir" /\ result[p] = "active" => cur[p] # sid[p]
  /\ pc[p] = "gcOldLock" => Past(cur[p]) /\ (overtaken \/ name[cur[p]] # "final")
  /\ pc[p] \in {"gcDeleting", "gcDeleteLock"} => cur[p] \in cand[p]
  /\ pc[p] = "gcDeleteLock" => name[cur[p]] # "final"

SessionInv ==
  /\ TypeOK
  /\ \A p, q \in Procs : sid[p] = sid[q] /\ sid[p] # 0 => p = q
  /\ \A d \in Ids : d > clock => name[d] = "none"
  /\ \A d \in damaged : Past(d)
  /\ \A p \in Procs : Session(p) /\ Copying(p) /\ Collecting(p)

\* A collector has marked d for deletion.
Doomed(d) == \E p \in Procs : pc[p] \in DeleteLabels /\ d \in cand[p]

\* What has been final: published, about to be, found or held by a collector.
Known ==
  Published
    \cup {sid[p] : p \in {q \in Procs : pc[q] = "renamed"}}
    \cup {d \in lockFile : name[d] = "final"}
    \cup {d \in Ids : \E p \in Procs : \/ <<d, "final">> \in mapped[p]
                                       \/ pc[p] = "gcFinal" /\ cur[p] = d
                                       \/ d \in cand[p]}

CacheInv == ~overtaken => \A d \in Known : \E e \in Ids : e >= d /\ Usable(e) /\ ~Doomed(e)

\* Only a session that is renaming, has published or has died left a finalized
\* directory, and only such a one is copied from.
MayBeFinal(q) == result[q] = "finalized" \/ pc[q] \in {"renamed", "dead"}

SourceInv ==
  \A q \in Procs : sid[q] # 0 =>
    /\ name[sid[q]] = "final" => MayBeFinal(q)
    /\ \A p \in Procs : pc[p] \in CopyLabels /\ cur[p] = sid[q] => MayBeFinal(q)

\* Unless there were two faults, what a session with errors could not remove
\* has no lock file, and only a search that will fail has found it.
ErrorsInv ==
  faults <= 1 => \A q \in Procs :
    /\ result[q] = "invalid" => sid[q] \in Ids
    /\ pc[q] = "invalidLock" /\ name[sid[q]] = "working" => faults = 1
    /\ pc[q] = "invalidRename" /\ name[sid[q]] = "working" => sid[q] \notin lockFile
    /\ result[q] = "invalid" /\ name[sid[q]] = "final" => sid[q] \notin lockFile
    /\ result[q] = "invalid" => \A p \in Procs :
         /\ pc[p] = "source" /\ cur[p] = sid[q] => sid[q] \notin lockFile
         /\ pc[p] \in {"copyOpen", "copying"} => cur[p] # sid[q]

\* Unless a publication has overtaken a collection, a directory that is copied
\* from has its lock file or is gone, and no collector has seen it without one.
LocklessInv ==
  ~overtaken => \A p \in Procs : pc[p] \in {"copyOpen", "copying"} =>
    /\ cur[p] \in lockFile \/ name[cur[p]] # "final"
    /\ \A q \in Procs : \A e \in garbage[q] : e[2] # "lock" => e[1] # cur[p]

-------------------------------------------------------------------------------
(* The newest directory and the first piece of garbage *)

\* A set of numbers that is not empty has a least one.
LEMMA LeastNumber ==
  ASSUME NEW S \in SUBSET Nat, S # {}
  PROVE  \E x \in S : \A y \in S : x <= y
<1> DEFINE Less == {ss \in Nat \X Nat : ss[1] < ss[2]}
<1>1. IsWellFoundedOn(Less, Nat)
  BY NatLessThanWellFounded, Zenon DEF OpToRel
<1> HIDE DEF Less
<1>2. PICK x \in S : \A y \in S : ~(<<y, x>> \in Less)
  BY <1>1, WFMin
<1>3. ASSUME NEW y \in S PROVE x <= y
  <2>1. x \in Nat /\ y \in Nat /\ <<y, x>> \in Nat \X Nat
    OBVIOUS
  <2>2. ~(y < x)
    BY <1>2, <2>1 DEF Less
  <2> QED  BY <2>1, <2>2
<1> QED  BY <1>3

\* The newest directory of a set is one of them, and none is newer.
LEMMA NewestOf ==
  ASSUME NEW S \in SUBSET Ids, S # {}
  PROVE  Newest(S) \in S /\ \A d \in S : d <= Newest(S)
<1> DEFINE T == {MaxId - d : d \in S}
<1>1. T \in SUBSET Nat /\ T # {}
  BY LeftoverAssumption DEF Ids
<1>2. PICK x \in T : \A y \in T : x <= y
  BY <1>1, LeastNumber
<1>3. PICK d \in S : x = MaxId - d
  BY <1>2
<1>4. ASSUME NEW e \in S PROVE e <= d
  <2>1. MaxId - d <= MaxId - e
    BY <1>2, <1>3
  <2> QED  BY <2>1, LeftoverAssumption DEF Ids
<1> QED  BY <1>4 DEF Newest

\* Garbage collection goes on with a piece of garbage.
LEMMA NextGarbageOf ==
  ASSUME NEW G \in SUBSET Entry, G # {}
  PROVE  NextGarbage(G) \in G
<1> DEFINE F == IF \E e \in G : e[2] = "lock" THEN {e \in G : e[2] = "lock"} ELSE G
           N == {e[1] : e \in F}
<1>1. F # {} /\ F \subseteq G
  OBVIOUS
<1>2. N \in SUBSET Nat /\ N # {}
  BY <1>1, LeftoverAssumption DEF Entry, Ids
<1>3. PICK x \in N : \A y \in N : x <= y
  BY <1>2, LeastNumber
<1>4. \E e \in F : \A f \in F : e[1] <= f[1]
  BY <1>3
<1>5. NextGarbage(G) = CHOOSE e \in F : \A f \in F : e[1] <= f[1]
  BY DEF NextGarbage
<1> HIDE DEF F
<1> QED  BY <1>1, <1>4, <1>5

-------------------------------------------------------------------------------
(* Types *)

\* The types of what the processes share.
SharedTypes ==
  /\ faults \in 0 .. MaxFaults /\ overtaken \in BOOLEAN
  /\ clock \in 0 .. MaxId
  /\ name \in [Ids -> Names]
  /\ lockFile \in SUBSET Ids
  /\ damaged \in SUBSET Ids

LockTypes ==
  /\ ex \in [Ids -> Procs \cup {NoProc}]
  /\ sh \in [Ids -> SUBSET Procs]
  /\ \A d \in Ids : ex[d] # NoProc => sh[d] = {}

\* The types of what a process keeps.
OwnTypes ==
  /\ sid \in [Procs -> 0 .. MaxId]
  /\ result \in [Procs -> {"active", "finalized", "invalid"}]
  /\ tried \in [Procs -> SUBSET Ids]

GcTypes ==
  /\ garbage \in [Procs -> SUBSET Entry]
  /\ mapped \in [Procs -> SUBSET Entry]
  /\ cand \in [Procs -> SUBSET Ids]

\* TypeOK by its parts.
LEMMA TypeParts ==
  /\ TypeOK => /\ SharedTypes /\ LockTypes /\ OwnTypes /\ GcTypes
               /\ pc \in [Procs -> Labels] /\ cur \in [Procs -> 0 .. MaxId]
  /\ /\ SharedTypes' /\ LockTypes' /\ OwnTypes' /\ GcTypes'
     /\ pc' \in [Procs -> Labels] /\ cur' \in [Procs -> 0 .. MaxId]
     => TypeOK'
BY DEF TypeOK, SharedTypes, LockTypes, OwnTypes, GcTypes

\* The identifiers that can be named.
LEMMA KnownIds ==
  ASSUME SessionInv
  PROVE  /\ clock \in 0 .. MaxId /\ MaxId \in Nat
         /\ \A d : Made(d) => d \in Ids
         /\ \A d : Past(d) => d \in Ids
BY LeftoverAssumption DEF SessionInv, TypeOK, Made, Past, Ids

\* Taking a lock that is free, dropping one, sharing one.
LEMMA LockSteps ==
  ASSUME LockTypes, NEW d \in Ids, NEW p \in Procs
  PROVE  /\ ExclusiveFree(d) /\ ex' = [ex EXCEPT ![d] = p] /\ sh' = sh => LockTypes'
         /\ Unlock(d) /\ sh' = sh => LockTypes'
         /\ SharedFree(d) /\ sh' = [sh EXCEPT ![d] = @ \cup {p}] /\ ex' = ex => LockTypes'
         /\ sh' = [sh EXCEPT ![d] = @ \ {p}] /\ ex' = ex => LockTypes'
         /\ ex' = ex /\ sh' = sh => LockTypes'
BY ProcsAssumption DEF LockTypes, ExclusiveFree, SharedFree, Unlock

\* Every step of a process keeps the types.
LEMMA TypeStep ==
  ASSUME SessionInv, NEW p \in Procs, Step(p) \/ Crash(p)
  PROVE  TypeOK'
<1>a. /\ SharedTypes /\ LockTypes /\ OwnTypes /\ GcTypes
      /\ pc \in [Procs -> Labels] /\ cur \in [Procs -> 0 .. MaxId]
  BY TypeParts DEF SessionInv
<1>b. /\ pc[p] \notin {"start", "dead"} => sid[p] \in Ids
      /\ pc[p] \in CopyLabels \cup {"undo", "gcFinal", "gcOld", "gcOldDir", "gcOldLock"} => cur[p] \in Ids
      /\ pc[p] \in {"gcDeleting", "gcDeleteLock"} => cur[p] \in cand[p]
      /\ cand[p] \subseteq Ids /\ cur[p] \in 0 .. MaxId
  BY <1>a, KnownIds DEF SessionInv, Session, Copying, Collecting, GcTypes
<1>c. Ids \subseteq 0 .. MaxId /\ MaxId \in Nat /\ MaxFaults \in Nat
  BY LeftoverAssumption, FaultsAssumption DEF Ids
<1>d. AfterGc(p) \in Labels
  BY DEF AfterGc, Labels
<1>e. Fault => faults' \in 0 .. MaxFaults
  BY <1>a, <1>c DEF Fault, SharedTypes
<1>f. \A d, n : RemoveDir(d, n) => name' \in [Ids -> Names]
  BY <1>a DEF RemoveDir, SharedTypes, Names
<1>g. \A d, n : RemoveOrWarn(d, n) => name' \in [Ids -> Names] /\ faults' \in 0 .. MaxFaults
  BY <1>a, <1>e, <1>f DEF RemoveOrWarn, SharedTypes
<1>h. \A d : DeleteLockFile(d) => lockFile' \in SUBSET Ids /\ faults' \in 0 .. MaxFaults /\ Unlock(d)
  BY <1>a, <1>e DEF DeleteLockFile, SharedTypes
<1>i. \A l \in Labels : Goto(p, l) => pc' \in [Procs -> Labels]
  BY <1>a DEF Goto
<1> DEFINE Typed == /\ SharedTypes' /\ LockTypes' /\ OwnTypes' /\ GcTypes'
                    /\ pc' \in [Procs -> Labels] /\ cur' \in [Procs -> 0 .. MaxId]
<1> SUFFICES Typed
  BY TypeParts
<1>1. CASE OpenLock(p)
  <2>1. SharedTypes' /\ OwnTypes'
    BY <1>1, <1>a, <1>c DEF OpenLock, SharedTypes, OwnTypes, envVars, Ids
  <2> QED
    BY <1>1, <2>1, <1>a, <1>i, LockSteps DEF OpenLock, lockVars, gcVars, Labels, GcTypes, LockTypes
<1>2. CASE LockDirectory(p)
  BY <1>2, <1>a, <1>b, <1>i, LockSteps
  DEF LockDirectory, envVars, dirVars, ownVars, gcVars, Labels, SharedTypes, OwnTypes, GcTypes
<1>3. CASE CreateDir(p)
  <2>1. SharedTypes'
    BY <1>3, <1>a DEF CreateDir, SharedTypes, envVars, Names
  <2> QED
    BY <1>3, <2>1, <1>a, <1>i
    DEF CreateDir, lockVars, ownVars, gcVars, Labels, OwnTypes, GcTypes, LockTypes
<1>4. CASE FindSourceDirectory(p)
  <2> DEFINE found == {d \in Ids : name[d] = "final"} \ tried[p]
  <2>1. found # {} => Newest(found) \in Ids
    BY NewestOf
  <2>2. OwnTypes' /\ cur' \in [Procs -> 0 .. MaxId] /\ pc' \in [Procs -> Labels]
    BY <1>4, <1>a, <1>c, <1>i, <2>1 DEF FindSourceDirectory, OwnTypes, Labels
  <2> QED
    BY <1>4, <2>2, <1>a
    DEF FindSourceDirectory, lockVars, dirVars, envVars, gcVars, SharedTypes, GcTypes, LockTypes
<1>5. CASE CopyOpen(p)
  BY <1>5, <1>a, <1>i
 
  DEF CopyOpen, envVars, dirVars, lockVars, ownVars, gcVars, Labels, SharedTypes, OwnTypes,
      GcTypes, LockTypes
<1>6. CASE CopyLock(p)
  BY <1>6, <1>a, <1>b, <1>i, LockSteps
  DEF CopyLock, envVars, dirVars, ownVars, gcVars, Labels, SharedTypes, OwnTypes, GcTypes, CopyLabels
<1>7. CASE CopyFiles(p)
  <2>1. LockTypes'
    BY <1>7, <1>a, <1>b, LockSteps DEF CopyFiles, CopyLabels
  <2>2. OwnTypes' /\ cur' \in [Procs -> 0 .. MaxId] /\ pc' \in [Procs -> Labels]
    BY <1>7, <1>a, <1>c, <1>i DEF CopyFiles, OwnTypes, Labels
  <2>3. SharedTypes'
    BY <1>7, <1>a, <1>e DEF CopyFiles, SharedTypes, dirVars
  <2> QED  BY <1>7, <2>1, <2>2, <2>3, <1>a DEF CopyFiles, gcVars, GcTypes
<1>8. CASE Undo(p)
  <2>1. OwnTypes' /\ cur' \in [Procs -> 0 .. MaxId] /\ pc' \in [Procs -> Labels]
    BY <1>8, <1>a, <1>b, <1>c, <1>i DEF Undo, OwnTypes, Labels
  <2>2. SharedTypes'
    BY <1>8, <1>a, <1>g DEF Undo, SharedTypes
  <2> QED  BY <1>8, <2>1, <2>2, <1>a DEF Undo, lockVars, gcVars, GcTypes, LockTypes
<1>9. CASE UndoLock(p)
  <2>1. SharedTypes'
    BY <1>9, <1>a, <1>h DEF UndoLock, SharedTypes
  <2>2. LockTypes'
    BY <1>9, <1>a, <1>b, <1>h, LockSteps DEF UndoLock
  <2> QED  BY <1>9, <2>1, <2>2, <1>a, <1>i DEF UndoLock, ownVars, gcVars, Labels, OwnTypes, GcTypes
<1>10. CASE Rename(p)
  <2>1. SharedTypes'
    BY <1>10, <1>a DEF Rename, SharedTypes, envVars, Names
  <2> QED
    BY <1>10, <2>1, <1>a, <1>i
    DEF Rename, lockVars, ownVars, gcVars, Labels, OwnTypes, GcTypes, LockTypes
<1>11. CASE RenameFails(p)
  <2>1. SharedTypes'
    BY <1>11, <1>a, <1>e DEF RenameFails, SharedTypes, dirVars
  <2>2. LockTypes'
    BY <1>11, <1>a, <1>b, LockSteps DEF RenameFails
  <2> QED  BY <1>11, <2>1, <2>2, <1>a, <1>i DEF RenameFails, gcVars, Labels, OwnTypes, GcTypes
<1>12. CASE Publish(p)
  <2>1. LockTypes'
    BY <1>12, <1>a, <1>b, LockSteps DEF Publish
  <2> QED
    BY <1>12, <2>1, <1>a, <1>i
    DEF Publish, envVars, dirVars, gcVars, Labels, SharedTypes, OwnTypes, GcTypes
<1>13. CASE Invalidate(p)
  <2>1. SharedTypes'
    BY <1>13, <1>a, <1>g DEF Invalidate, SharedTypes
  <2> QED
    BY <1>13, <2>1, <1>a, <1>i
    DEF Invalidate, lockVars, ownVars, gcVars, Labels, OwnTypes, GcTypes, LockTypes
<1>14. CASE InvalidateLock(p)
  <2>1. SharedTypes'
    BY <1>14, <1>a, <1>h DEF InvalidateLock, SharedTypes
  <2>2. LockTypes'
    BY <1>14, <1>a, <1>b, <1>h, LockSteps DEF InvalidateLock
  <2> QED  BY <1>14, <2>1, <2>2, <1>a, <1>i DEF InvalidateLock, gcVars, Labels, OwnTypes, GcTypes
<1>15. CASE InvalidateRename(p)
  <2>1. SharedTypes'
    BY <1>15, <1>a DEF InvalidateRename, SharedTypes, envVars, Names
  <2> QED
    BY <1>15, <2>1, <1>a, <1>i
    DEF InvalidateRename, lockVars, ownVars, gcVars, Labels, OwnTypes, GcTypes, LockTypes
<1>16. CASE GcScan(p)
  <2>1. Orphans \subseteq Entry /\ \A S \in SUBSET Ids : DirEntries(S) \subseteq Entry
    BY <1>a DEF Orphans, DirEntries, Entry, SharedTypes, Names
  <2>2. GcTypes'
    BY <1>16, <1>a, <2>1 DEF GcScan, GcTypes, SharedTypes
  <2>3. pc' \in [Procs -> Labels]
    BY <1>16, <1>d, <1>i DEF GcScan, Labels
  <2> QED
    BY <1>16, <2>2, <2>3, <1>a, <1>e
    DEF GcScan, dirVars, lockVars, ownVars, SharedTypes, OwnTypes, LockTypes
<1>17. CASE GcGarbage(p)
  <2> DEFINE e == NextGarbage(garbage[p])
  <2>1. e[1] \in Ids
    <3>1. e \in garbage[p]
      BY <1>17, <1>a, NextGarbageOf DEF GcGarbage, SessionInv, Collecting, GcTypes
    <3> QED  BY <3>1, <1>a DEF GcTypes, Entry
  <2>2. SharedTypes'
    BY <1>17, <2>1, <1>a DEF GcGarbage, SharedTypes, envVars
  <2>3. GcTypes' /\ pc' \in [Procs -> Labels]
    BY <1>17, <1>a, <1>i DEF GcGarbage, GcTypes, Labels
  <2>4. cur' \in [Procs -> 0 .. MaxId]
    BY <1>17, <2>1, <1>a, <1>c DEF GcGarbage
  <2> QED  BY <1>17, <2>2, <2>3, <2>4, <1>a DEF GcGarbage, lockVars, ownVars, OwnTypes, LockTypes
<1>29. CASE GcRemove(p)
  <2>1. SharedTypes' /\ cur' \in [Procs -> 0 .. MaxId]
    BY <1>29, <1>a, <1>c, <1>g DEF GcRemove, SharedTypes
  <2>2. GcTypes' /\ pc' \in [Procs -> Labels]
    BY <1>29, <1>a, <1>i DEF GcRemove, GcTypes, Labels
  <2> QED  BY <1>29, <2>1, <2>2, <1>a DEF GcRemove, lockVars, ownVars, OwnTypes, LockTypes
<1>18. ASSUME NEW e \in mapped[p], GcInspect(p, e) PROVE Typed
  <2>1. e[1] \in Ids
    BY <1>a DEF GcTypes, Entry
  <2>2. GcTypes' /\ cur' \in [Procs -> 0 .. MaxId] /\ pc' \in [Procs -> Labels]
    BY <1>18, <1>a, <1>c, <1>i, <2>1 DEF GcInspect, GcTypes, Labels
  <2>3. SharedTypes' /\ OwnTypes' /\ LockTypes'
    BY <1>18, <1>a DEF GcInspect, envVars, dirVars, lockVars, ownVars, SharedTypes, OwnTypes, LockTypes
  <2> QED  BY <2>2, <2>3
<1>19. CASE GcLockFinal(p)
  <2>1. LockTypes'
    BY <1>19, <1>a, <1>b, LockSteps DEF GcLockFinal
  <2>2. GcTypes' /\ cur' \in [Procs -> 0 .. MaxId] /\ pc' \in [Procs -> Labels]
    BY <1>19, <1>a, <1>b, <1>c, <1>i DEF GcLockFinal, GcTypes, Labels
  <2> QED  BY <1>19, <2>1, <2>2, <1>a DEF GcLockFinal, envVars, dirVars, ownVars, SharedTypes, OwnTypes
<1>20. CASE GcLockOld(p)
  <2>1. LockTypes'
    BY <1>20, <1>a, <1>b, LockSteps DEF GcLockOld
  <2>2. cur' \in [Procs -> 0 .. MaxId] /\ pc' \in [Procs -> Labels]
    BY <1>20, <1>a, <1>c, <1>i DEF GcLockOld, Labels
  <2> QED
    BY <1>20, <2>1, <2>2, <1>a
    DEF GcLockOld, envVars, dirVars, ownVars, gcVars, SharedTypes, OwnTypes, GcTypes
<1>21. CASE GcOldDir(p)
  <2>1. LockTypes'
    BY <1>21, <1>a, <1>b, LockSteps DEF GcOldDir
  <2>2. cur' \in [Procs -> 0 .. MaxId] /\ pc' \in [Procs -> Labels]
    BY <1>21, <1>a, <1>c, <1>i DEF GcOldDir, Labels
  <2>3. SharedTypes'
    BY <1>21, <1>a, <1>e, <1>f DEF GcOldDir, SharedTypes
  <2> QED  BY <1>21, <2>1, <2>2, <2>3, <1>a DEF GcOldDir, ownVars, gcVars, OwnTypes, GcTypes
<1>22. CASE GcOldLock(p)
  <2>1. LockTypes'
    BY <1>22, <1>a, <1>b, <1>h, LockSteps DEF GcOldLock
  <2>2. cur' \in [Procs -> 0 .. MaxId] /\ pc' \in [Procs -> Labels] /\ SharedTypes'
    BY <1>22, <1>a, <1>c, <1>h, <1>i DEF GcOldLock, Labels, SharedTypes
  <2> QED  BY <1>22, <2>1, <2>2, <1>a DEF GcOldLock, ownVars, gcVars, OwnTypes, GcTypes
<1>23. CASE AllExceptMostRecent(p)
  <2>1. cand[p] # {} => Newest(cand[p]) \in Ids
    BY <1>b, NewestOf
  <2>2. LockTypes'
    BY <1>23, <1>a, <2>1, LockSteps DEF AllExceptMostRecent, LockTypes
  <2>3. GcTypes' /\ pc' \in [Procs -> Labels]
    BY <1>23, <1>a, <1>i DEF AllExceptMostRecent, GcTypes, Labels
  <2> QED
    BY <1>23, <2>2, <2>3, <1>a
    DEF AllExceptMostRecent, envVars, dirVars, ownVars, SharedTypes, OwnTypes
<1>24. ASSUME NEW d \in cand[p], GcDelete(p, d) PROVE Typed
  <2>1. SharedTypes' /\ cur' \in [Procs -> 0 .. MaxId] /\ pc' \in [Procs -> Labels]
    BY <1>24, <1>a, <1>b, <1>c, <1>i DEF GcDelete, SharedTypes, Labels, envVars
  <2>2. LockTypes' /\ OwnTypes' /\ GcTypes'
    BY <1>24, <1>a DEF GcDelete, lockVars, ownVars, gcVars, LockTypes, OwnTypes, GcTypes
  <2> QED  BY <2>1, <2>2
<1>25. CASE GcDeleteDir(p)
  <2>1. LockTypes'
    BY <1>25, <1>a, <1>b, LockSteps DEF GcDeleteDir
  <2>2. GcTypes' /\ cur' \in [Procs -> 0 .. MaxId] /\ pc' \in [Procs -> Labels]
    BY <1>25, <1>a, <1>c, <1>i DEF GcDeleteDir, Labels, GcTypes
  <2>3. SharedTypes'
    BY <1>25, <1>a, <1>e, <1>f DEF GcDeleteDir, SharedTypes
  <2> QED  BY <1>25, <2>1, <2>2, <2>3, <1>a DEF GcDeleteDir, ownVars, OwnTypes
<1>26. CASE GcDeleteLock(p)
  <2>1. LockTypes'
    BY <1>26, <1>a, <1>b, <1>h, LockSteps DEF GcDeleteLock
  <2>2. GcTypes' /\ cur' \in [Procs -> 0 .. MaxId] /\ pc' \in [Procs -> Labels] /\ SharedTypes'
    BY <1>26, <1>a, <1>c, <1>h, <1>i DEF GcDeleteLock, Labels, GcTypes, SharedTypes
  <2> QED  BY <1>26, <2>1, <2>2, <1>a DEF GcDeleteLock, ownVars, OwnTypes
<1>27. CASE GcEnds(p)
  BY <1>27, <1>a, <1>d, <1>i
  DEF GcEnds, envVars, dirVars, lockVars, ownVars, gcVars, SharedTypes, OwnTypes, GcTypes, LockTypes
<1>28. CASE Crash(p)
  <2>1. SharedTypes' /\ OwnTypes' /\ GcTypes'
    BY <1>28, <1>a, <1>e DEF Crash, dirVars, SharedTypes, OwnTypes, GcTypes
  <2>2. LockTypes'
    BY <1>28, <1>a DEF Crash, LockTypes
  <2>3. cur' \in [Procs -> 0 .. MaxId] /\ pc' \in [Procs -> Labels]
    BY <1>28, <1>a, <1>c, <1>i DEF Crash, Labels
  <2> QED  BY <2>1, <2>2, <2>3
<1> HIDE DEF Typed
<1> QED
  BY <1>1, <1>2, <1>3, <1>4, <1>5, <1>6, <1>7, <1>8, <1>9, <1>10, <1>11, <1>12, <1>13, <1>14,
     <1>15, <1>16, <1>17, <1>18, <1>19, <1>20, <1>21, <1>22, <1>23, <1>24, <1>25, <1>26, <1>27,
     <1>28, <1>29 DEF Step, Prepare, Finalize, Collect

-------------------------------------------------------------------------------
(* What a step of p leaves alone *)

\* The other processes keep what is theirs.
Others(p) ==
  \A q \in Procs \ {p} :
    /\ pc'[q] = pc[q] /\ sid'[q] = sid[q] /\ result'[q] = result[q] /\ cur'[q] = cur[q]
    /\ garbage'[q] = garbage[q] /\ mapped'[q] = mapped[q] /\ cand'[q] = cand[q]

\* q relies on its directory and its lock file.
Relies(q) == pc[q] \in {"opened", "locked"} \/ Inside(q)

\* What a step of p keeps, whatever it is: the locks, the directory and the
\* lock file of another process; and it cannot bring back what is past.
Frame(p) ==
  /\ Others(p)
  /\ clock <= clock' /\ clock' \in Nat
  /\ overtaken => overtaken'
  /\ \A d \in Ids :
       /\ d <= clock /\ d \notin lockFile => d \notin lockFile'
       /\ d > clock => name'[d] = name[d]
       /\ ex[d] \notin {p, NoProc} => ex'[d] = ex[d]
       /\ \A q \in Procs \ {p} : q \in sh[d] => q \in sh'[d]
       /\ Made(d) => Made(d)'
       /\ Past(d) => Past(d)'
       /\ Past(d) /\ name[d] # "final" => name'[d] # "final"
  /\ \A q \in Procs \ {p} : Relies(q) =>
       name'[sid[q]] = name[sid[q]] /\ (sid[q] \in lockFile => sid[q] \in lockFile')

\* What p may change: its own directory, what it has locked, and a directory
\* that has no lock file.
Mine(p, d) == d = sid[p] \/ (Made(d) /\ (ex[d] = p \/ d \notin lockFile))

NamesTouched(p) ==
  \A d \in Ids : name'[d] # name[d] =>
    /\ Mine(p, d)
    /\ name'[d] = "working" => d = sid[p] /\ pc[p] = "locked"
    /\ name'[d] = "final" => name[d] = "working"

FilesTouched(p) == lockFile' \subseteq lockFile /\ \A d \in lockFile \ lockFile' : Mine(p, d)

LocksTouched(p) ==
  \A d \in Ids :
    /\ ex'[d] # ex[d] => ex[d] \in {p, NoProc}
    /\ \A q \in Procs \ {p} : q \in sh[d] => q \in sh'[d]

\* A step that changes only what is its own.
LEMMA FrameOf ==
  ASSUME SessionInv, NEW p \in Procs, Others(p), NamesTouched(p), FilesTouched(p), LocksTouched(p),
         UNCHANGED <<clock, sid>>, overtaken => overtaken',
         pc'[p] \in {"opened", "locked"} => pc[p] \in {"opened", "locked"}
  PROVE  Frame(p)
<1>a. clock \in 0 .. MaxId /\ MaxId \in Nat /\ clock' = clock /\ sid' = sid
  BY KnownIds
<1>b. ASSUME NEW q \in Procs \ {p}, Relies(q) PROVE sid[q] \in lockFile /\ sid[q] \in Ids /\ ~Mine(p, sid[q])
  <2>1. Session(q) /\ sid[q] # sid[p]
    <3>1. Session(q) /\ (sid[q] = sid[p] /\ sid[q] # 0 => q = p)
      BY DEF SessionInv
    <3>2. sid[q] # 0
      BY <1>b, <3>1, LeftoverAssumption DEF Session, Relies, Inside, Ids
    <3> QED  BY <3>1, <3>2
  <2>2. sid[q] \in lockFile /\ sid[q] \in Ids
    BY <1>b, <2>1 DEF Session, Relies, Inside
  <2>3. CASE pc[q] \in {"opened", "locked"}
    BY <2>1, <2>2, <2>3 DEF Mine, Made
  <2>4. CASE Inside(q)
    BY <2>1, <2>2, <2>4 DEF Mine, Session, Inside, Holds
  <2> QED  BY <1>b, <2>2, <2>3, <2>4 DEF Relies
<1>c. ASSUME NEW d \in Ids, Made(d) PROVE Made(d)'
  BY <1>a, <1>c DEF Made, Others
<1>d. ASSUME NEW d \in Ids, Past(d) PROVE name'[d] # "working" /\ (name[d] # "final" => name'[d] # "final")
  BY <1>d DEF Past, Made, NamesTouched
<1>e. ASSUME NEW d \in Ids, Past(d) PROVE Past(d)'
  BY <1>c, <1>d, <1>e DEF Past
<1>f. ASSUME NEW q \in Procs \ {p}, Relies(q)
      PROVE  name'[sid[q]] = name[sid[q]] /\ sid[q] \in lockFile'
  BY <1>b, <1>f DEF NamesTouched, FilesTouched
<1>g. \A d \in Ids : /\ d <= clock /\ d \notin lockFile => d \notin lockFile'
                     /\ ex[d] \notin {p, NoProc} => ex'[d] = ex[d]
                     /\ \A q \in Procs \ {p} : q \in sh[d] => q \in sh'[d]
  BY DEF FilesTouched, LocksTouched
<1>h. ASSUME NEW d \in Ids, d > clock PROVE name'[d] = name[d]
  <2>1. sid[p] \in 0 .. MaxId /\ sid[p] <= clock /\ d \in Nat
    BY LeftoverAssumption DEF SessionInv, TypeOK, Session, Ids
  <2>2. ~Mine(p, d)
    BY <1>a, <1>h, <2>1 DEF Mine, Made
  <2> QED  BY <2>2 DEF NamesTouched
<1> QED  BY <1>a, <1>c, <1>d, <1>e, <1>f, <1>g, <1>h DEF Frame

\* The other processes go on as they were.
LEMMA OthersGoOn ==
  ASSUME SessionInv, NEW p \in Procs, Frame(p), NEW q \in Procs \ {p}
  PROVE  Session(q)' /\ Copying(q)' /\ Collecting(q)'
<1>a. /\ pc'[q] = pc[q] /\ sid'[q] = sid[q] /\ result'[q] = result[q] /\ cur'[q] = cur[q]
      /\ garbage'[q] = garbage[q] /\ mapped'[q] = mapped[q] /\ cand'[q] = cand[q]
  BY DEF Frame, Others
<1>b. Session(q) /\ Copying(q) /\ Collecting(q)
  BY DEF SessionInv
<1>c. Ids \subseteq Nat /\ clock \in Nat /\ sid[q] \in 0 .. MaxId /\ q # NoProc /\ clock' \in Nat
      /\ garbage[q] \subseteq Entry
  BY LeftoverAssumption, ProcsAssumption DEF SessionInv, TypeOK, Ids, Frame
<1>1. Session(q)'
  <2>1. sid[q] <= clock'
    BY <1>b, <1>c DEF Session, Frame
  <2>2. Holds(q)' => ex'[sid[q]] = q
    BY <1>a, <1>b, <1>c DEF Holds, Session, Frame
  <2>3. Relies(q) => name'[sid[q]] = name[sid[q]] /\ sid[q] \in lockFile'
    BY <1>b DEF Frame, Relies, Session
  <2> QED  BY <1>a, <1>b, <2>1, <2>2, <2>3 DEF Session, Relies, Inside
<1>2. Copying(q)'
  BY <1>a, <1>b, KnownIds DEF Copying, Frame, CopyLabels
<1>3. Collecting(q)'
  <2>1. \A e \in garbage'[q] : e[2] # "lock" => e[1] \in (1 .. clock') \ lockFile'
    BY <1>a, <1>b, <1>c DEF Collecting, Frame, Entry
  <2>2. \A e \in mapped'[q] : Made(e[1])' /\ (e[2] = "final" => Past(e[1])')
    BY <1>a, <1>b, KnownIds DEF Collecting, Frame
  <2>3. ASSUME NEW d \in cand[q] PROVE Past(d)' /\ ex'[d] = q
    <3>1. d \in Ids /\ Past(d) /\ ex[d] = q
      BY <1>b, KnownIds DEF Collecting
    <3> QED  BY <3>1, <1>c DEF Frame
  <2>4. /\ pc'[q] = "gcFinal" => Past(cur[q])'
        /\ pc'[q] \in {"gcOld", "gcOldDir"} => Made(cur[q])'
        /\ pc'[q] \in {"gcOldDir", "gcOldLock"} => ex'[cur'[q]] = q
        /\ pc'[q] = "gcOldLock" => Past(cur[q])' /\ (overtaken' \/ name'[cur'[q]] # "final")
        /\ pc'[q] = "gcDeleteLock" => name'[cur'[q]] # "final"
    <3>1. /\ Past(cur[q]) => Past(cur[q])' /\ (name[cur[q]] # "final" => name'[cur'[q]] # "final")
          /\ Made(cur[q]) => Made(cur[q])'
      BY <1>a, KnownIds DEF Frame, Past, Made
    <3>2. ASSUME Made(cur[q]), ex[cur[q]] = q PROVE ex'[cur'[q]] = q
      <4>1. cur[q] \in Ids /\ ex[cur[q]] \notin {p, NoProc}
        BY <1>c, <3>2, KnownIds
      <4> QED  BY <1>a, <3>2, <4>1 DEF Frame
    <3>3. overtaken => overtaken'
      BY DEF Frame
    <3> QED  BY <1>a, <1>b, <3>1, <3>2, <3>3 DEF Collecting, Past
  <2> QED  BY <1>a, <1>b, <2>1, <2>2, <2>3, <2>4 DEF Collecting, Removing
<1> QED  BY <1>1, <1>2, <1>3

\* The changes of names, lock files and locks that steps make.
LEMMA Touching ==
  ASSUME SessionInv, NEW p \in Procs
  PROVE  /\ name' = name => NamesTouched(p)
         /\ \A d, n : Mine(p, d) /\ (RemoveDir(d, n) \/ RemoveOrWarn(d, n)) => NamesTouched(p)
         /\ lockFile' = lockFile => FilesTouched(p)
         /\ \A d : Mine(p, d) /\ DeleteLockFile(d) => FilesTouched(p)
         /\ UNCHANGED lockVars => LocksTouched(p)
         /\ \A d \in Ids : ex[d] = p /\ Unlock(d) /\ sh' = sh => LocksTouched(p)
         /\ \A d \in Ids : ExclusiveFree(d) /\ ex' = [ex EXCEPT ![d] = p] /\ sh' = sh
              => LocksTouched(p)
         /\ \A d \in Ids : ex' = ex /\ sh' = [sh EXCEPT ![d] = @ \cup {p}] => LocksTouched(p)
         /\ \A d \in Ids : ex' = ex /\ sh' = [sh EXCEPT ![d] = @ \ {p}] => LocksTouched(p)
<1>a. name \in [Ids -> Names] /\ ex \in [Ids -> Procs \cup {NoProc}] /\ sh \in [Ids -> SUBSET Procs]
  BY DEF SessionInv, TypeOK
<1>1. name' = name => NamesTouched(p)
  BY DEF NamesTouched
<1>2. ASSUME NEW d, NEW n, Mine(p, d), RemoveDir(d, n) PROVE NamesTouched(p)
  BY <1>a, <1>2 DEF NamesTouched, RemoveDir
<1>3. ASSUME NEW d, NEW n, Mine(p, d), RemoveOrWarn(d, n) PROVE NamesTouched(p)
  BY <1>1, <1>2, <1>3 DEF RemoveOrWarn
<1>4. lockFile' = lockFile => FilesTouched(p)
  BY DEF FilesTouched
<1>5. ASSUME NEW d, Mine(p, d), DeleteLockFile(d) PROVE FilesTouched(p)
  BY <1>5 DEF FilesTouched, DeleteLockFile
<1>6. UNCHANGED lockVars => LocksTouched(p)
  BY DEF LocksTouched, lockVars
<1>7. ASSUME NEW d \in Ids, ex[d] = p, Unlock(d), sh' = sh PROVE LocksTouched(p)
  BY <1>a, <1>7 DEF LocksTouched, Unlock
<1>8. ASSUME NEW d \in Ids, ExclusiveFree(d), ex' = [ex EXCEPT ![d] = p], sh' = sh PROVE LocksTouched(p)
  BY <1>a, <1>8 DEF LocksTouched, ExclusiveFree
<1>9. ASSUME NEW d \in Ids, ex' = ex, sh' = [sh EXCEPT ![d] = @ \cup {p}] PROVE LocksTouched(p)
  BY <1>a, <1>9 DEF LocksTouched
<1>10. ASSUME NEW d \in Ids, ex' = ex, sh' = [sh EXCEPT ![d] = @ \ {p}] PROVE LocksTouched(p)
  BY <1>a, <1>10 DEF LocksTouched
<1> QED  BY <1>1, <1>2, <1>3, <1>4, <1>5, <1>6, <1>7, <1>8, <1>9, <1>10

\* What p knows at the start of a step.
LEMMA OwnFacts ==
  ASSUME SessionInv, NEW p \in Procs
  PROVE  /\ pc[p] \notin {"start", "dead"} => sid[p] \in Ids
         /\ pc[p] \in EarlyLabels => result[p] = "active"
         /\ Holds(p) => ex[sid[p]] = p
         /\ pc[p] \in CopyLabels \cup {"undo", "gcFinal"} => Past(cur[p]) /\ cur[p] \in Ids
         /\ pc[p] \in {"gcOld", "gcOldDir", "gcOldLock"} => Made(cur[p]) /\ cur[p] \in Ids
         /\ pc[p] \in {"gcOldDir", "gcOldLock"} => ex[cur[p]] = p
         /\ pc[p] \in {"gcDeleting", "gcDeleteLock"} => cur[p] \in cand[p]
         /\ \A d \in cand[p] : d \in Ids /\ Past(d) /\ Made(d) /\ ex[d] = p
         /\ pc[p] \notin CollectLabels => cand[p] = {}
BY KnownIds DEF SessionInv, Session, Copying, Collecting, Past

\* In the steps before garbage collection p holds the lock of its directory.
LEMMA EarlyHolds ==
  ASSUME SessionInv, NEW p \in Procs,
         pc[p] \in {"locked", "created", "source", "copyOpen", "copying", "undo", "undoLock",
                    "compile", "renamed", "invalidLock"}
  PROVE  result[p] = "active" /\ ex[sid[p]] = p /\ sid[p] \in Ids /\ sid[p] \in 0 .. MaxId /\ cand[p] = {}
<1>1. pc[p] \in EarlyLabels /\ pc[p] \notin CollectLabels
  BY DEF EarlyLabels, Labels, GcLabels, CollectLabels, DeleteLabels
<1>2. sid[p] \in 0 .. MaxId
  BY DEF SessionInv, TypeOK
<1> QED  BY <1>1, <1>2, OwnFacts DEF Holds

\* What has a name has been made, and is past when it is final.
LEMMA SeenMade ==
  ASSUME SessionInv, NEW d \in Ids, name[d] # "none"
  PROVE  Made(d) /\ d <= clock /\ (name[d] = "final" => Past(d))
<1>1. d \in Nat /\ clock \in Nat /\ d >= 1 /\ d <= clock
  BY KnownIds DEF SessionInv, Ids
<1>2. ASSUME NEW p \in Procs, sid[p] = d PROVE pc[p] \notin {"opened", "locked"}
  BY <1>2 DEF SessionInv, Session
<1>3. Made(d)
  BY <1>1, <1>2 DEF Made
<1> QED  BY <1>1, <1>3 DEF Past

\* Every step keeps the frame.
LEMMA FrameStep ==
  ASSUME SessionInv, NEW p \in Procs, Step(p) \/ Crash(p)
  PROVE  Frame(p)
<1>a. /\ pc \in [Procs -> Labels] /\ sid \in [Procs -> 0 .. MaxId] /\ cur \in [Procs -> 0 .. MaxId]
      /\ result \in [Procs -> {"active", "finalized", "invalid"}]
      /\ garbage \in [Procs -> SUBSET Entry] /\ mapped \in [Procs -> SUBSET Entry]
      /\ cand \in [Procs -> SUBSET Ids] /\ name \in [Ids -> Names]
  BY DEF SessionInv, TypeOK
<1>b. Mine(p, sid[p]) /\ \A d : Made(d) /\ (ex[d] = p \/ d \notin lockFile) => Mine(p, d)
  BY DEF Mine
<1>1. CASE OpenLock(p)
  <2>1. /\ pc[p] = "start" /\ clock' = clock + 1 /\ sid'[p] = clock + 1 /\ lockFile' = lockFile \cup {clock + 1}
        /\ name' = name /\ ex' = ex /\ sh' = sh /\ overtaken' = overtaken
    BY <1>1, <1>a DEF OpenLock, lockVars, envVars
  <2>2. Others(p)
    BY <1>1, <1>a DEF OpenLock, Goto, Others, gcVars
  <2>3. clock \in Nat /\ Ids \subseteq Nat
    BY KnownIds DEF Ids
  <2>4. ASSUME NEW d \in Ids, Made(d) PROVE Made(d)'
    BY <2>1, <2>2, <2>3, <2>4 DEF Made, Others
  <2>5. ASSUME NEW d \in Ids, Past(d) PROVE Past(d)'
    BY <2>1, <2>4, <2>5 DEF Past
  <2>6. \A d \in Ids : d <= clock /\ d \notin lockFile => d \notin lockFile'
    BY <2>1, <2>3
  <2> QED  BY <2>1, <2>2, <2>3, <2>4, <2>5, <2>6 DEF Frame
<1>2. CASE LockDirectory(p)
  <2>1. Others(p) /\ LocksTouched(p)
    BY <1>2, <1>a, OwnFacts, Touching DEF LockDirectory, Goto, Others, ownVars, gcVars, lockVars
  <2> QED  BY <1>2, <2>1, Touching, FrameOf DEF LockDirectory, envVars, dirVars, ownVars
<1>3. CASE CreateDir(p)
  <2>1. Others(p) /\ pc'[p] = "created"
    BY <1>3, <1>a DEF CreateDir, Goto, Others, ownVars, gcVars
  <2>2. NamesTouched(p)
    BY <1>3, <1>a, <1>b DEF CreateDir, NamesTouched
  <2> QED  BY <1>3, <2>1, <2>2, Touching, FrameOf DEF CreateDir, envVars, ownVars
<1>4. CASE FindSourceDirectory(p)
  <2>1. Others(p) /\ pc'[p] \in {"gc", "source"}
    BY <1>4, <1>a DEF FindSourceDirectory, Goto, Others, gcVars
  <2> QED  BY <1>4, <2>1, Touching, FrameOf DEF FindSourceDirectory, envVars, dirVars
<1>5. CASE CopyOpen(p)
  <2>1. Others(p) /\ pc'[p] \in {"copyOpen", "undo"}
    BY <1>5, <1>a DEF CopyOpen, Goto, Others, ownVars, gcVars
  <2> QED  BY <1>5, <2>1, Touching, FrameOf DEF CopyOpen, envVars, dirVars, ownVars
<1>6. CASE CopyLock(p)
  <2>1. Others(p) /\ pc'[p] \in {"copying", "undo"}
    BY <1>6, <1>a DEF CopyLock, Goto, Others, ownVars, gcVars
  <2>2. LocksTouched(p)
    BY <1>6, OwnFacts, Touching DEF CopyLock, CopyLabels, lockVars
  <2> QED  BY <1>6, <2>1, <2>2, Touching, FrameOf DEF CopyLock, envVars, dirVars, ownVars
<1>7. CASE CopyFiles(p)
  <2>1. Others(p) /\ pc'[p] \in {"gc", "undo"}
    BY <1>7, <1>a DEF CopyFiles, Goto, Others, gcVars
  <2>2. LocksTouched(p)
    BY <1>7, OwnFacts, Touching DEF CopyFiles, CopyLabels
  <2> QED  BY <1>7, <2>1, <2>2, Touching, FrameOf DEF CopyFiles, dirVars
<1>8. CASE Undo(p)
  <2>1. Others(p) /\ pc'[p] = "undoLock"
    BY <1>8, <1>a DEF Undo, Goto, Others, gcVars
  <2> QED  BY <1>8, <1>b, <2>1, Touching, FrameOf DEF Undo
<1>9. CASE UndoLock(p)
  <2>1. Others(p) /\ pc'[p] = "start"
    BY <1>9, <1>a DEF UndoLock, Goto, Others, ownVars, gcVars
  <2>2. LocksTouched(p)
    BY <1>9, EarlyHolds, Touching DEF UndoLock, DeleteLockFile
  <2> QED  BY <1>9, <1>b, <2>1, <2>2, Touching, FrameOf DEF UndoLock, ownVars
<1>10. CASE Rename(p)
  <2>1. Others(p) /\ pc'[p] = "renamed"
    BY <1>10, <1>a DEF Rename, Goto, Others, ownVars, gcVars
  <2>2. NamesTouched(p)
    BY <1>10, <1>a, <1>b DEF Rename, NamesTouched
  <2> QED  BY <1>10, <2>1, <2>2, Touching, FrameOf DEF Rename, envVars, ownVars
<1>11. CASE RenameFails(p)
  <2>1. Others(p) /\ pc'[p] = "gc"
    BY <1>11, <1>a DEF RenameFails, Goto, Others, gcVars
  <2>2. LocksTouched(p)
    BY <1>11, EarlyHolds, Touching DEF RenameFails
  <2> QED  BY <1>11, <2>1, <2>2, Touching, FrameOf DEF RenameFails, dirVars
<1>12. CASE Publish(p)
  <2>1. Others(p) /\ pc'[p] = "gc"
    BY <1>12, <1>a DEF Publish, Goto, Others, gcVars
  <2>2. LocksTouched(p)
    BY <1>12, EarlyHolds, Touching DEF Publish
  <2> QED  BY <1>12, <2>1, <2>2, Touching, FrameOf DEF Publish, dirVars, envVars
<1>13. CASE Invalidate(p)
  <2>1. Others(p) /\ pc'[p] = "invalidLock"
    BY <1>13, <1>a DEF Invalidate, Goto, Others, ownVars, gcVars
  <2> QED  BY <1>13, <1>b, <2>1, Touching, FrameOf DEF Invalidate, ownVars
<1>14. CASE InvalidateLock(p)
  <2>1. Others(p) /\ pc'[p] = "invalidRename"
    BY <1>14, <1>a DEF InvalidateLock, Goto, Others, gcVars
  <2>2. LocksTouched(p)
    BY <1>14, EarlyHolds, Touching DEF InvalidateLock, DeleteLockFile
  <2> QED  BY <1>14, <1>b, <2>1, <2>2, Touching, FrameOf DEF InvalidateLock
<1>15. CASE InvalidateRename(p)
  <2>1. Others(p) /\ pc'[p] \in {"dead", "gc"}
    BY <1>15, <1>a DEF InvalidateRename, Goto, Others, ownVars, gcVars
  <2>2. NamesTouched(p)
    BY <1>15, <1>a, <1>b DEF InvalidateRename, NamesTouched
  <2> QED  BY <1>15, <2>1, <2>2, Touching, FrameOf DEF InvalidateRename, envVars, ownVars
<1>16. CASE GcScan(p)
  <2>1. Others(p) /\ pc'[p] \in {"gcStep", "gcGarbage", "compile", "done"}
    BY <1>16, <1>a DEF GcScan, Goto, Others, AfterGc, ownVars
  <2> QED  BY <1>16, <2>1, Touching, FrameOf DEF GcScan, dirVars, ownVars
<1>17. CASE GcGarbage(p)
  <2>1. Others(p) /\ pc'[p] \in {"gcStep", "gcGarbage", "gcRemoving"}
    BY <1>17, <1>a DEF GcGarbage, Goto, Others, ownVars
  <2>2. lockFile' = lockFile
    BY <1>17 DEF GcGarbage, HasTimestamp
  <2> QED  BY <1>17, <2>1, <2>2, Touching, FrameOf DEF GcGarbage, envVars, ownVars
<1>29. CASE GcRemove(p)
  <2> DEFINE e == NextGarbage(garbage[p])
  <2>1. Others(p) /\ pc'[p] \in {"gcStep", "gcGarbage"}
    BY <1>29, <1>a DEF GcRemove, Goto, Others, ownVars
  <2>2. NamesTouched(p)
    <3>1. e \in garbage[p] /\ e[2] # "lock" /\ Collecting(p)
      BY <1>29, <1>a, NextGarbageOf DEF SessionInv, Collecting, Removing, GcRemove
    <3>2. e[1] \in (1 .. clock) \ lockFile
      BY <3>1 DEF Collecting
    <3>3. Mine(p, e[1])
      BY <3>2 DEF Mine, Made, SessionInv, Session
    <3> QED  BY <1>29, <3>3, Touching DEF GcRemove
  <2> QED  BY <1>29, <2>1, <2>2, Touching, FrameOf DEF GcRemove, ownVars
<1>18. ASSUME NEW e \in mapped[p], GcInspect(p, e) PROVE Frame(p)
  <2>1. Others(p) /\ pc'[p] \in {"gcStep", "gcFinal", "gcOld"}
    BY <1>18, <1>a DEF GcInspect, Goto, Others, ownVars
  <2> QED  BY <1>18, <2>1, Touching, FrameOf DEF GcInspect, envVars, dirVars, ownVars
<1>19. CASE GcLockFinal(p)
  <2>1. Others(p) /\ pc'[p] = "gcStep"
    BY <1>19, <1>a DEF GcLockFinal, Goto, Others, ownVars
  <2>2. LocksTouched(p)
    BY <1>19, OwnFacts, Touching DEF GcLockFinal, lockVars
  <2> QED  BY <1>19, <2>1, <2>2, Touching, FrameOf DEF GcLockFinal, envVars, dirVars, ownVars
<1>20. CASE GcLockOld(p)
  <2>1. Others(p) /\ pc'[p] \in {"gcOldDir", "gcStep"}
    BY <1>20, <1>a DEF GcLockOld, Goto, Others, ownVars, gcVars
  <2>2. LocksTouched(p)
    BY <1>20, OwnFacts, Touching DEF GcLockOld, lockVars
  <2> QED  BY <1>20, <2>1, <2>2, Touching, FrameOf DEF GcLockOld, envVars, dirVars, ownVars
<1>21. CASE GcOldDir(p)
  <2>1. Others(p) /\ pc'[p] \in {"gcOldLock", "gcStep"}
    BY <1>21, <1>a DEF GcOldDir, Goto, Others, ownVars, gcVars
  <2>2. LocksTouched(p)
    BY <1>21, OwnFacts, Touching DEF GcOldDir, lockVars
  <2>3. NamesTouched(p)
    BY <1>21, <1>b, OwnFacts, Touching DEF GcOldDir
  <2> QED  BY <1>21, <2>1, <2>2, <2>3, Touching, FrameOf DEF GcOldDir, ownVars
<1>22. CASE GcOldLock(p)
  <2>1. Others(p) /\ pc'[p] = "gcStep"
    BY <1>22, <1>a DEF GcOldLock, Goto, Others, ownVars, gcVars
  <2>2. LocksTouched(p) /\ FilesTouched(p)
    BY <1>22, <1>b, OwnFacts, Touching DEF GcOldLock, DeleteLockFile
  <2> QED  BY <1>22, <2>1, <2>2, Touching, FrameOf DEF GcOldLock, ownVars
<1>23. CASE AllExceptMostRecent(p)
  <2>1. Others(p) /\ pc'[p] = "gcDelete"
    BY <1>23, <1>a DEF AllExceptMostRecent, Goto, Others, ownVars
  <2>2. LocksTouched(p)
    <3>1. cand[p] # {} => Newest(cand[p]) \in cand[p]
      BY <1>a, NewestOf
    <3> QED  BY <1>23, <3>1, OwnFacts, Touching DEF AllExceptMostRecent, lockVars
  <2> QED  BY <1>23, <2>1, <2>2, Touching, FrameOf DEF AllExceptMostRecent, envVars, dirVars, ownVars
<1>24. ASSUME NEW d \in cand[p], GcDelete(p, d) PROVE Frame(p)
  <2>1. Others(p) /\ pc'[p] = "gcDeleting"
    BY <1>24, <1>a DEF GcDelete, Goto, Others, ownVars, gcVars
  <2> QED  BY <1>24, <2>1, Touching, FrameOf DEF GcDelete, envVars, ownVars
<1>25. CASE GcDeleteDir(p)
  <2>1. Others(p) /\ pc'[p] \in {"gcDeleteLock", "gcDelete"}
    BY <1>25, <1>a DEF GcDeleteDir, Goto, Others, ownVars
  <2>2. LocksTouched(p)
    BY <1>25, OwnFacts, Touching DEF GcDeleteDir, lockVars
  <2>3. NamesTouched(p)
    BY <1>25, <1>b, OwnFacts, Touching DEF GcDeleteDir
  <2> QED  BY <1>25, <2>1, <2>2, <2>3, Touching, FrameOf DEF GcDeleteDir, ownVars
<1>26. CASE GcDeleteLock(p)
  <2>1. Others(p) /\ pc'[p] = "gcDelete"
    BY <1>26, <1>a DEF GcDeleteLock, Goto, Others, ownVars
  <2>2. LocksTouched(p) /\ FilesTouched(p)
    BY <1>26, <1>b, OwnFacts, Touching DEF GcDeleteLock, DeleteLockFile
  <2> QED  BY <1>26, <2>1, <2>2, Touching, FrameOf DEF GcDeleteLock, ownVars
<1>27. CASE GcEnds(p)
  <2>1. Others(p) /\ pc'[p] \in {"compile", "done"}
    BY <1>27, <1>a DEF GcEnds, Goto, Others, AfterGc, ownVars, gcVars
  <2> QED  BY <1>27, <2>1, Touching, FrameOf DEF GcEnds, envVars, dirVars, ownVars
<1>28. CASE Crash(p)
  <2>1. Others(p) /\ pc'[p] = "dead"
    BY <1>28, <1>a DEF Crash, Goto, Others
  <2>2. LocksTouched(p)
    BY <1>28 DEF Crash, LocksTouched
  <2> QED  BY <1>28, <2>1, <2>2, Touching, FrameOf DEF Crash, dirVars
<1> QED
  BY <1>1, <1>2, <1>3, <1>4, <1>5, <1>6, <1>7, <1>8, <1>9, <1>10, <1>11, <1>12, <1>13, <1>14,
     <1>15, <1>16, <1>17, <1>18, <1>19, <1>20, <1>21, <1>22, <1>23, <1>24, <1>25, <1>26, <1>27,
     <1>28, <1>29 DEF Step, Prepare, Finalize, Collect

-------------------------------------------------------------------------------
(* What a step of p makes of its own session *)

\* What p has scanned and locked stays behind.
LEMMA ScansKept ==
  ASSUME SessionInv, NEW p \in Procs, Frame(p),
         garbage'[p] \subseteq garbage[p], mapped'[p] \subseteq mapped[p],
         \A d \in cand'[p] : Past(d) /\ ex'[d] = p
  PROVE  /\ \A e \in garbage'[p] : e[2] # "lock" => e[1] \in (1 .. clock') \ lockFile'
         /\ \A e \in mapped'[p] : Made(e[1])' /\ (e[2] = "final" => Past(e[1])')
         /\ \A d \in cand'[p] : Past(d)' /\ ex'[d] = p
<1>a. Collecting(p) /\ clock \in Nat /\ clock' \in Nat /\ clock <= clock' /\ Ids \subseteq Nat
      /\ garbage[p] \subseteq Entry
  BY KnownIds DEF SessionInv, TypeOK, Frame, Ids
<1>1. ASSUME NEW e \in garbage'[p], e[2] # "lock" PROVE e[1] \in (1 .. clock') \ lockFile'
  <2>1. e[1] \in Ids /\ e[1] \in (1 .. clock) \ lockFile
    BY <1>a, <1>1 DEF Collecting, Entry
  <2> QED  BY <2>1, <1>a DEF Frame
<1>2. ASSUME NEW e \in mapped'[p] PROVE Made(e[1])' /\ (e[2] = "final" => Past(e[1])')
  BY <1>a, <1>2, KnownIds DEF Collecting, Frame
<1>3. ASSUME NEW d \in cand'[p] PROVE Past(d)' /\ ex'[d] = p
  BY KnownIds DEF Frame
<1> QED  BY <1>1, <1>2, <1>3

\* Outside garbage collection p has scanned nothing new and holds no candidate.
LEMMA NothingCollected ==
  ASSUME SessionInv, NEW p \in Procs, Frame(p), 
         pc'[p] \notin CollectLabels \cup {"gcGarbage", "gcRemoving"},
         cand'[p] = {}, garbage'[p] \subseteq garbage[p], mapped'[p] \subseteq mapped[p]
  PROVE  Collecting(p)'
BY ScansKept DEF Collecting, CollectLabels, DeleteLabels

\* A step of garbage collection keeps p's own directory, lock file and lock.
LEMMA SessionInGc ==
  ASSUME SessionInv, NEW p \in Procs, Frame(p), pc[p] \in GcLabels,
         pc'[p] \in GcLabels \/ pc'[p] = AfterGc(p),
         sid'[p] = sid[p], result'[p] = result[p],
         result[p] = "active" => /\ name'[sid[p]] = name[sid[p]] /\ ex'[sid[p]] = ex[sid[p]]
                                 /\ sid[p] \in lockFile => sid[p] \in lockFile'
  PROVE  Session(p)' /\ Copying(p)'
<1>a. Session(p) /\ sid[p] \in 0 .. MaxId /\ clock \in Nat /\ clock' \in Nat /\ clock <= clock'
  BY KnownIds DEF SessionInv, TypeOK, Frame
<1>b. /\ \A l \in GcLabels : l \notin EarlyLabels /\ l \notin {"start", "opened", "locked", "undoLock",
           "renamed", "invalidLock", "done", "dead", "undo"} /\ l \notin CopyLabels
  BY DEF GcLabels, CollectLabels, DeleteLabels, EarlyLabels, CopyLabels
<1>c. AfterGc(p) = IF result[p] = "active" THEN "compile" ELSE "done"
  BY DEF AfterGc
<1>1. sid'[p] <= clock'
  BY <1>a DEF Session
<1>2. result[p] = "active" => Holds(p) /\ Inside(p)
  BY <1>b DEF Holds, Inside
<1>3. pc'[p] \notin {"start", "dead", "opened", "locked"} /\ sid[p] \in Ids
  BY <1>a, <1>b, <1>c DEF Session
<1>4. pc'[p] \in EarlyLabels => result[p] = "active"
  BY <1>b, <1>c DEF EarlyLabels
<1>5. Session(p)'
  BY <1>a, <1>1, <1>2, <1>3, <1>4 DEF Session, Holds, Inside
<1>6. Copying(p)'
  BY <1>b, <1>c DEF Copying, CopyLabels
<1> QED  BY <1>5, <1>6

\* Every step keeps the session of its process in order.
LEMMA OwnStep ==
  ASSUME SessionInv, NEW p \in Procs, Frame(p), Step(p) \/ Crash(p)
  PROVE  Session(p)' /\ Copying(p)' /\ Collecting(p)'
<1>a. /\ pc \in [Procs -> Labels] /\ sid \in [Procs -> 0 .. MaxId] /\ cur \in [Procs -> 0 .. MaxId]
      /\ result \in [Procs -> {"active", "finalized", "invalid"}]
      /\ garbage \in [Procs -> SUBSET Entry] /\ mapped \in [Procs -> SUBSET Entry]
      /\ cand \in [Procs -> SUBSET Ids] /\ name \in [Ids -> Names]
      /\ ex \in [Ids -> Procs \cup {NoProc}] /\ sh \in [Ids -> SUBSET Procs]
      /\ clock \in Nat /\ Ids \subseteq Nat /\ 0 \notin Ids
  BY KnownIds DEF SessionInv, TypeOK, Ids
<1>b. Session(p) /\ Copying(p) /\ Collecting(p)
  BY DEF SessionInv
<1>c. CASE Prepare(p) \/ Finalize(p)
  <2>a. pc[p] \notin CollectLabels /\ cand[p] = {}
    <3>1. pc[p] \notin CollectLabels
      BY <1>c DEF Prepare, Finalize, OpenLock, LockDirectory, CreateDir, FindSourceDirectory, CopyOpen,
                  CopyLock, CopyFiles, Undo, UndoLock, Rename, RenameFails, Publish, Invalidate,
                  InvalidateLock, InvalidateRename, CollectLabels, DeleteLabels
    <3> QED  BY <3>1, OwnFacts
  <2>b. UNCHANGED gcVars
    BY <1>c DEF Prepare, Finalize, OpenLock, LockDirectory, CreateDir, FindSourceDirectory, CopyOpen,
                CopyLock, CopyFiles, Undo, UndoLock, Rename, RenameFails, Publish, Invalidate,
                InvalidateLock, InvalidateRename
  <2>c. pc'[p] \notin CollectLabels \cup {"gcGarbage", "gcRemoving"}
    BY <1>a, <1>c
    DEF Prepare, Finalize, OpenLock, LockDirectory, CreateDir, FindSourceDirectory, CopyOpen,
                CopyLock, CopyFiles, Undo, UndoLock, Rename, RenameFails, Publish, Invalidate,
                InvalidateLock, InvalidateRename, CollectLabels, DeleteLabels, Goto
  <2>d. Collecting(p)'
    BY <2>a, <2>b, <2>c, NothingCollected DEF gcVars
  <2> SUFFICES Session(p)' /\ Copying(p)'
    BY <2>d
  <2>1. CASE OpenLock(p)
    <3>1. /\ pc'[p] = "opened" /\ sid'[p] = clock + 1 /\ clock' = clock + 1 /\ clock + 1 \in Ids
          /\ clock + 1 \in lockFile' /\ name' = name /\ result'[p] = result[p] /\ pc[p] = "start"
      BY <2>1, <1>a, LeftoverAssumption DEF OpenLock, Goto, Ids
    <3>3. result[p] = "active"
      BY <3>1, <1>b DEF Session, EarlyLabels, Labels, GcLabels, CollectLabels, DeleteLabels
    <3>2. name[clock + 1] = "none"
      BY <3>1, <1>a DEF SessionInv
    <3> QED  BY <3>1, <3>2, <3>3, <1>a DEF Session, Copying, Holds, Inside, CopyLabels
  <2>2. CASE LockDirectory(p)
    <3>1. sid[p] \in Ids /\ result[p] = "active" /\ name[sid[p]] = "none" /\ sid[p] \in lockFile
      BY <2>2, <1>b
      DEF LockDirectory, Session, EarlyLabels, Labels, GcLabels, CollectLabels, DeleteLabels
    <3>2. CASE ex' = [ex EXCEPT ![sid[p]] = p] /\ Goto(p, "locked")
      BY <2>2, <3>1, <3>2, <1>a, <1>b
      DEF LockDirectory, Goto, Session, Copying, Holds, Inside, CopyLabels, dirVars, ownVars
    <3>3. CASE Goto(p, "dead")
      BY <2>2, <3>1, <3>3, <1>a, <1>b
      DEF LockDirectory, Goto, Session, Copying, Holds, Inside, CopyLabels, dirVars, ownVars,
          EarlyLabels
    <3> QED  BY <2>2, <3>2, <3>3 DEF LockDirectory
  <2>3. CASE CreateDir(p)
    <3>1. /\ pc[p] = "locked" /\ pc'[p] = "created" /\ name'[sid[p]] = "working" /\ lockFile' = lockFile
          /\ ex' = ex /\ sid' = sid /\ result' = result /\ clock' = clock
      BY <2>3, <1>a, EarlyHolds DEF CreateDir, Goto, lockVars, ownVars
    <3>2. ex[sid[p]] = p /\ sid[p] \in Ids /\ result[p] = "active" /\ sid[p] \in lockFile
      BY <3>1, <1>b, EarlyHolds DEF Session
    <3> QED  BY <3>1, <3>2, <1>b DEF Session, Copying, Holds, Inside, CopyLabels
  <2>4. CASE FindSourceDirectory(p)
    <3> DEFINE found == {d \in Ids : name[d] = "final"} \ tried[p]
    <3>1. /\ pc[p] = "created" /\ name' = name /\ lockFile' = lockFile
          /\ ex' = ex /\ sid' = sid /\ result' = result /\ clock' = clock
          /\ \/ pc'[p] = "gc"
             \/ pc'[p] = "source" /\ found # {} /\ cur'[p] = Newest(found)
      BY <2>4, <1>a DEF FindSourceDirectory, Goto, lockVars, dirVars
    <3>2. ex[sid[p]] = p /\ sid[p] \in Ids /\ result[p] = "active" /\ Inside(p)
      BY <3>1, EarlyHolds DEF Inside
    <3>3. Session(p)'
      BY <3>1, <3>2, <1>b DEF Session, Holds, Inside
    <3>4. pc'[p] = "source" => Past(cur[p])'
      <4> SUFFICES ASSUME pc'[p] = "source" PROVE Past(cur[p])'
        OBVIOUS
      <4>1. cur'[p] \in Ids /\ name[cur'[p]] = "final"
        BY <3>1, NewestOf
      <4>2. \A d \in Ids : name[d] = "final" => Past(d)'
        BY SeenMade DEF Frame
      <4> QED  BY <4>1, <4>2, <1>a DEF Past, Made
    <3> QED  BY <3>1, <3>3, <3>4 DEF Copying, CopyLabels
  <2>5. CASE CopyOpen(p)
    <3>1. /\ pc[p] = "source" /\ pc'[p] \in {"copyOpen", "undo"} /\ name' = name /\ lockFile' = lockFile
          /\ ex' = ex /\ sid' = sid /\ result' = result /\ clock' = clock /\ cur' = cur
      BY <2>5, <1>a DEF CopyOpen, Goto, lockVars, dirVars, ownVars
    <3>2. ex[sid[p]] = p /\ sid[p] \in Ids /\ result[p] = "active" /\ Inside(p)
      BY <3>1, EarlyHolds DEF Inside
    <3>3. Session(p)'
      BY <3>1, <3>2, <1>b DEF Session, Holds, Inside
    <3>4. Past(cur[p])'
      BY <3>1, OwnFacts DEF Frame, CopyLabels, Past, Made
    <3> QED  BY <3>1, <3>3, <3>4 DEF Copying
  <2>6. CASE CopyLock(p)
    <3>1. /\ pc[p] = "copyOpen" /\ pc'[p] \in {"copying", "undo"} /\ name' = name /\ lockFile' = lockFile
          /\ ex' = ex /\ sid' = sid /\ result' = result /\ clock' = clock /\ cur' = cur
          /\ pc'[p] = "copying" => sh' = [sh EXCEPT ![cur[p]] = @ \cup {p}]
      BY <2>6, <1>a DEF CopyLock, Goto, dirVars, ownVars
    <3>2. ex[sid[p]] = p /\ sid[p] \in Ids /\ result[p] = "active" /\ Inside(p)
      BY <3>1, EarlyHolds DEF Inside
    <3>3. Session(p)'
      BY <3>1, <3>2, <1>b DEF Session, Holds, Inside
    <3>4. cur[p] \in Ids /\ Past(cur[p])'
      BY <3>1, OwnFacts DEF Frame, CopyLabels, Past, Made
    <3>5. pc'[p] = "copying" => p \in sh'[cur'[p]]
      BY <3>1, <3>4, <1>a
    <3> QED  BY <3>1, <3>3, <3>4, <3>5 DEF Copying
  <2>7. CASE CopyFiles(p)
    <3>1. /\ pc[p] = "copying" /\ pc'[p] \in {"gc", "undo"} /\ name' = name /\ lockFile' = lockFile
          /\ ex' = ex /\ sid' = sid /\ result' = result /\ clock' = clock
          /\ pc'[p] = "undo" => cur' = cur
      BY <2>7, <1>a DEF CopyFiles, Goto, dirVars
    <3>2. ex[sid[p]] = p /\ sid[p] \in Ids /\ result[p] = "active" /\ Inside(p)
      BY <3>1, EarlyHolds DEF Inside
    <3>3. Session(p)'
      BY <3>1, <3>2, <1>b DEF Session, Holds, Inside
    <3>4. pc'[p] = "undo" => Past(cur[p])'
      BY <3>1, OwnFacts DEF Frame, CopyLabels, Past, Made
    <3> QED  BY <3>1, <3>3, <3>4 DEF Copying, CopyLabels
  <2>8. CASE Undo(p)
    <3>1. /\ pc[p] = "undo" /\ pc'[p] = "undoLock" /\ ex' = ex /\ sid' = sid /\ result' = result
          /\ clock' = clock
      BY <2>8, <1>a DEF Undo, Goto, lockVars
    <3>2. ex[sid[p]] = p /\ sid[p] \in Ids /\ result[p] = "active"
      BY <3>1, EarlyHolds
    <3> QED  BY <3>1, <3>2, <1>b DEF Session, Copying, Holds, Inside, CopyLabels
  <2>9. CASE UndoLock(p)
    <3>1. pc[p] = "undoLock" /\ pc'[p] = "start" /\ sid' = sid /\ result' = result /\ clock' = clock
      BY <2>9, <1>a DEF UndoLock, Goto, ownVars
    <3>2. result[p] = "active"
      BY <3>1, EarlyHolds
    <3> QED  BY <3>1, <3>2, <1>b DEF Session, Copying, Holds, Inside, CopyLabels
  <2>10. CASE Rename(p)
    <3>1. /\ pc[p] = "compile" /\ pc'[p] = "renamed" /\ ex' = ex /\ sid' = sid /\ result' = result
          /\ clock' = clock
      BY <2>10, <1>a DEF Rename, Goto, lockVars, ownVars
    <3>2. ex[sid[p]] = p /\ sid[p] \in Ids /\ result[p] = "active"
      BY <3>1, EarlyHolds
    <3> QED  BY <3>1, <3>2, <1>b DEF Session, Copying, Holds, Inside, CopyLabels
  <2>11. CASE RenameFails(p) \/ Publish(p)
    <3>1. /\ pc[p] \in {"compile", "renamed"} /\ pc'[p] = "gc" /\ sid' = sid /\ clock' = clock
          /\ result'[p] \in {"invalid", "finalized"}
      BY <2>11, <1>a DEF RenameFails, Publish, Goto, dirVars
    <3>2. sid[p] \in Ids
      BY <3>1, EarlyHolds
    <3> QED  BY <3>1, <3>2, <1>b
             DEF Session, Copying, Holds, Inside, CopyLabels, EarlyLabels, GcLabels
  <2>12. CASE Invalidate(p)
    <3>1. /\ pc[p] = "compile" /\ pc'[p] = "invalidLock" /\ ex' = ex /\ sid' = sid /\ result' = result
          /\ clock' = clock
      BY <2>12, <1>a DEF Invalidate, Goto, lockVars, ownVars
    <3>2. ex[sid[p]] = p /\ sid[p] \in Ids /\ result[p] = "active"
      BY <3>1, EarlyHolds
    <3> QED  BY <3>1, <3>2, <1>b DEF Session, Copying, Holds, Inside, CopyLabels
  <2>13. CASE InvalidateLock(p)
    <3>1. /\ pc[p] = "invalidLock" /\ pc'[p] = "invalidRename" /\ sid' = sid /\ clock' = clock
          /\ result'[p] = "invalid"
      BY <2>13, <1>a DEF InvalidateLock, Goto
    <3>2. sid[p] \in Ids
      BY <3>1, EarlyHolds
    <3> QED  BY <3>1, <3>2, <1>b DEF Session, Copying, Holds, Inside, CopyLabels, EarlyLabels
  <2>14. CASE InvalidateRename(p)
    <3>1. /\ pc[p] = "invalidRename" /\ pc'[p] \in {"dead", "gc"} /\ sid' = sid /\ result' = result
          /\ clock' = clock /\ ex' = ex /\ lockFile' = lockFile
          /\ pc'[p] = "gc" => name' = name
      BY <2>14, <1>a DEF InvalidateRename, Goto, lockVars, ownVars
    <3>2. sid[p] \in Ids
      BY <3>1, OwnFacts
    <3> QED  BY <3>1, <3>2, <1>b
             DEF Session, Copying, Holds, Inside, CopyLabels, EarlyLabels, GcLabels
  <2> QED
    BY <1>c, <2>1, <2>2, <2>3, <2>4, <2>5, <2>6, <2>7, <2>8, <2>9, <2>10, <2>11, <2>12, <2>13,
       <2>14 DEF Prepare, Finalize
<1>d. CASE Collect(p)
  <2>a. ASSUME pc[p] \in GcLabels, result[p] = "active"
        PROVE  /\ sid[p] \in Ids /\ ex[sid[p]] = p /\ name[sid[p]] = "working" /\ sid[p] \in lockFile
               /\ ~Past(sid[p])
    <3>1. Inside(p) /\ Holds(p)
      BY <2>a DEF Inside, Holds, GcLabels, CollectLabels, DeleteLabels
    <3> QED  BY <3>1, <1>b DEF Session, Inside, Past
  <2>b. \A l \in CollectLabels : l \in GcLabels /\ l \notin {"gcGarbage", "gcRemoving"}
    BY DEF CollectLabels, GcLabels, DeleteLabels
  <2>c. CollectLabels = {"gcStep", "gcFinal", "gcOld", "gcOldDir", "gcOldLock", "gcDelete", "gcDeleting", "gcDeleteLock"}
    BY DEF CollectLabels, DeleteLabels
  <2>d. clock' = clock /\ sid' = sid /\ result' = result
    BY <1>d DEF Collect, GcScan, GcGarbage, GcRemove, GcInspect, GcLockFinal, GcLockOld, GcOldDir, GcOldLock,
                AllExceptMostRecent, GcDelete, GcDeleteDir, GcDeleteLock, GcEnds, dirVars, ownVars
  <2>e. ASSUME pc[p] \in CollectLabels, pc'[p] \in CollectLabels,
               garbage'[p] \subseteq garbage[p], mapped'[p] \subseteq mapped[p],
               \A d \in cand'[p] : Past(d) /\ ex'[d] = p,
               pc'[p] = "gcFinal" => Past(cur'[p]),
               pc'[p] \in {"gcOld", "gcOldDir"} => Made(cur'[p]),
               pc'[p] \in {"gcOldDir", "gcOldLock"} => ex'[cur'[p]] = p,
               pc'[p] \in {"gcOldDir", "gcOldLock"} => cur'[p] \notin cand'[p],
               pc'[p] = "gcOldDir" /\ result[p] = "active" => cur'[p] # sid[p],
               pc'[p] = "gcOldLock" => Past(cur[p])' /\ (overtaken' \/ name'[cur'[p]] # "final"),
               pc'[p] \in {"gcDeleting", "gcDeleteLock"} => cur'[p] \in cand'[p],
               pc'[p] = "gcDeleteLock" => name'[cur'[p]] # "final"
        PROVE  Collecting(p)'
    <3>1. /\ Past(cur'[p]) => Past(cur[p])'
          /\ Made(cur'[p]) => Made(cur[p])'
      <4>1. \A d : (Past(d) => Past(d)') /\ (Made(d) => Made(d)')
        BY KnownIds DEF Frame
      <4> QED  BY <4>1 DEF Past, Made
    <3> QED  BY <2>b, <2>d, <2>e, <3>1, ScansKept DEF Collecting
  <2>f. \A d \in cand[p] : d \in Ids /\ Past(d) /\ ex[d] = p
    BY OwnFacts
  <2>1. CASE GcScan(p)
    <3>1. /\ pc[p] = "gc" /\ name' = name /\ ex' = ex /\ lockFile' = lockFile /\ cand' = cand
      BY <2>1 DEF GcScan, dirVars, lockVars
    <3>2. pc[p] \in GcLabels /\ cand[p] = {}
      BY <3>1, <2>c, OwnFacts DEF GcLabels
    <3>3. pc'[p] \in {"gcStep", "gcGarbage", AfterGc(p)}
      BY <2>1, <1>a DEF GcScan, Goto
    <3>4. Session(p)' /\ Copying(p)'
      BY <3>1, <3>2, <3>3, <2>d, SessionInGc DEF GcLabels, CollectLabels
    <3>5. CASE garbage'[p] = garbage[p] /\ mapped'[p] = mapped[p] /\ pc'[p] = AfterGc(p)
      BY <3>1, <3>2, <3>4, <3>5, NothingCollected DEF AfterGc, CollectLabels, DeleteLabels
    <3>6. CASE /\ garbage'[p] = Orphans \cup DirEntries(Ids \ lockFile) /\ mapped'[p] = DirEntries(lockFile)
               /\ pc'[p] = (IF garbage'[p] = {} THEN "gcStep" ELSE "gcGarbage")
      <4>1. ASSUME NEW e \in garbage'[p], e[2] # "lock" PROVE e[1] \in (1 .. clock') \ lockFile'
        <5>1. e[1] \in Ids \ lockFile /\ name[e[1]] # "none"
          BY <3>6, <4>1 DEF Orphans, DirEntries
        <5> QED  BY <5>1, <3>1, <2>d, SeenMade DEF Ids
      <4>2. ASSUME NEW e \in mapped'[p] PROVE Made(e[1])' /\ (e[2] = "final" => Past(e[1])')
        <5>1. e[1] \in Ids /\ e[2] = name[e[1]] /\ name[e[1]] # "none"
          BY <3>6, <4>2 DEF DirEntries, SessionInv, TypeOK
        <5> QED  BY <5>1, SeenMade DEF Frame
      <4> QED  BY <3>1, <3>2, <3>4, <3>6, <4>1, <4>2 DEF Collecting
    <3> QED  BY <2>1, <1>a, <3>5, <3>6 DEF GcScan, Goto
  <2>2. CASE GcGarbage(p)
    <3> DEFINE e == NextGarbage(garbage[p])
    <3>1. /\ pc[p] = "gcGarbage" /\ ex' = ex /\ cand' = cand /\ mapped' = mapped /\ name' = name
          /\ \/ /\ garbage'[p] = garbage[p] \ {e}
                /\ pc'[p] = (IF garbage'[p] = {} THEN "gcStep" ELSE "gcGarbage")
             \/ /\ garbage' = garbage /\ pc'[p] = "gcRemoving" /\ cur'[p] = e[1] /\ e[2] # "lock"
      BY <2>2, <1>a DEF GcGarbage, Goto, lockVars
    <3>2. pc[p] \in GcLabels /\ pc'[p] \in GcLabels /\ cand[p] = {}
      BY <3>1, <2>c, OwnFacts DEF GcLabels, CollectLabels
    <3>3. lockFile' = lockFile
      BY <2>2 DEF GcGarbage, HasTimestamp
    <3>4. Session(p)' /\ Copying(p)'
      BY <3>1, <3>2, <3>3, <2>d, SessionInGc
    <3>5. pc'[p] \in {"gcGarbage", "gcRemoving"} => garbage'[p] # {}
      BY <3>1, <1>b DEF Collecting
    <3>6. pc'[p] = "gcRemoving" => Removing(p)'
      BY <3>1 DEF Removing
    <3>7. Collecting(p)'
      BY <3>1, <3>2, <3>5, <3>6, ScansKept DEF Collecting
    <3> QED  BY <3>4, <3>7
  <2>13. CASE GcRemove(p)
    <3> DEFINE e == NextGarbage(garbage[p])
    <3>1. /\ pc[p] = "gcRemoving" /\ ex' = ex /\ cand' = cand /\ mapped' = mapped
          /\ lockFile' = lockFile /\ garbage'[p] = garbage[p] \ {e}
          /\ pc'[p] = (IF garbage'[p] = {} THEN "gcStep" ELSE "gcGarbage")
      BY <2>13, <1>a DEF GcRemove, Goto, lockVars
    <3>2. pc[p] \in GcLabels /\ pc'[p] \in GcLabels /\ cand[p] = {}
      BY <3>1, <2>c, OwnFacts DEF GcLabels, CollectLabels
    <3>3. result[p] = "active" => name'[sid[p]] = name[sid[p]]
      <4>1. e \in garbage[p] /\ e[2] # "lock"
        BY <3>1, <1>a, <1>b, NextGarbageOf DEF Collecting, Removing
      <4>2. e[1] \notin lockFile
        BY <4>1, <1>b DEF Collecting
      <4> QED  BY <2>13, <4>2, <3>2, <2>a, <1>a DEF GcRemove, RemoveOrWarn, RemoveDir
    <3>4. Session(p)' /\ Copying(p)'
      BY <3>1, <3>2, <3>3, <2>d, SessionInGc
    <3>5. Collecting(p)'
      BY <3>1, <3>2, ScansKept DEF Collecting
    <3> QED  BY <3>4, <3>5
  <2>3. ASSUME NEW e \in mapped[p], GcInspect(p, e) PROVE Session(p)' /\ Copying(p)' /\ Collecting(p)'
    <3>1. /\ pc[p] = "gcStep" /\ ex' = ex /\ cand' = cand /\ garbage' = garbage /\ name' = name
          /\ lockFile' = lockFile /\ mapped'[p] = mapped[p] \ {e}
      BY <2>3, <1>a DEF GcInspect, lockVars, dirVars
    <3>2. \/ pc'[p] = "gcStep"
          \/ pc'[p] = "gcFinal" /\ cur'[p] = e[1] /\ e[2] = "final"
          \/ pc'[p] = "gcOld" /\ cur'[p] = e[1]
      BY <2>3, <1>a DEF GcInspect, Goto
    <3>3. pc[p] \in CollectLabels /\ pc'[p] \in CollectLabels
      BY <3>1, <3>2, <2>c
    <3>4. Session(p)' /\ Copying(p)'
      BY <3>1, <3>3, <2>b, <2>d, SessionInGc
    <3>5. \A d \in cand'[p] : Past(d) /\ ex'[d] = p
      BY <3>1, OwnFacts
    <3>6. Made(e[1]) /\ (e[2] = "final" => Past(e[1]))
      BY <1>b DEF Collecting
    <3>7. Collecting(p)'
      BY <3>1, <3>2, <3>3, <3>5, <3>6, <2>e
    <3> QED  BY <3>4, <3>7
  <2>4. CASE GcLockFinal(p)
    <3>1. /\ pc[p] = "gcFinal" /\ pc'[p] = "gcStep" /\ garbage' = garbage /\ mapped' = mapped
          /\ name' = name /\ lockFile' = lockFile
      BY <2>4, <1>a DEF GcLockFinal, Goto, dirVars
    <3>2. \/ ex' = ex /\ cand' = cand
          \/ /\ ExclusiveFree(cur[p]) /\ ex' = [ex EXCEPT ![cur[p]] = p]
             /\ cand'[p] = cand[p] \cup {cur[p]}
      BY <2>4, <1>a DEF GcLockFinal
    <3>3. pc[p] \in CollectLabels /\ pc'[p] \in CollectLabels
      BY <3>1, <2>c
    <3>4. cur[p] \in Ids /\ Past(cur[p])
      BY <3>1, OwnFacts
    <3>5. result[p] = "active" => ex'[sid[p]] = ex[sid[p]]
      BY <3>2, <3>3, <3>4, <2>a, <2>b, <1>a DEF ExclusiveFree
    <3>6. Session(p)' /\ Copying(p)'
      BY <3>1, <3>3, <3>5, <2>b, <2>d, SessionInGc
    <3>7. \A d \in cand'[p] : Past(d) /\ ex'[d] = p
      <4>1. CASE ex' = ex /\ cand' = cand
        BY <4>1, <2>f
      <4>2. CASE ex' = [ex EXCEPT ![cur[p]] = p] /\ cand'[p] = cand[p] \cup {cur[p]}
        <5>1. ex'[cur[p]] = p /\ \A d \in Ids : ex[d] = p => ex'[d] = p
          BY <4>2, <3>4, <1>a
        <5> QED  BY <4>2, <5>1, <3>4, <2>f
      <4> QED  BY <3>2, <4>1, <4>2
    <3>8. Collecting(p)'
      BY <3>1, <3>3, <3>7, <2>e
    <3> QED  BY <3>6, <3>8
  <2>5. CASE GcLockOld(p)
    <3>1. /\ pc[p] = "gcOld" /\ garbage' = garbage /\ mapped' = mapped /\ cand' = cand
          /\ name' = name /\ lockFile' = lockFile
      BY <2>5 DEF GcLockOld, dirVars, gcVars
    <3>2. \/ pc'[p] = "gcStep" /\ ex' = ex
          \/ /\ pc'[p] = "gcOldDir" /\ ExclusiveFree(cur[p]) /\ ex' = [ex EXCEPT ![cur[p]] = p]
             /\ cur' = cur
      BY <2>5, <1>a DEF GcLockOld, Goto
    <3>3. pc[p] \in CollectLabels /\ pc'[p] \in CollectLabels
      BY <3>1, <3>2, <2>c
    <3>4. cur[p] \in Ids /\ Made(cur[p])
      BY <3>1, OwnFacts
    <3>5. result[p] = "active" => /\ ex'[sid[p]] = ex[sid[p]]
                                  /\ pc'[p] = "gcOldDir" => cur'[p] # sid[p]
      BY <3>2, <3>3, <3>4, <2>a, <2>b, <1>a, ProcsAssumption DEF ExclusiveFree
    <3>6. Session(p)' /\ Copying(p)'
      BY <3>1, <3>3, <3>5, <2>b, <2>d, SessionInGc
    <3>7. \A d \in cand'[p] : Past(d) /\ ex'[d] = p
      BY <3>1, <3>2, <3>4, <2>f, <1>a
    <3>8. pc'[p] = "gcOldDir" => Made(cur'[p]) /\ ex'[cur'[p]] = p /\ cur'[p] \notin cand'[p]
      BY <3>1, <3>2, <3>4, <1>a, OwnFacts, ProcsAssumption DEF ExclusiveFree
    <3>9. Collecting(p)'
      BY <3>1, <3>2, <3>3, <3>5, <3>7, <3>8, <2>e
    <3> QED  BY <3>6, <3>9
  <2>6. CASE GcOldDir(p)
    <3>1. /\ pc[p] = "gcOldDir" /\ garbage' = garbage /\ mapped' = mapped /\ cand' = cand
          /\ lockFile' = lockFile /\ overtaken' = (overtaken \/ name[cur[p]] = "final")
      BY <2>6 DEF GcOldDir, gcVars
    <3>2. \/ /\ pc'[p] = "gcStep" /\ ex' = [ex EXCEPT ![cur[p]] = NoProc] /\ name' = name
             /\ name[cur[p]] = "working"
          \/ pc'[p] = "gcOldLock" /\ ex' = ex /\ cur' = cur /\ RemoveDir(cur[p], "working")
      BY <2>6, <1>a DEF GcOldDir, Goto, Unlock
    <3>3. pc[p] \in CollectLabels /\ pc'[p] \in CollectLabels
      BY <3>1, <3>2, <2>c
    <3>4. cur[p] \in Ids /\ Made(cur[p]) /\ ex[cur[p]] = p /\ (result[p] = "active" => cur[p] # sid[p])
      BY <3>1, <1>b, OwnFacts DEF Collecting
    <3>5. result[p] = "active" => ex'[sid[p]] = ex[sid[p]] /\ name'[sid[p]] = name[sid[p]]
      BY <3>2, <3>3, <3>4, <2>a, <2>b, <1>a DEF RemoveDir
    <3>6. Session(p)' /\ Copying(p)'
      BY <3>1, <3>3, <3>5, <2>b, <2>d, SessionInGc
    <3>7. \A d \in cand'[p] : Past(d) /\ ex'[d] = p
      <4>1. \A d \in cand[p] : d \in Ids /\ Past(d) /\ ex[d] = p
        BY OwnFacts
      <4>2. cur[p] \notin cand[p]
        BY <3>1, <1>b DEF Collecting
      <4> QED  BY <3>1, <3>2, <4>1, <4>2, <1>a
    <3>8. pc'[p] = "gcOldLock" => name'[cur'[p]] # "working" /\ (name'[cur'[p]] = "final" => overtaken')
      BY <3>1, <3>2, <3>4, <1>a DEF RemoveDir
    <3>9. pc'[p] = "gcOldLock" => Past(cur[p])' /\ ex'[cur'[p]] = p /\ cur'[p] \notin cand'[p]
      <4>2. cur[p] \notin cand[p]
        BY <3>1, <1>b DEF Collecting
      <4>1. Made(cur[p]) => \A d : d = cur[p] => Made(d)'
        BY <3>4 DEF Frame
      <4> QED  BY <3>1, <3>2, <3>4, <3>8, <4>1, <4>2 DEF Past, Made
    <3>10. Collecting(p)'
      BY <3>1, <3>2, <3>3, <3>7, <3>8, <3>9, <2>e
    <3> QED  BY <3>6, <3>10
  <2>7. CASE GcOldLock(p)
    <3>1. /\ pc[p] = "gcOldLock" /\ pc'[p] = "gcStep" /\ garbage' = garbage /\ mapped' = mapped
          /\ cand' = cand /\ name' = name /\ ex' = [ex EXCEPT ![cur[p]] = NoProc]
          /\ lockFile' \in {lockFile, lockFile \ {cur[p]}}
      BY <2>7, <1>a DEF GcOldLock, Goto, gcVars, DeleteLockFile, Unlock
    <3>2. pc[p] \in CollectLabels /\ pc'[p] \in CollectLabels
      BY <3>1, <2>c
    <3>3. cur[p] \in Ids /\ Past(cur[p])
      BY <3>1, <1>b, OwnFacts DEF Collecting
    <3>4. result[p] = "active" => /\ ex'[sid[p]] = ex[sid[p]]
                                  /\ sid[p] \in lockFile => sid[p] \in lockFile'
      BY <3>1, <3>2, <3>3, <2>a, <2>b, <1>a
    <3>5. Session(p)' /\ Copying(p)'
      BY <3>1, <3>2, <3>4, <2>b, <2>d, SessionInGc
    <3>6. \A d \in cand'[p] : Past(d) /\ ex'[d] = p
      <4>1. cur[p] \notin cand[p]
        BY <3>1, <1>b DEF Collecting
      <4> QED  BY <3>1, <3>3, <4>1, <1>a, OwnFacts
    <3>7. Collecting(p)'
      BY <3>1, <3>2, <3>6, <2>e
    <3> QED  BY <3>5, <3>7
  <2>8. CASE AllExceptMostRecent(p)
    <3> DEFINE m == Newest(cand[p])
    <3>1. /\ pc[p] = "gcStep" /\ pc'[p] = "gcDelete" /\ garbage' = garbage /\ mapped' = mapped
          /\ name' = name /\ lockFile' = lockFile
      BY <2>8, <1>a DEF AllExceptMostRecent, Goto, dirVars
    <3>2. \/ ex' = ex /\ cand' = cand
          \/ cand[p] # {} /\ ex' = [ex EXCEPT ![m] = NoProc] /\ cand'[p] = cand[p] \ {m}
      BY <2>8, <1>a DEF AllExceptMostRecent, Unlock
    <3>3. pc[p] \in CollectLabels /\ pc'[p] \in CollectLabels
      BY <3>1, <2>c
    <3>4. cand[p] # {} => m \in Ids /\ Past(m)
      BY <1>a, NewestOf, OwnFacts
    <3> HIDE DEF m
    <3>5. result[p] = "active" => ex'[sid[p]] = ex[sid[p]]
      BY <3>2, <3>3, <3>4, <2>a, <2>b, <1>a
    <3>6. Session(p)' /\ Copying(p)'
      BY <3>1, <3>3, <3>5, <2>b, <2>d, SessionInGc
    <3>7. \A d \in cand'[p] : Past(d) /\ ex'[d] = p
      BY <3>2, <3>4, <2>f, <1>a
    <3>8. Collecting(p)'
      BY <3>1, <3>3, <3>7, <2>e
    <3> QED  BY <3>6, <3>8
  <2>9. ASSUME NEW d \in cand[p], GcDelete(p, d) PROVE Session(p)' /\ Copying(p)' /\ Collecting(p)'
    <3>1. /\ pc[p] = "gcDelete" /\ pc'[p] = "gcDeleting" /\ garbage' = garbage /\ mapped' = mapped
          /\ name' = name /\ lockFile' = lockFile /\ ex' = ex /\ cand' = cand /\ cur'[p] = d
      BY <2>9, <1>a DEF GcDelete, Goto, lockVars, gcVars
    <3>2. pc[p] \in CollectLabels /\ pc'[p] \in CollectLabels
      BY <3>1, <2>c
    <3>3. Session(p)' /\ Copying(p)'
      BY <3>1, <3>2, <2>b, <2>d, SessionInGc
    <3>4. \A c \in cand'[p] : Past(c) /\ ex'[c] = p
      BY <3>1, OwnFacts
    <3>5. Collecting(p)'
      BY <3>1, <3>2, <3>4, <2>e
    <3> QED  BY <3>3, <3>5
  <2>10. CASE GcDeleteDir(p)
    <3>1. /\ pc[p] = "gcDeleting" /\ garbage' = garbage /\ mapped' = mapped /\ lockFile' = lockFile
      BY <2>10 DEF GcDeleteDir
    <3>2. \/ /\ pc'[p] = "gcDelete" /\ ex' = [ex EXCEPT ![cur[p]] = NoProc] /\ name' = name
             /\ cand'[p] = cand[p] \ {cur[p]}
          \/ /\ pc'[p] = "gcDeleteLock" /\ ex' = ex /\ cur' = cur /\ RemoveDir(cur[p], "final")
             /\ cand' = cand
      BY <2>10, <1>a DEF GcDeleteDir, Goto, Unlock
    <3>3. pc[p] \in CollectLabels /\ pc'[p] \in CollectLabels
      BY <3>1, <3>2, <2>c
    <3>4. cur[p] \in Ids /\ Past(cur[p]) /\ cur[p] \in cand[p]
      BY <3>1, OwnFacts
    <3>5. result[p] = "active" => ex'[sid[p]] = ex[sid[p]] /\ name'[sid[p]] = name[sid[p]]
      BY <3>2, <3>3, <3>4, <2>a, <2>b, <1>a DEF RemoveDir
    <3>6. Session(p)' /\ Copying(p)'
      BY <3>1, <3>3, <3>5, <2>b, <2>d, SessionInGc
    <3>7. \A d \in cand'[p] : Past(d) /\ ex'[d] = p
      <4>1. CASE ex' = ex /\ cand' = cand
        BY <4>1, <2>f
      <4>2. CASE ex' = [ex EXCEPT ![cur[p]] = NoProc] /\ cand'[p] = cand[p] \ {cur[p]}
        BY <4>2, <3>4, <2>f, <1>a
      <4> QED  BY <3>2, <4>1, <4>2
    <3>8. pc'[p] = "gcDeleteLock" => name'[cur'[p]] # "final"
      BY <3>2, <3>4, <1>a DEF RemoveDir
    <3>9. Collecting(p)'
      BY <3>1, <3>2, <3>3, <3>4, <3>7, <3>8, <2>e
    <3> QED  BY <3>6, <3>9
  <2>11. CASE GcDeleteLock(p)
    <3>1. /\ pc[p] = "gcDeleteLock" /\ pc'[p] = "gcDelete" /\ garbage' = garbage /\ mapped' = mapped
          /\ name' = name /\ ex' = [ex EXCEPT ![cur[p]] = NoProc] /\ cand'[p] = cand[p] \ {cur[p]}
          /\ lockFile' \in {lockFile, lockFile \ {cur[p]}}
      BY <2>11, <1>a DEF GcDeleteLock, Goto, DeleteLockFile, Unlock
    <3>2. pc[p] \in CollectLabels /\ pc'[p] \in CollectLabels
      BY <3>1, <2>c
    <3>3. cur[p] \in Ids /\ Past(cur[p])
      BY <3>1, OwnFacts
    <3>4. result[p] = "active" => /\ ex'[sid[p]] = ex[sid[p]]
                                  /\ sid[p] \in lockFile => sid[p] \in lockFile'
      BY <3>1, <3>2, <3>3, <2>a, <2>b, <1>a
    <3>5. Session(p)' /\ Copying(p)'
      BY <3>1, <3>2, <3>4, <2>b, <2>d, SessionInGc
    <3>6. \A d \in cand'[p] : Past(d) /\ ex'[d] = p
      BY <3>1, <3>3, <2>f, <1>a
    <3>7. Collecting(p)'
      BY <3>1, <3>2, <3>6, <2>e
    <3> QED  BY <3>5, <3>7
  <2>12. CASE GcEnds(p)
    <3>1. /\ pc[p] = "gcDelete" /\ pc'[p] = AfterGc(p) /\ garbage' = garbage /\ mapped' = mapped
          /\ name' = name /\ lockFile' = lockFile /\ ex' = ex /\ cand'[p] = {}
      BY <2>12, <1>a DEF GcEnds, Goto, lockVars, dirVars, gcVars
    <3>2. pc[p] \in GcLabels
      BY <3>1, <2>b, <2>c
    <3>3. Session(p)' /\ Copying(p)'
      BY <3>1, <3>2, <2>d, SessionInGc
    <3>4. Collecting(p)'
      BY <3>1, NothingCollected DEF AfterGc, CollectLabels, DeleteLabels
    <3> QED  BY <3>3, <3>4
  <2> QED
    BY <1>d, <2>1, <2>2, <2>3, <2>4, <2>5, <2>6, <2>7, <2>8, <2>9, <2>10, <2>11, <2>12, <2>13
    DEF Collect
<1>e. CASE Crash(p)
  <2>1. /\ pc'[p] = "dead" /\ sid' = sid /\ clock' = clock /\ cand'[p] = {} /\ garbage'[p] = {}
        /\ mapped'[p] = {}
    BY <1>e, <1>a DEF Crash, Goto, dirVars
  <2>2. Collecting(p)'
    BY <2>1, NothingCollected DEF CollectLabels, DeleteLabels
  <2>3. Session(p)' /\ Copying(p)'
    BY <2>1, <1>b DEF Session, Copying, Holds, Inside, CopyLabels, EarlyLabels
  <2> QED  BY <2>2, <2>3
<1> QED  BY <1>c, <1>d, <1>e DEF Step

\* A process finds what it damages finalized.
LEMMA DamageStep ==
  ASSUME SessionInv, NEW p \in Procs, Frame(p), Step(p) \/ Crash(p)
  PROVE  \A d \in damaged' : Past(d)'
<1>1. ASSUME NEW d \in damaged' PROVE d \in Ids /\ Past(d)
  <2>a. NextGarbage(garbage[p])[1] = d /\ pc[p] = "gcGarbage" => d \in Ids
    <3>1. pc[p] = "gcGarbage" => NextGarbage(garbage[p]) \in garbage[p] /\ garbage[p] \subseteq Entry
      BY NextGarbageOf DEF SessionInv, TypeOK, Collecting
    <3> QED  BY <3>1 DEF Entry
  <2>1. \/ d \in damaged \/ \E c \in cand[p] : d = c
        \/ NextGarbage(garbage[p])[1] = d /\ pc[p] = "gcGarbage" /\ name[d] = "final"
    BY <1>1 DEF Step, Prepare, Finalize, Collect, Crash, OpenLock, LockDirectory, CreateDir,
                FindSourceDirectory, CopyOpen, CopyLock, CopyFiles, Undo, UndoLock, Rename, RenameFails,
                Publish, Invalidate, InvalidateLock, InvalidateRename, GcScan, GcGarbage, GcRemove, GcInspect,
                GcLockFinal, GcLockOld, GcOldDir, GcOldLock, AllExceptMostRecent, GcDelete, GcDeleteDir,
                GcDeleteLock, GcEnds, dirVars
  <2>2. NextGarbage(garbage[p])[1] = d /\ pc[p] = "gcGarbage" /\ name[d] = "final" => d \in Ids /\ Past(d)
    BY <2>a, SeenMade
  <2> QED  BY <2>1, <2>2, KnownIds, OwnFacts DEF SessionInv
<1> QED  BY <1>1 DEF Frame

\* Identifiers are allocated once.
LEMMA SidStep ==
  ASSUME SessionInv, NEW p \in Procs, Frame(p), Step(p) \/ Crash(p)
  PROVE  /\ \A q, r \in Procs : sid'[q] = sid'[r] /\ sid'[q] # 0 => q = r
         /\ \A d \in Ids : d > clock' => name'[d] = "none"
<1>a. sid \in [Procs -> 0 .. MaxId] /\ clock \in Nat /\ MaxId \in Nat /\ Ids \subseteq Nat
  BY KnownIds DEF SessionInv, TypeOK, Ids
<1>b. \A q \in Procs : sid[q] <= clock
  BY DEF SessionInv, Session
<1>1. ASSUME NEW d \in Ids, d > clock' PROVE name'[d] = "none"
  <2>1. d > clock
    BY <1>1, <1>a DEF Frame
  <2> QED  BY <2>1 DEF Frame, SessionInv
<1>2. sid' = sid \/ sid' = [sid EXCEPT ![p] = clock + 1]
  BY DEF Step, Prepare, Finalize, Collect, Crash, OpenLock, LockDirectory, CreateDir,
         FindSourceDirectory, CopyOpen, CopyLock, CopyFiles, Undo, UndoLock, Rename, RenameFails,
         Publish, Invalidate, InvalidateLock, InvalidateRename, GcScan, GcGarbage, GcRemove, GcInspect,
         GcLockFinal, GcLockOld, GcOldDir, GcOldLock, AllExceptMostRecent, GcDelete, GcDeleteDir,
         GcDeleteLock, GcEnds, ownVars
<1>3. ASSUME NEW q \in Procs, NEW r \in Procs, sid'[q] = sid'[r], sid'[q] # 0 PROVE q = r
  <2>1. sid[q] = sid[r] /\ sid[q] # 0 => q = r
    BY DEF SessionInv
  <2>2. sid[q] \in Nat /\ sid[r] \in Nat /\ sid[q] <= clock /\ sid[r] <= clock
    BY <1>a, <1>b
  <2> QED  BY <1>2, <1>3, <2>1, <2>2, <1>a
<1> QED  BY <1>1, <1>3

\* Every step of every process keeps the invariant: p by its own step, the
\* others by the frame.
LEMMA SessionInvStep == SessionInv /\ [Next]_vars => SessionInv'
<1> SUFFICES ASSUME SessionInv, [Next]_vars PROVE SessionInv'
  OBVIOUS
<1>1. CASE UNCHANGED vars
  <2>1. \A d : (Made(d)' <=> Made(d)) /\ (Past(d)' <=> Past(d))
    BY <1>1 DEF vars, dirVars, ownVars, Made, Past
  <2>2. \A p \in Procs : Session(p)' /\ Copying(p)' /\ Collecting(p)'
    <3> SUFFICES ASSUME NEW p \in Procs PROVE Session(p)' /\ Copying(p)' /\ Collecting(p)'
      OBVIOUS
    <3>1. Session(p) /\ Copying(p) /\ Collecting(p)
      BY DEF SessionInv
    <3>2. Session(p)'
      BY <1>1, <3>1 DEF vars, dirVars, ownVars, lockVars, Session, Holds, Inside
    <3>3. Copying(p)' /\ Collecting(p)'
      BY <1>1, <3>1
      DEF vars, envVars, dirVars, ownVars, lockVars, gcVars, Copying, Collecting, Removing, Made, Past
    <3> QED  BY <3>2, <3>3
  <2>3. TypeOK'
    BY <1>1 DEF SessionInv, TypeOK, vars, envVars, dirVars, ownVars, lockVars, gcVars
  <2> QED  BY <1>1, <2>1, <2>2, <2>3 DEF SessionInv, vars, dirVars, ownVars
<1>2. ASSUME NEW p \in Procs, Step(p) \/ Crash(p) PROVE SessionInv'
  <2>1. Frame(p)
    BY <1>2, FrameStep
  <2>2. \A q \in Procs : Session(q)' /\ Copying(q)' /\ Collecting(q)'
    BY <1>2, <2>1, OwnStep, OthersGoOn
  <2>3. TypeOK'
    BY <1>2, TypeStep
  <2> QED  BY <1>2, <2>1, <2>2, <2>3, DamageStep, SidStep DEF SessionInv
<1> QED  BY <1>1, <1>2 DEF Next

\* What earlier sessions left behind satisfies it.
LEMMA SessionInvInit == Init => SessionInv
<1> SUFFICES ASSUME Init PROVE SessionInv
  OBVIOUS
<1>a. Earlier \subseteq Ids /\ Len(Leftover) \in Nat /\ \A d \in Earlier : Leftover[d] \in {"final", "working", "lock"}
  BY LeftoverAssumption DEF Earlier, Ids
<1>1. TypeOK
  <2>1. name \in [Ids -> Names]
    BY <1>a DEF Init, Names
  <2>2. lockFile \in SUBSET Ids /\ clock \in 0 .. MaxId
    BY <1>a, LeftoverAssumption DEF Init
  <2>3. faults \in 0 .. MaxFaults
    BY FaultsAssumption DEF Init
  <2>7. overtaken \in BOOLEAN
    BY Zenon DEF Init
  <2>4. pc \in [Procs -> Labels] /\ result \in [Procs -> {"active", "finalized", "invalid"}]
    BY DEF Init, Labels
  <2>5. sid \in [Procs -> 0 .. MaxId] /\ cur \in [Procs -> 0 .. MaxId]
    BY LeftoverAssumption DEF Init
  <2>6. LockTypes /\ GcTypes /\ damaged \in SUBSET Ids /\ tried \in [Procs -> SUBSET Ids]
    BY DEF Init, LockTypes, GcTypes
  <2> QED  BY <2>1, <2>2, <2>3, <2>4, <2>5, <2>6, <2>7 DEF TypeOK, LockTypes, GcTypes
<1>2. \A d \in Ids : d > clock => name[d] = "none"
  BY <1>a, LeftoverAssumption DEF Init, Earlier, Ids
<1>3. ASSUME NEW p \in Procs PROVE Session(p) /\ Copying(p) /\ Collecting(p)
  BY <1>a DEF Init, Session, Copying, Collecting, Holds, Inside, CopyLabels
<1> QED  BY <1>1, <1>2, <1>3 DEF Init, SessionInv

\* The inductive invariant of the sessions: locks, lock files and directories.
THEOREM SessionInvariant == Spec => []SessionInv
BY SessionInvInit, SessionInvStep, PTL DEF Spec

\* Every variable keeps its type, and no lock is held both ways.
THEOREM SessionTypes == Spec => []TypeOK
<1>1. SessionInv => TypeOK
  BY DEF SessionInv
<1> QED  BY <1>1, SessionInvariant, PTL

\* Garbage collection never takes a session's directory or lock file away while
\* the session is in it, for any number of processes and leftovers.
THEOREM SessionKeepsDir == Spec => []OwnDirKept
<1>1. SessionInv => OwnDirKept
  BY DEF SessionInv, Session, OwnDirKept
<1> QED  BY <1>1, SessionInvariant, PTL

-------------------------------------------------------------------------------
(* Where sources come from, and sessions with errors *)

\* What a step of p does to directories that may be copied from.
LEMMA SourceFacts ==
  ASSUME SessionInv, NEW p \in Procs, Step(p) \/ Crash(p)
  PROVE  /\ MayBeFinal(p) => MayBeFinal(p)'
         /\ \A d \in Ids : name'[d] = "final" /\ name[d] # "final" =>
              d = sid[p] /\ sid' = sid /\ MayBeFinal(p)'
         /\ pc'[p] \in CopyLabels =>
              /\ sid' = sid
              /\ \/ pc[p] \in CopyLabels /\ cur'[p] = cur[p]
                 \/ cur'[p] \in Ids /\ name[cur'[p]] = "final"
         /\ sid' = sid \/ (sid' = [sid EXCEPT ![p] = clock + 1] /\ name' = name)
<1>a. /\ pc \in [Procs -> Labels] /\ cur \in [Procs -> 0 .. MaxId] /\ name \in [Ids -> Names]
      /\ result \in [Procs -> {"active", "finalized", "invalid"}]
  BY DEF SessionInv, TypeOK
<1>b. pc[p] \in {"compile", "invalidLock"} => result[p] = "active"
  BY EarlyHolds
<1>1. CASE Prepare(p)
  <2>1. MayBeFinal(p) => MayBeFinal(p)'
    BY <1>1, <1>a DEF MayBeFinal, Prepare, OpenLock, LockDirectory, CreateDir, FindSourceDirectory,
                      CopyOpen, CopyLock, CopyFiles, Undo, UndoLock, Goto, ownVars
  <2>2. \A d \in Ids : name'[d] = "final" => name[d] = "final"
    BY <1>1, <1>a DEF Prepare, OpenLock, LockDirectory, CreateDir, FindSourceDirectory, CopyOpen,
                      CopyLock, CopyFiles, Undo, UndoLock, RemoveOrWarn, RemoveDir, dirVars
  <2>3. pc'[p] \in CopyLabels =>
          /\ sid' = sid
          /\ \/ pc[p] \in CopyLabels /\ cur'[p] = cur[p]
             \/ cur'[p] \in Ids /\ name[cur'[p]] = "final"
    <3>1. CASE FindSourceDirectory(p)
      <4> DEFINE found == {d \in Ids : name[d] = "final"} \ tried[p]
      <4>1. found # {} => Newest(found) \in found
        BY NewestOf
      <4> QED  BY <3>1, <4>1, <1>a DEF FindSourceDirectory, Goto, CopyLabels
    <3>2. CASE ~FindSourceDirectory(p)
      BY <1>1, <3>2, <1>a DEF Prepare, OpenLock, LockDirectory, CreateDir, CopyOpen, CopyLock, CopyFiles,
                              Undo, UndoLock, Goto, CopyLabels, ownVars
    <3> QED  BY <3>1, <3>2
  <2>4. sid' = sid \/ (sid' = [sid EXCEPT ![p] = clock + 1] /\ name' = name)
    BY <1>1 DEF Prepare, OpenLock, LockDirectory, CreateDir, FindSourceDirectory, CopyOpen, CopyLock,
                CopyFiles, Undo, UndoLock, ownVars
  <2> QED  BY <2>1, <2>2, <2>3, <2>4
<1>2. CASE Finalize(p)
  <2>1. MayBeFinal(p) => MayBeFinal(p)'
    BY <1>2, <1>a, <1>b
    DEF MayBeFinal, Finalize, Rename, RenameFails, Publish, Invalidate, InvalidateLock,
                            InvalidateRename, Goto, ownVars
  <2>2. \A d \in Ids : name'[d] = "final" /\ name[d] # "final" => d = sid[p] /\ MayBeFinal(p)'
    BY <1>2, <1>a DEF MayBeFinal, Finalize, Rename, RenameFails, Publish, Invalidate, InvalidateLock,
                      InvalidateRename, Goto, RemoveOrWarn, RemoveDir, dirVars
  <2>3. sid' = sid /\ pc'[p] \notin CopyLabels
    BY <1>2, <1>a DEF Finalize, Rename, RenameFails, Publish, Invalidate, InvalidateLock,
                      InvalidateRename, Goto, CopyLabels, ownVars
  <2> QED  BY <2>1, <2>2, <2>3
<1>3. CASE Collect(p) \/ Crash(p)
  <2>1. MayBeFinal(p) => MayBeFinal(p)'
    BY <1>3, <1>a
    DEF MayBeFinal, Collect, GcScan, GcGarbage, GcRemove, GcInspect, GcLockFinal, GcLockOld, GcOldDir,
                      GcOldLock, AllExceptMostRecent, GcDelete, GcDeleteDir, GcDeleteLock, GcEnds, Crash,
                      Goto, ownVars
  <2>2. \A d \in Ids : name'[d] = "final" => name[d] = "final"
    BY <1>3, <1>a DEF Collect, GcScan, GcGarbage, GcRemove, GcInspect, GcLockFinal, GcLockOld, GcOldDir,
                      GcOldLock, AllExceptMostRecent, GcDelete, GcDeleteDir, GcDeleteLock, GcEnds, Crash,
                      RemoveOrWarn, RemoveDir, dirVars
  <2>3. sid' = sid /\ pc'[p] \notin CopyLabels
    BY <1>3, <1>a DEF Collect, GcScan, GcGarbage, GcRemove, GcInspect, GcLockFinal, GcLockOld, GcOldDir,
                      GcOldLock, AllExceptMostRecent, GcDelete, GcDeleteDir, GcDeleteLock, GcEnds, Crash,
                      AfterGc, Goto, CopyLabels, ownVars
  <2> QED  BY <2>1, <2>2, <2>3
<1> QED  BY <1>1, <1>2, <1>3 DEF Step

\* Every step keeps sources final.
LEMMA SourceInvStep == SessionInv /\ SourceInv /\ [Next]_vars => SourceInv'
<1> SUFFICES ASSUME SessionInv, SourceInv, [Next]_vars PROVE SourceInv'
  OBVIOUS
<1>1. CASE UNCHANGED vars
  BY <1>1 DEF SourceInv, MayBeFinal, vars, dirVars, ownVars
<1>2. ASSUME NEW p \in Procs, Step(p) \/ Crash(p) PROVE SourceInv'
  <2>a. Others(p) /\ clock \in Nat /\ sid \in [Procs -> 0 .. MaxId] /\ MaxId \in Nat
    BY <1>2, FrameStep, KnownIds DEF Frame, SessionInv, TypeOK
  <2>b. ASSUME NEW q \in Procs, MayBeFinal(q) PROVE MayBeFinal(q)'
    BY <1>2, <2>a, <2>b, SourceFacts DEF Others, MayBeFinal
  <2>c. ASSUME NEW r \in Procs, pc[r] \in CopyLabels PROVE cur[r] \in 1 .. clock
    BY <2>c DEF SessionInv, Copying, Past, Made
  <2> SUFFICES ASSUME NEW q \in Procs, sid'[q] # 0
               PROVE  /\ name'[sid'[q]] = "final" => MayBeFinal(q)'
                      /\ \A r \in Procs : pc'[r] \in CopyLabels /\ cur'[r] = sid'[q] => MayBeFinal(q)'
    BY DEF SourceInv
  <2>d. sid'[q] \in Ids /\ \A u, v \in Procs : sid'[u] = sid'[v] /\ sid'[u] # 0 => u = v
    BY <1>2, TypeStep, FrameStep, SidStep DEF TypeOK, Ids
  <2>1. CASE sid' = sid
    <3>1. name'[sid[q]] = "final" => MayBeFinal(q)'
      <4>1. CASE name[sid[q]] = "final"
        BY <2>1, <4>1, <2>b DEF SourceInv
      <4>2. CASE name[sid[q]] # "final"
        <5>1. name'[sid[q]] = "final" => sid[q] = sid[p] /\ MayBeFinal(p)'
          BY <1>2, <2>1, <2>d, <4>2, SourceFacts
        <5>2. sid[q] = sid[p] => q = p
          BY <2>1, <2>d
        <5> QED  BY <5>1, <5>2
      <4> QED  BY <4>1, <4>2
    <3>2. ASSUME NEW r \in Procs, pc'[r] \in CopyLabels, cur'[r] = sid[q] PROVE MayBeFinal(q)'
      <4>1. \/ pc[r] \in CopyLabels /\ cur'[r] = cur[r]
            \/ name[cur'[r]] = "final"
        BY <1>2, <2>a, <3>2, SourceFacts DEF Others
      <4> QED  BY <2>1, <2>b, <3>2, <4>1 DEF SourceInv
    <3> QED  BY <2>1, <3>1, <3>2
  <2>2. CASE sid' # sid
    <3>1. sid' = [sid EXCEPT ![p] = clock + 1] /\ name' = name /\ pc'[p] \notin CopyLabels
      BY <1>2, <2>2, SourceFacts
    <3>2. CASE q = p
      <4>1. sid'[q] = clock + 1 /\ name[clock + 1] = "none"
        BY <2>a, <2>d, <3>1, <3>2 DEF SessionInv
      <4>2. \A r \in Procs : pc'[r] \in CopyLabels => cur'[r] \in 1 .. clock
        BY <2>a, <2>c, <3>1 DEF Others
      <4> QED  BY <2>a, <3>1, <4>1, <4>2
    <3>3. CASE q # p
      <4>1. sid'[q] = sid[q]
        BY <2>a, <3>1, <3>3
      <4>2. \A r \in Procs : pc'[r] \in CopyLabels => pc[r] \in CopyLabels /\ cur'[r] = cur[r]
        BY <2>a, <3>1 DEF Others
      <4> QED  BY <2>b, <3>1, <4>1, <4>2 DEF SourceInv
    <3> QED  BY <3>2, <3>3
  <2> QED  BY <2>1, <2>2
<1> QED  BY <1>1, <1>2 DEF Next

\* No process copies at first.
LEMMA SourceInvInit == Init => SourceInv
BY DEF Init, SourceInv

\* What a step of p does about errors.
LEMMA ErrorFacts ==
  ASSUME SessionInv, NEW p \in Procs, Step(p) \/ Crash(p)
  PROVE  /\ faults' \in {faults, faults + 1}
         /\ result'[p] = "invalid" /\ result[p] # "invalid" =>
              pc[p] \in {"compile", "invalidLock"} /\ name' = name /\ sid' = sid
         /\ pc'[p] \in {"invalidLock", "invalidRename"} => sid' = sid /\ sid[p] \in Ids
         /\ pc'[p] = "invalidLock" => name'[sid[p]] # "working" \/ faults' = faults + 1
         /\ pc'[p] = "invalidRename" =>
              /\ pc[p] = "invalidLock" /\ name' = name
              /\ faults' = faults + 1 \/ sid[p] \notin lockFile'
         /\ name'[sid[p]] = "final" /\ name[sid[p]] # "final" =>
              \/ pc[p] = "compile" /\ result' = result
              \/ pc[p] = "invalidRename" /\ name[sid[p]] = "working" /\ lockFile' = lockFile
         /\ pc'[p] = "copyOpen" => cur[p] \in lockFile /\ pc[p] = "source" /\ cur' = cur
         /\ pc'[p] = "copying" => pc[p] = "copyOpen" /\ cur' = cur
         /\ pc'[p] = "source" => cur'[p] \in Ids /\ name[cur'[p]] = "final"
         /\ \A d \in Ids : name'[d] = "working" /\ name[d] # "working" => d = sid[p] /\ pc'[p] = "created"
         /\ pc[p] \in {"invalidLock", "invalidRename"} \/ result[p] = "invalid" => sid' = sid
<1>a. /\ pc \in [Procs -> Labels] /\ cur \in [Procs -> 0 .. MaxId] /\ name \in [Ids -> Names]
      /\ result \in [Procs -> {"active", "finalized", "invalid"}]
  BY DEF SessionInv, TypeOK
<1>b. /\ pc[p] \in {"start", "opened", "locked", "created"} => result[p] = "active"
      /\ pc[p] \notin {"start", "dead"} => sid[p] \in Ids
  BY OwnFacts DEF EarlyLabels, Labels, GcLabels, CollectLabels, DeleteLabels
<1>1. CASE Prepare(p)
  <2>1. /\ faults' \in {faults, faults + 1}
        /\ result' = result /\ pc'[p] \notin {"invalidLock", "invalidRename"}
        /\ pc[p] \in {"invalidLock", "invalidRename"} \/ result[p] = "invalid" => sid' = sid
    BY <1>1, <1>a, <1>b DEF Prepare, OpenLock, LockDirectory, CreateDir, FindSourceDirectory, CopyOpen,
                CopyLock, CopyFiles, Undo, UndoLock, RemoveOrWarn, DeleteLockFile, Fault, Goto, envVars, ownVars
  <2>2. \A d \in Ids : name'[d] = "working" /\ name[d] # "working" => d = sid[p] /\ pc'[p] = "created"
    BY <1>1, <1>a, <1>b DEF Prepare, OpenLock, LockDirectory, CreateDir, FindSourceDirectory, CopyOpen,
                CopyLock, CopyFiles, Undo, UndoLock, RemoveOrWarn, RemoveDir, Goto, dirVars
  <2>3. /\ pc'[p] = "copyOpen" => cur[p] \in lockFile /\ pc[p] = "source" /\ cur' = cur
        /\ pc'[p] = "copying" => pc[p] = "copyOpen" /\ cur' = cur
        /\ pc'[p] = "source" => pc[p] \notin CopyLabels
    BY <1>1, <1>a DEF Prepare, OpenLock, LockDirectory, CreateDir, FindSourceDirectory, CopyOpen,
                CopyLock, CopyFiles, Undo, UndoLock, Goto, CopyLabels
  <2>4. name'[sid[p]] = "final" => name[sid[p]] = "final"
    BY <1>1, <1>a DEF Prepare, OpenLock, LockDirectory, CreateDir, FindSourceDirectory, CopyOpen,
                CopyLock, CopyFiles, Undo, UndoLock, RemoveOrWarn, RemoveDir, dirVars
  <2> QED  BY <2>1, <2>2, <2>3, <2>4, SourceFacts DEF CopyLabels
<1>2. CASE Finalize(p)
  <2>1. faults' \in {faults, faults + 1} /\ sid' = sid /\ sid[p] \in Ids
    BY <1>2, <1>b
    DEF Finalize, Rename, RenameFails, Publish, Invalidate, InvalidateLock, InvalidateRename,
                RemoveOrWarn, DeleteLockFile, Fault, envVars, ownVars
  <2>2. result'[p] = "invalid" /\ result[p] # "invalid" => pc[p] \in {"compile", "invalidLock"} /\ name' = name
    BY <1>2, <1>a
    DEF Finalize, Rename, RenameFails, Publish, Invalidate, InvalidateLock, InvalidateRename,
                ownVars, dirVars
  <2>3. /\ pc'[p] = "invalidLock" => name'[sid[p]] # "working" \/ faults' = faults + 1
        /\ pc'[p] = "invalidRename" =>
              /\ pc[p] = "invalidLock" /\ name' = name
              /\ faults' = faults + 1 \/ sid[p] \notin lockFile'
    BY <1>2, <1>a, <1>b DEF Finalize, Rename, RenameFails, Publish, Invalidate, InvalidateLock,
                InvalidateRename, RemoveOrWarn, RemoveDir, DeleteLockFile, Fault, Goto
  <2>4. name'[sid[p]] = "final" /\ name[sid[p]] # "final" =>
              \/ pc[p] = "compile" /\ result' = result
              \/ pc[p] = "invalidRename" /\ name[sid[p]] = "working" /\ lockFile' = lockFile
    BY <1>2, <1>a, <1>b DEF Finalize, Rename, RenameFails, Publish, Invalidate, InvalidateLock,
                InvalidateRename, RemoveOrWarn, RemoveDir, dirVars, ownVars
  <2>5. pc'[p] \notin CopyLabels
    BY <1>2, <1>a
    DEF Finalize, Rename, RenameFails, Publish, Invalidate, InvalidateLock, InvalidateRename,
                Goto, CopyLabels
  <2>6. \A d \in Ids : name'[d] = "working" => name[d] = "working"
    BY <1>2, <1>a DEF Finalize, Rename, RenameFails, Publish, Invalidate, InvalidateLock,
                InvalidateRename, RemoveOrWarn, RemoveDir, dirVars
  <2> QED  BY <2>1, <2>2, <2>3, <2>4, <2>5, <2>6 DEF CopyLabels
<1>3. CASE Collect(p) \/ Crash(p)
  <2>1. faults' \in {faults, faults + 1} /\ sid' = sid /\ result' = result
    BY <1>3 DEF Collect, GcScan, GcGarbage, GcRemove, GcInspect, GcLockFinal, GcLockOld, GcOldDir,
                GcOldLock, AllExceptMostRecent, GcDelete, GcDeleteDir, GcDeleteLock, GcEnds, Crash,
                RemoveOrWarn, DeleteLockFile, Fault, envVars, ownVars
  <2>2. pc'[p] \notin CopyLabels \cup {"invalidLock", "invalidRename"}
    BY <1>3, <1>a DEF Collect, GcScan, GcGarbage, GcRemove, GcInspect, GcLockFinal, GcLockOld, GcOldDir,
                GcOldLock, AllExceptMostRecent, GcDelete, GcDeleteDir, GcDeleteLock, GcEnds, Crash,
                AfterGc, Goto, CopyLabels
  <2>3. \A d \in Ids : name'[d] \in {"final", "working"} => name'[d] = name[d]
    BY <1>3, <1>a DEF Collect, GcScan, GcGarbage, GcRemove, GcInspect, GcLockFinal, GcLockOld, GcOldDir,
                GcOldLock, AllExceptMostRecent, GcDelete, GcDeleteDir, GcDeleteLock, GcEnds, Crash,
                RemoveOrWarn, RemoveDir, dirVars
  <2>4. sid[p] \in Ids \/ name' = name
    BY <1>3, <1>b DEF Collect, GcScan, GcGarbage, GcRemove, GcInspect, GcLockFinal, GcLockOld, GcOldDir,
                GcOldLock, AllExceptMostRecent, GcDelete, GcDeleteDir, GcDeleteLock, GcEnds, Crash, dirVars
  <2> QED  BY <2>1, <2>2, <2>3, <2>4 DEF CopyLabels
<1> QED  BY <1>1, <1>2, <1>3 DEF Step

\* Every step keeps what a session with errors left out of reach.
LEMMA ErrorsInvStep == SessionInv /\ SourceInv /\ ErrorsInv /\ [Next]_vars => ErrorsInv'
<1> SUFFICES ASSUME SessionInv, SourceInv, ErrorsInv, [Next]_vars PROVE ErrorsInv'
  OBVIOUS
<1>1. CASE UNCHANGED vars
  BY <1>1 DEF ErrorsInv, vars, envVars, dirVars, ownVars
<1>2. ASSUME NEW p \in Procs, Step(p) \/ Crash(p) PROVE ErrorsInv'
  <2> SUFFICES ASSUME faults' <= 1, NEW q \in Procs
               PROVE  /\ result'[q] = "invalid" => sid'[q] \in Ids
                      /\ pc'[q] = "invalidLock" /\ name'[sid'[q]] = "working" => faults' = 1
                      /\ pc'[q] = "invalidRename" /\ name'[sid'[q]] = "working" => sid'[q] \notin lockFile'
                      /\ result'[q] = "invalid" /\ name'[sid'[q]] = "final" => sid'[q] \notin lockFile'
                      /\ result'[q] = "invalid" => \A r \in Procs :
                           /\ pc'[r] = "source" /\ cur'[r] = sid'[q] => sid'[q] \notin lockFile'
                           /\ pc'[r] \in {"copyOpen", "copying"} => cur'[r] # sid'[q]
    BY DEF ErrorsInv
  <2>a. Others(p) /\ \A d \in Ids : d <= clock /\ d \notin lockFile => d \notin lockFile'
    BY <1>2, FrameStep DEF Frame
  <2>b. faults \in Nat /\ faults' \in Nat /\ faults <= faults' /\ faults <= 1
    BY <1>2, ErrorFacts, FaultsAssumption DEF SessionInv, TypeOK
  <2>c. /\ result[q] = "invalid" => sid[q] \in Ids
        /\ pc[q] = "invalidLock" /\ name[sid[q]] = "working" => faults = 1
        /\ pc[q] = "invalidRename" /\ name[sid[q]] = "working" => sid[q] \notin lockFile
        /\ result[q] = "invalid" /\ name[sid[q]] = "final" => sid[q] \notin lockFile
        /\ result[q] = "invalid" => \A r \in Procs :
             /\ pc[r] = "source" /\ cur[r] = sid[q] => sid[q] \notin lockFile
             /\ pc[r] \in {"copyOpen", "copying"} => cur[r] # sid[q]
    BY <2>b DEF ErrorsInv
  <2>d. /\ sid[q] <= clock
        /\ pc[q] \notin {"start", "dead"} => sid[q] \in Ids
        /\ \A r \in Procs \ {q} : sid[q] # 0 => sid[r] # sid[q]
        /\ 0 \notin Ids
    BY LeftoverAssumption DEF SessionInv, Session, Ids
  <2>e. sid[q] \in Ids /\ sid[q] \notin lockFile => sid[q] \notin lockFile'
    BY <2>a, <2>d
  <2>f. pc[q] \in {"compile", "invalidLock"} =>
          /\ result[q] = "active" /\ sid[q] \in Ids /\ ~MayBeFinal(q)
          /\ name[sid[q]] # "final"
          /\ \A r \in Procs : pc[r] \in CopyLabels => cur[r] # sid[q]
    BY <2>d, EarlyHolds DEF SourceInv, MayBeFinal
  \* The fields of q that matter stay, and so does what it is called.
  <2>g. result'[q] = "invalid" =>
          /\ sid'[q] = sid[q] /\ sid[q] \in Ids
          /\ result[q] = "invalid" \/ (q = p /\ pc[q] \in {"compile", "invalidLock"} /\ name' = name)
    <3>1. CASE q = p
      BY <1>2, <2>c, <2>f, <3>1, ErrorFacts
    <3>2. CASE q # p
      BY <2>a, <2>c, <3>2 DEF Others
    <3> QED  BY <3>1, <3>2
  <2>1. pc'[q] = "invalidLock" /\ name'[sid'[q]] = "working" => faults' = 1
    <3>1. CASE q = p
      <4>1. pc'[q] = "invalidLock" => sid' = sid /\ (name'[sid[q]] # "working" \/ faults' = faults + 1)
        BY <1>2, <3>1, ErrorFacts
      <4> QED  BY <2>b, <4>1
    <3>2. CASE q # p
      <4>1. pc'[q] = pc[q] /\ sid'[q] = sid[q]
        BY <2>a, <3>2 DEF Others
      <4>2. pc[q] = "invalidLock" /\ name'[sid[q]] = "working" => name[sid[q]] = "working"
        BY <1>2, <2>d, <3>2, ErrorFacts
      <4> QED  BY <2>b, <2>c, <4>1, <4>2
    <3> QED  BY <3>1, <3>2
  <2>2. pc'[q] = "invalidRename" /\ name'[sid'[q]] = "working" => sid'[q] \notin lockFile'
    <3>1. CASE q = p
      <4>1. pc'[q] = "invalidRename" => /\ sid' = sid /\ name' = name /\ pc[q] = "invalidLock"
                                        /\ faults' = faults + 1 \/ sid[q] \notin lockFile'
        BY <1>2, <3>1, ErrorFacts
      <4> QED  BY <2>b, <2>c, <4>1
    <3>2. CASE q # p
      <4>1. pc'[q] = pc[q] /\ sid'[q] = sid[q]
        BY <2>a, <3>2 DEF Others
      <4>2. pc[q] = "invalidRename" /\ name'[sid[q]] = "working" => name[sid[q]] = "working" /\ sid[q] \in Ids
        BY <1>2, <2>d, <3>2, ErrorFacts
      <4> QED  BY <2>c, <2>e, <4>1, <4>2
    <3> QED  BY <3>1, <3>2
  <2>3. ASSUME result'[q] = "invalid", name'[sid[q]] = "final" PROVE sid[q] \notin lockFile'
    <3>1. CASE result[q] = "invalid" /\ name[sid[q]] = "final"
      BY <2>c, <2>e, <3>1
    <3>2. CASE result[q] = "invalid" /\ name[sid[q]] # "final"
      <4>1. q = p
        BY <1>2, <2>c, <2>d, <2>3, <3>2, SourceFacts
      <4>2. pc[q] = "invalidRename" /\ name[sid[q]] = "working" /\ lockFile' = lockFile
        BY <1>2, <2>3, <2>f, <3>2, <4>1, ErrorFacts
      <4> QED  BY <2>c, <4>2
    <3>3. CASE result[q] # "invalid"
      BY <2>3, <2>f, <2>g, <3>3
    <3> QED  BY <3>1, <3>2, <3>3
  <2>4. ASSUME result'[q] = "invalid", NEW r \in Procs
        PROVE  /\ pc'[r] = "source" /\ cur'[r] = sid[q] => sid[q] \notin lockFile'
               /\ pc'[r] \in {"copyOpen", "copying"} => cur'[r] # sid[q]
    <3>1. /\ pc'[r] = "source" => (pc[r] = "source" /\ cur'[r] = cur[r]) \/ name[cur'[r]] = "final"
          /\ pc'[r] = "copyOpen" => /\ cur'[r] = cur[r]
                                    /\ pc[r] = "copyOpen" \/ (pc[r] = "source" /\ cur[r] \in lockFile)
          /\ pc'[r] = "copying" => cur'[r] = cur[r] /\ pc[r] \in {"copyOpen", "copying"}
      <4>1. CASE r = p
        BY <1>2, <4>1, ErrorFacts
      <4>2. CASE r # p
        BY <2>a, <4>2 DEF Others
      <4> QED  BY <4>1, <4>2
    <3>2. CASE result[q] = "invalid"
      BY <2>c, <2>e, <2>g, <2>4, <3>1, <3>2
    <3>3. CASE result[q] # "invalid"
      <4>1. /\ name[sid[q]] # "final"
            /\ \A u \in Procs : pc[u] \in {"source", "copyOpen", "copying"} => cur[u] # sid[q]
        BY <2>4, <2>f, <2>g, <3>3 DEF CopyLabels
      <4> QED  BY <3>1, <4>1
    <3> QED  BY <3>2, <3>3
  <2> QED  BY <2>1, <2>2, <2>3, <2>4, <2>g
<1> QED  BY <1>1, <1>2 DEF Next

\* No session has had errors at first.
LEMMA ErrorsInvInit == Init => ErrorsInv
BY DEF Init, ErrorsInv

\* A session that had errors is never copied from, unless two file system
\* operations failed: neither its directory nor its lock file could be removed.
THEOREM ErrorsStayPrivate == Spec => []ErrorsNeverCopied
<1>1. SessionInv /\ SourceInv /\ ErrorsInv /\ [Next]_vars => ErrorsInv'
  BY ErrorsInvStep
<1>2. SessionInv /\ SourceInv /\ [Next]_vars => SourceInv'
  BY SourceInvStep
<1>3. ErrorsInv => ErrorsNeverCopied
  BY DEF ErrorsInv, ErrorsNeverCopied
<1> QED  BY <1>1, <1>2, <1>3, SourceInvInit, ErrorsInvInit, SessionInvariant, PTL DEF Spec

-------------------------------------------------------------------------------
(* Directories that are copied from and lock files *)

\* The lock file of a finalized directory is deleted only if the directory was
\* published since the collector saw it as a working one.
LEMMA LockFileGone ==
  ASSUME SessionInv, SourceInv, NEW p \in Procs, Step(p) \/ Crash(p), overtaken' = FALSE,
         NEW d \in Ids, d \in lockFile, d \notin lockFile'
  PROVE  name[d] # "final"
<1>1. \/ UndoLock(p) \/ InvalidateLock(p) \/ GcOldLock(p) \/ GcDeleteLock(p)
  BY DEF Step, Prepare, Finalize, Collect, Crash, OpenLock, LockDirectory, CreateDir,
         FindSourceDirectory, CopyOpen, CopyLock, CopyFiles, Undo, Rename, RenameFails,
         Publish, Invalidate, InvalidateRename, GcScan, GcGarbage, GcRemove, GcInspect,
         GcLockFinal, GcLockOld, GcOldDir, AllExceptMostRecent, GcDelete, GcDeleteDir,
         GcEnds, HasTimestamp, dirVars
<1>2. CASE UndoLock(p) \/ InvalidateLock(p)
  <2>1. d = sid[p] /\ pc[p] \in {"undoLock", "invalidLock"}
    BY <1>2 DEF UndoLock, InvalidateLock, DeleteLockFile
  <2>2. result[p] = "active" /\ sid[p] # 0
    BY <2>1, EarlyHolds, LeftoverAssumption DEF Ids
  <2> QED  BY <2>1, <2>2 DEF SourceInv, MayBeFinal
<1>3. CASE GcOldLock(p)
  BY <1>3 DEF GcOldLock, DeleteLockFile, SessionInv, Collecting
<1>4. CASE GcDeleteLock(p)
  BY <1>4 DEF GcDeleteLock, DeleteLockFile, SessionInv, Collecting
<1> QED  BY <1>1, <1>2, <1>3, <1>4

\* What a step of p has seen without a lock file.
LEMMA GarbageSeen ==
  ASSUME SessionInv, NEW p \in Procs, Step(p) \/ Crash(p), NEW q \in Procs, NEW e \in garbage'[q],
         e[2] # "lock"
  PROVE  e \in garbage[q] \/ (lockFile' = lockFile /\ pc'[p] \notin CopyLabels
                              /\ e[1] \in Ids \ lockFile /\ name[e[1]] # "none")
<1>a. garbage \in [Procs -> SUBSET Entry] /\ pc \in [Procs -> Labels]
  BY DEF SessionInv, TypeOK
<1>1. CASE GcScan(p)
  <2>1. lockFile' = lockFile /\ pc'[p] \notin CopyLabels
    BY <1>1, <1>a DEF GcScan, Goto, AfterGc, CopyLabels, dirVars
  <2>2. \/ garbage'[q] = garbage[q]
        \/ garbage'[q] = Orphans \cup DirEntries(Ids \ lockFile)
    BY <1>1, <1>a DEF GcScan
  <2> QED  BY <2>1, <2>2 DEF Orphans, DirEntries
<1>2. CASE ~GcScan(p)
  <2>1. garbage'[q] \subseteq garbage[q]
    BY <1>2, <1>a
    DEF Step, Prepare, Finalize, Collect, Crash, OpenLock, LockDirectory, CreateDir,
        FindSourceDirectory, CopyOpen, CopyLock, CopyFiles, Undo, UndoLock, Rename, RenameFails,
        Publish, Invalidate, InvalidateLock, InvalidateRename, GcGarbage, GcRemove, GcInspect,
        GcLockFinal, GcLockOld, GcOldDir, GcOldLock, AllExceptMostRecent, GcDelete, GcDeleteDir,
        GcDeleteLock, GcEnds, gcVars
  <2> QED  BY <2>1
<1> QED  BY <1>1, <1>2

\* A copy begins with an open lock file.
LEMMA CopyBegins ==
  ASSUME SessionInv, NEW p \in Procs, Step(p) \/ Crash(p), NEW q \in Procs,
         pc'[q] \in {"copyOpen", "copying"}
  PROVE  /\ cur'[q] = cur[q]
         /\ \/ pc[q] \in {"copyOpen", "copying"}
            \/ cur[q] \in lockFile /\ lockFile' = lockFile /\ garbage' = garbage
<1>a. pc \in [Procs -> Labels] /\ Others(p)
  BY FrameStep DEF SessionInv, TypeOK, Frame
<1>1. CASE q # p
  BY <1>1, <1>a DEF Others
<1>2. CASE q = p /\ pc'[p] = "copying"
  BY <1>2, ErrorFacts
<1>3. CASE q = p /\ pc'[p] = "copyOpen"
  <2>1. cur[p] \in lockFile /\ pc[p] = "source" /\ cur' = cur
    BY <1>3, ErrorFacts
  <2>2. CopyOpen(p)
    BY <1>3, <2>1, <1>a
    DEF Step, Prepare, Finalize, Collect, Crash, OpenLock, LockDirectory, CreateDir,
        FindSourceDirectory, CopyLock, CopyFiles, Undo, UndoLock, Rename, RenameFails,
        Publish, Invalidate, InvalidateLock, InvalidateRename, GcScan, GcGarbage, GcRemove, GcInspect,
        GcLockFinal, GcLockOld, GcOldDir, GcOldLock, AllExceptMostRecent, GcDelete, GcDeleteDir,
        GcDeleteLock, GcEnds, Goto
  <2> QED  BY <1>3, <2>1, <2>2 DEF CopyOpen, dirVars, gcVars
<1> QED  BY <1>1, <1>2, <1>3

\* Every step keeps collectors of directories without a lock file away from
\* what is copied.
LEMMA LocklessInvStep == SessionInv /\ SourceInv /\ LocklessInv /\ [Next]_vars => LocklessInv'
<1> SUFFICES ASSUME SessionInv, SourceInv, LocklessInv, [Next]_vars PROVE LocklessInv'
  OBVIOUS
<1>1. CASE UNCHANGED vars
  BY <1>1 DEF LocklessInv, vars, envVars, dirVars, gcVars
<1>2. ASSUME NEW p \in Procs, Step(p) \/ Crash(p) PROVE LocklessInv'
  <2>a. overtaken' \in BOOLEAN /\ (overtaken => overtaken')
    BY <1>2, TypeStep, FrameStep DEF TypeOK, Frame
  <2> SUFFICES ASSUME overtaken' = FALSE, NEW q \in Procs, pc'[q] \in {"copyOpen", "copying"}
               PROVE  /\ cur'[q] \in lockFile' \/ name'[cur'[q]] # "final"
                      /\ \A r \in Procs : \A e \in garbage'[r] : e[2] # "lock" => e[1] # cur'[q]
    BY <2>a, Zenon DEF LocklessInv
  <2>b. overtaken = FALSE
    BY <2>a, Zenon DEF SessionInv, TypeOK
  <2>c. /\ cur'[q] = cur[q]
        /\ \/ pc[q] \in {"copyOpen", "copying"}
           \/ cur[q] \in lockFile /\ lockFile' = lockFile /\ garbage' = garbage
    BY <1>2, CopyBegins
  <2>d. cur[q] \in Ids /\ (name[cur[q]] # "final" => name'[cur[q]] # "final") /\ name[cur[q]] # "working"
    <3>1. Past(cur[q])
      <4>1. CASE q = p
        BY <1>2, <4>1, <2>c, ErrorFacts, OwnFacts DEF CopyLabels
      <4>2. CASE q # p
        <5>1. pc'[q] = pc[q]
          BY <1>2, <4>2, FrameStep DEF Frame, Others
        <5> QED  BY <5>1, OwnFacts DEF CopyLabels
      <4> QED  BY <4>1, <4>2
    <3>2. cur[q] \in Ids
      BY <3>1, KnownIds
    <3> QED  BY <1>2, <3>1, <3>2, FrameStep DEF Frame, Past
  <2>e. pc[q] \in {"copyOpen", "copying"} =>
          /\ cur[q] \in lockFile \/ name[cur[q]] # "final"
          /\ \A r \in Procs : \A e \in garbage[r] : e[2] # "lock" => e[1] # cur[q]
    BY <2>b DEF LocklessInv
  <2>1. cur'[q] \in lockFile' \/ name'[cur'[q]] # "final"
    BY <1>2, <2>c, <2>d, <2>e, LockFileGone
  <2>2. ASSUME NEW r \in Procs, NEW e \in garbage'[r], e[2] # "lock" PROVE e[1] # cur[q]
    <3>1. CASE pc[q] \in {"copyOpen", "copying"}
      <4>1. name[cur[q]] \in Names
        BY <2>d DEF SessionInv, TypeOK
      <4> QED  BY <1>2, <2>2, <2>d, <2>e, <3>1, <4>1, GarbageSeen DEF Names
    <3>2. CASE cur[q] \in lockFile /\ garbage' = garbage
      BY <2>2, <3>2 DEF SessionInv, Collecting
    <3> QED  BY <2>c, <3>1, <3>2
  <2> QED  BY <2>1, <2>2, <2>c
<1> QED  BY <1>1, <1>2 DEF Next

\* No process copies at first.
LEMMA LocklessInvInit == Init => LocklessInv
BY DEF Init, LocklessInv

\* Nobody copies from a finalized directory that a collector is removing at the
\* end of its collection; nor from one removed because it has no lock file,
\* unless the lock file was deleted by a collector that a publication overtook.
THEOREM CopiesUndisturbed == Spec => []NoCopyUnderDeletion
<1>1. SessionInv /\ LocklessInv => NoCopyUnderDeletion
  <2> SUFFICES ASSUME SessionInv, LocklessInv, NEW p \in Procs, NEW q \in Procs, CopiedUnderDeletion(p, q)
               PROVE  overtaken /\ pc[q] = "gcRemoving"
    BY DEF NoCopyUnderDeletion
  <2>a. pc[p] = "copying" /\ cur[p] = cur[q] /\ pc[q] \in {"gcDeleting", "gcRemoving"}
    BY DEF CopiedUnderDeletion
  <2>1. ASSUME pc[q] = "gcDeleting" PROVE FALSE
    <3>1. p \in sh[cur[p]]
      BY <2>a DEF SessionInv, Copying
    <3>2. cur[q] \in Ids /\ ex[cur[q]] = q
      BY <2>1, OwnFacts
    <3>3. sh[cur[q]] = {}
      BY <3>2, ProcsAssumption DEF SessionInv, TypeOK
    <3> QED  BY <2>a, <3>1, <3>3
  <2>2. ASSUME pc[q] = "gcRemoving", ~overtaken PROVE FALSE
    <3>1. garbage[q] # {} /\ garbage[q] \in SUBSET Entry /\ Removing(q)
      BY <2>2 DEF SessionInv, TypeOK, Collecting
    <3>2. NextGarbage(garbage[q]) \in garbage[q]
      BY <3>1, NextGarbageOf
    <3> QED  BY <2>a, <2>2, <3>1, <3>2 DEF LocklessInv, Removing
  <2> QED  BY <2>a, <2>1, <2>2
<1>2. SessionInv /\ SourceInv /\ [Next]_vars => SourceInv'
  BY SourceInvStep
<1>3. SessionInv /\ SourceInv /\ LocklessInv /\ [Next]_vars => LocklessInv'
  BY LocklessInvStep
<1> QED  BY <1>1, <1>2, <1>3, SourceInvInit, LocklessInvInit, SessionInvariant, PTL DEF Spec

-------------------------------------------------------------------------------
(* What has been published stays in reach *)

\* A directory a session can start from, that no collector is about to delete.
Good(d) == Usable(d) /\ ~Doomed(d)

\* What is good stays so, but for the choice of what to delete, unless a
\* publication has overtaken a collection.
LEMMA GoodKept ==
  ASSUME SessionInv, SourceInv, NEW p \in Procs, Step(p) \/ Crash(p), ~AllExceptMostRecent(p),
         overtaken' = FALSE, NEW d \in Ids, Good(d)
  PROVE  Good(d)'
<1>a. /\ pc \in [Procs -> Labels] /\ cur \in [Procs -> 0 .. MaxId] /\ name \in [Ids -> Names]
      /\ cand \in [Procs -> SUBSET Ids] /\ garbage \in [Procs -> SUBSET Entry]
      /\ 0 \notin Ids
  BY LeftoverAssumption DEF SessionInv, TypeOK, Ids
<1>b. name[d] = "final" /\ d \in lockFile /\ d \notin damaged
  BY DEF Good, Usable
<1>c. \A q \in Procs : pc[q] \in DeleteLabels => d \notin cand[q]
  BY DEF Good, Doomed
<1>d. pc[p] \in {"gcDelete", "gcDeleting", "gcDeleteLock"} => d \notin cand[p] /\ (pc[p] # "gcDelete" => d # cur[p])
  BY <1>c, OwnFacts DEF DeleteLabels
<1>e. pc[p] \in {"opened", "locked", "undoLock", "invalidLock"} => d # sid[p]
  <2>1. pc[p] \in {"opened", "locked"} => name[sid[p]] = "none"
    BY DEF SessionInv, Session
  <2>2. pc[p] \in {"undoLock", "invalidLock"} => name[sid[p]] # "final"
    BY <1>a, EarlyHolds DEF SourceInv, MayBeFinal
  <2> QED  BY <1>b, <2>1, <2>2
<1>f. pc[p] \in {"gcGarbage", "gcRemoving"} =>
        /\ NextGarbage(garbage[p]) \in garbage[p]
        /\ \A e \in garbage[p] : e[2] # "lock" => d # e[1]
  BY <1>a, <1>b, NextGarbageOf DEF SessionInv, Collecting
<1>g. pc[p] = "gcOldLock" /\ overtaken' = overtaken => d # cur[p]
  BY <1>b DEF SessionInv, Collecting
<1>1. CASE Prepare(p)
  <2>1. name'[d] = "final"
    BY <1>1, <1>a, <1>b, <1>e
    DEF Prepare, OpenLock, LockDirectory, CreateDir, FindSourceDirectory, CopyOpen,
       CopyLock, CopyFiles, Undo, UndoLock, RemoveOrWarn, RemoveDir, dirVars
  <2>2. d \in lockFile' /\ damaged' = damaged
    BY <1>1, <1>b, <1>e DEF Prepare, OpenLock, LockDirectory, CreateDir, FindSourceDirectory, CopyOpen,
       CopyLock, CopyFiles, Undo, UndoLock, DeleteLockFile, dirVars
  <2>3. cand' = cand /\ \A q \in Procs : pc'[q] \in DeleteLabels => pc[q] \in DeleteLabels
    BY <1>1, <1>a DEF Prepare, OpenLock, LockDirectory, CreateDir, FindSourceDirectory, CopyOpen,
       CopyLock, CopyFiles, Undo, UndoLock, Goto, DeleteLabels, gcVars
  <2> QED  BY <1>b, <1>c, <2>1, <2>2, <2>3 DEF Good, Usable, Doomed
<1>2. CASE Finalize(p)
  <2>1. name'[d] = "final"
    BY <1>2, <1>a, <1>b
    DEF Finalize, Rename, RenameFails, Publish, Invalidate, InvalidateLock, InvalidateRename,
       RemoveOrWarn, RemoveDir, dirVars
  <2>2. d \in lockFile' /\ damaged' = damaged
    BY <1>2, <1>b, <1>e
    DEF Finalize, Rename, RenameFails, Publish, Invalidate, InvalidateLock, InvalidateRename,
       DeleteLockFile, dirVars
  <2>3. cand' = cand /\ \A q \in Procs : pc'[q] \in DeleteLabels => pc[q] \in DeleteLabels
    BY <1>2, <1>a
    DEF Finalize, Rename, RenameFails, Publish, Invalidate, InvalidateLock, InvalidateRename,
       Goto, DeleteLabels, gcVars
  <2> QED  BY <1>b, <1>c, <2>1, <2>2, <2>3 DEF Good, Usable, Doomed
<1>3. CASE Collect(p) \/ Crash(p)
  <2>1. name'[d] = "final"
    <3>1. CASE GcRemove(p)
      BY <3>1, <1>a, <1>b, <1>f DEF GcRemove, RemoveOrWarn, RemoveDir
    <3>2. CASE ~GcRemove(p)
      BY <1>3, <3>2, <1>a, <1>b, <1>d DEF Collect, GcScan, GcGarbage, GcInspect, GcLockFinal, GcLockOld, GcOldDir,
         GcOldLock, AllExceptMostRecent, GcDelete, GcDeleteDir, GcDeleteLock, GcEnds, Crash, RemoveDir, dirVars
    <3> QED  BY <3>1, <3>2
  <2>2. d \in lockFile'
    <3>1. CASE GcGarbage(p)
      BY <3>1, <1>b DEF GcGarbage, HasTimestamp
    <3>2. CASE GcOldLock(p)
      BY <3>2, <1>b, <1>g DEF GcOldLock, DeleteLockFile
    <3>3. CASE ~GcGarbage(p) /\ ~GcOldLock(p)
      BY <1>3, <3>3, <1>b, <1>d DEF Collect, GcScan, GcRemove, GcInspect, GcLockFinal, GcLockOld,
         GcOldDir, AllExceptMostRecent, GcDelete, GcDeleteDir, GcDeleteLock, GcEnds, Crash, DeleteLockFile,
         dirVars
    <3> QED  BY <3>1, <3>2, <3>3
  <2>3. d \notin damaged'
    BY <1>3, <1>b, <1>d, <1>f
    DEF Collect, GcScan, GcGarbage, GcRemove, GcInspect, GcLockFinal, GcLockOld, GcOldDir, GcOldLock,
         AllExceptMostRecent, GcDelete, GcDeleteDir, GcDeleteLock, GcEnds, Crash, dirVars
  <2>4. ASSUME NEW q \in Procs, pc'[q] \in DeleteLabels PROVE d \notin cand'[q]
    <3>1. CASE q # p
      BY <2>4, <3>1, <1>c, FrameStep DEF Frame, Others
    <3>2. CASE q = p
      <4>1. pc'[p] \in {"gcDelete", "gcDeleting", "gcDeleteLock"} /\ ~Crash(p)
        BY <2>4, <3>2, <1>a DEF DeleteLabels, Crash, Goto
      <4>2. \/ \E c \in cand[p] : GcDelete(p, c)
            \/ GcDeleteDir(p) \/ GcDeleteLock(p)
        BY <1>3, <4>1, <1>a DEF Collect, GcScan, GcGarbage, GcRemove, GcInspect, GcLockFinal, GcLockOld, GcOldDir,
           GcOldLock, GcEnds, AfterGc, Goto
      <4>3. pc[p] \in DeleteLabels /\ cand'[p] \subseteq cand[p]
        BY <4>2, <1>a DEF GcDelete, GcDeleteDir, GcDeleteLock, DeleteLabels, gcVars
      <4> QED  BY <1>c, <3>2, <4>3
    <3> QED  BY <3>1, <3>2
  <2> QED  BY <2>1, <2>2, <2>3, <2>4 DEF Good, Usable, Doomed
<1> QED  BY <1>1, <1>2, <1>3 DEF Step

\* What becomes known was known already, or is a directory just renamed.
LEMMA KnownGrows ==
  ASSUME SessionInv, NEW p \in Procs, Step(p) \/ Crash(p), NEW d \in Known'
  PROVE  d \in Known \/ (d \in lockFile' /\ d \in Ids /\ name'[d] = "final" /\ name[d] # "final")
<1>a. /\ pc \in [Procs -> Labels] /\ cur \in [Procs -> 0 .. MaxId] /\ name \in [Ids -> Names]
      /\ result \in [Procs -> {"active", "finalized", "invalid"}] /\ sid \in [Procs -> 0 .. MaxId]
      /\ cand \in [Procs -> SUBSET Ids] /\ mapped \in [Procs -> SUBSET Entry]
      /\ lockFile \subseteq Ids /\ lockFile' \subseteq Ids
  BY TypeStep DEF SessionInv, TypeOK
<1>b. Others(p)
  BY FrameStep DEF Frame
<1>c. /\ Prepare(p) \/ Finalize(p) => cand' = cand /\ mapped' = mapped
      /\ Crash(p) => cand'[p] = {} /\ mapped'[p] = {}
      /\ Step(p) => Prepare(p) \/ Finalize(p) \/ Collect(p)
  BY <1>a DEF Step, Prepare, Finalize, OpenLock, LockDirectory, CreateDir, FindSourceDirectory, CopyOpen,
     CopyLock, CopyFiles, Undo, UndoLock, Rename, RenameFails, Publish, Invalidate, InvalidateLock,
     InvalidateRename, Crash, gcVars
<1>1. ASSUME NEW q \in Procs, result'[q] = "finalized" PROVE sid'[q] \in Known
  <2>1. CASE q # p
    BY <1>1, <2>1, <1>b DEF Others, Known, Published
  <2>2. CASE q = p
    <3>1. result[p] = "finalized" => sid' = sid
      BY OwnFacts
      DEF Step, Prepare, Finalize, Collect, OpenLock, LockDirectory, CreateDir,
          FindSourceDirectory,
         CopyOpen, CopyLock, CopyFiles, Undo, UndoLock, Rename, RenameFails, Publish, Invalidate, InvalidateLock,
         InvalidateRename, GcScan, GcGarbage, GcRemove, GcInspect, GcLockFinal, GcLockOld, GcOldDir, GcOldLock,
         AllExceptMostRecent, GcDelete, GcDeleteDir, GcDeleteLock, GcEnds, Crash, ownVars, EarlyLabels, Labels,
         GcLabels, CollectLabels, DeleteLabels
    <3>2. result[p] # "finalized" => pc[p] = "renamed" /\ sid' = sid
      BY <1>1, <2>2, <1>a DEF Step, Prepare, Finalize, Collect, OpenLock, LockDirectory, CreateDir,
         FindSourceDirectory, CopyOpen, CopyLock, CopyFiles, Undo, UndoLock, Rename, RenameFails, Publish,
         Invalidate, InvalidateLock, InvalidateRename, GcScan, GcGarbage, GcRemove, GcInspect, GcLockFinal, GcLockOld,
         GcOldDir, GcOldLock, AllExceptMostRecent, GcDelete, GcDeleteDir, GcDeleteLock, GcEnds, Crash, ownVars
    <3> QED  BY <2>2, <3>1, <3>2 DEF Known, Published
  <2> QED  BY <2>1, <2>2
<1>2. ASSUME NEW q \in Procs, pc'[q] = "renamed"
      PROVE  \/ sid'[q] \in Known
             \/ sid'[q] \in lockFile' /\ name'[sid'[q]] = "final" /\ name[sid'[q]] # "final"
  <2>1. CASE q # p
    BY <1>2, <2>1, <1>b DEF Others, Known
  <2>2. CASE q = p
    <3>1. Rename(p)
      BY <1>2, <2>2, <1>a DEF Step, Prepare, Finalize, Collect, OpenLock, LockDirectory, CreateDir,
         FindSourceDirectory, CopyOpen, CopyLock, CopyFiles, Undo, UndoLock, RenameFails, Publish,
         Invalidate, InvalidateLock, InvalidateRename, GcScan, GcGarbage, GcRemove, GcInspect, GcLockFinal, GcLockOld,
         GcOldDir, GcOldLock, AllExceptMostRecent, GcDelete, GcDeleteDir, GcDeleteLock, GcEnds, Crash, Goto,
         AfterGc
    <3>2. sid[p] \in Ids /\ sid[p] \in lockFile
      <4>1. pc[p] = "compile" /\ Session(p)
        BY <3>1 DEF Rename, SessionInv
      <4> QED  BY <4>1, EarlyHolds DEF Session, Inside
    <3> QED  BY <2>2, <3>1, <3>2, <1>a DEF Rename, ownVars
  <2> QED  BY <2>1, <2>2
<1>3. ASSUME NEW c \in lockFile', name'[c] = "final", name[c] = "final" PROVE c \in Known
  <2>1. c \in Ids /\ c <= clock
    BY <1>3, <1>a, SeenMade
  <2>2. c \in lockFile
    BY <2>1, FrameStep DEF Frame
  <2> QED  BY <1>3, <2>2 DEF Known
<1>4. ASSUME NEW c \in Ids, NEW q \in Procs, <<c, "final">> \in mapped'[q] PROVE c \in Known
  <2>1. CASE <<c, "final">> \in mapped[q]
    BY <2>1 DEF Known
  <2>2. CASE <<c, "final">> \notin mapped[q]
    <3>1. q = p
      BY <1>4, <2>2, <1>b DEF Others
    <3>2. mapped'[p] \subseteq mapped[p] \/ mapped'[p] = DirEntries(lockFile)
      <4>1. CASE Collect(p)
        BY <4>1, <1>a
        DEF Collect, GcScan, GcGarbage, GcRemove, GcInspect, GcLockFinal, GcLockOld, GcOldDir, GcOldLock,
           AllExceptMostRecent, GcDelete, GcDeleteDir, GcDeleteLock, GcEnds, gcVars
      <4> QED  BY <4>1, <1>c
    <3>3. c \in lockFile /\ name[c] = "final"
      BY <1>4, <2>2, <3>1, <3>2 DEF DirEntries
    <3> QED  BY <3>3 DEF Known
  <2> QED  BY <2>1, <2>2
<1>5. ASSUME NEW c \in Ids, NEW q \in Procs, pc'[q] = "gcFinal", cur'[q] = c PROVE c \in Known
  <2>1. CASE q # p
    BY <1>5, <2>1, <1>b DEF Others, Known
  <2>2. CASE q = p
    <3>1. PICK e \in mapped[p] : GcInspect(p, e)
      BY <1>5, <2>2, <1>a DEF Step, Prepare, Finalize, Collect, OpenLock, LockDirectory, CreateDir,
         FindSourceDirectory, CopyOpen, CopyLock, CopyFiles, Undo, UndoLock, Rename, RenameFails, Publish,
         Invalidate, InvalidateLock, InvalidateRename, GcScan, GcGarbage, GcRemove, GcLockFinal, GcLockOld,
         GcOldDir, GcOldLock, AllExceptMostRecent, GcDelete, GcDeleteDir, GcDeleteLock, GcEnds, Crash, Goto,
         AfterGc
    <3>2. e[2] = "final" /\ e[1] = c
      BY <1>5, <2>2, <3>1, <1>a DEF GcInspect, Goto
    <3>3. e = <<c, "final">>
      BY <3>2, <1>a DEF Entry
    <3> QED  BY <3>3 DEF Known
  <2> QED  BY <2>1, <2>2
<1>6. ASSUME NEW c \in Ids, NEW q \in Procs, c \in cand'[q] PROVE c \in Known
  <2>1. CASE c \in cand[q]
    BY <2>1 DEF Known
  <2>2. CASE c \notin cand[q]
    <3>1. q = p
      BY <1>6, <2>2, <1>b DEF Others
    <3>2. pc[p] = "gcFinal" /\ cur[p] = c
      <4>1. Collect(p)
        BY <1>6, <2>2, <3>1, <1>c
      <4>2. CASE GcLockFinal(p)
        BY <1>6, <2>2, <3>1, <4>2, <1>a DEF GcLockFinal
      <4>3. CASE ~GcLockFinal(p)
        <5>1. cand'[p] \subseteq cand[p]
          BY <4>1, <4>3, <1>a DEF Collect, GcScan, GcGarbage, GcRemove, GcInspect, GcLockOld, GcOldDir, GcOldLock,
             AllExceptMostRecent, GcDelete, GcDeleteDir, GcDeleteLock, GcEnds, gcVars
        <5> QED  BY <1>6, <2>2, <3>1, <5>1
      <4> QED  BY <4>2, <4>3
    <3> QED  BY <3>2 DEF Known
  <2> QED  BY <2>1, <2>2
<1>7. \A c \in Earlier : Leftover[c] = "final" => c \in Known
  BY DEF Known, Published
<1>8. \/ d \in Earlier /\ Leftover[d] = "final"
      \/ \E q \in Procs : d = sid'[q] /\ (result'[q] = "finalized" \/ pc'[q] = "renamed")
      \/ d \in lockFile' /\ name'[d] = "final"
      \/ d \in Ids /\ \E q \in Procs : \/ <<d, "final">> \in mapped'[q]
                                       \/ pc'[q] = "gcFinal" /\ cur'[q] = d
                                       \/ d \in cand'[q]
  BY DEF Known, Published
<1> QED  BY <1>1, <1>2, <1>3, <1>4, <1>5, <1>6, <1>7, <1>8, <1>a

\* A directory just renamed is good: nobody has collected it while it was the
\* working directory of its session.
LEMMA RenamedIsGood ==
  ASSUME SessionInv, NEW p \in Procs, Step(p) \/ Crash(p), NEW d \in Ids, d \in lockFile',
         name'[d] = "final", name[d] # "final"
  PROVE  Good(d)'
<1>a. /\ pc \in [Procs -> Labels] /\ name \in [Ids -> Names]
  BY DEF SessionInv, TypeOK
<1>1. Rename(p) \/ InvalidateRename(p)
  <2>1. ASSUME Prepare(p) PROVE FALSE
    BY <2>1, <1>a DEF Prepare, OpenLock, LockDirectory, CreateDir, FindSourceDirectory, CopyOpen,
       CopyLock, CopyFiles, Undo, UndoLock, RemoveOrWarn, RemoveDir, dirVars
  <2>2. ASSUME Collect(p) \/ Crash(p) PROVE FALSE
    BY <2>2, <1>a DEF Collect, GcScan, GcGarbage, GcRemove, GcInspect, GcLockFinal, GcLockOld, GcOldDir, GcOldLock,
       AllExceptMostRecent, GcDelete, GcDeleteDir, GcDeleteLock, GcEnds, Crash, RemoveOrWarn, RemoveDir, dirVars
  <2>3. CASE Finalize(p)
    BY <2>3, <1>a DEF Finalize, RenameFails, Publish, Invalidate, InvalidateLock,
       RemoveOrWarn, RemoveDir, dirVars
  <2> QED  BY <2>1, <2>2, <2>3 DEF Step
<1>2. /\ name[d] = "working" /\ cand' = cand /\ damaged' = damaged
  BY <1>1, <1>a DEF Rename, InvalidateRename, gcVars
<1>3. ~Past(d)
  BY <1>2 DEF Past
<1>4. d \notin damaged /\ \A q \in Procs : d \notin cand[q]
  BY <1>3, OwnFacts DEF SessionInv
<1> QED  BY <1>2, <1>4 DEF Good, Usable, Doomed

\* all_except_most_recent: the newest candidate is spared, and something good
\* is at least as new.
LEMMA MostRecentSpared ==
  ASSUME SessionInv, NEW p \in Procs, AllExceptMostRecent(p), NEW d \in Nat,
         \A c \in Known : \E e \in Ids : e >= c /\ Good(e),
         \E e \in Ids : e >= d /\ Good(e)
  PROVE  \E e \in Ids : e >= d /\ Good(e)'
<1>a. /\ pc \in [Procs -> Labels] /\ cand \in [Procs -> SUBSET Ids] /\ cand[p] \subseteq Ids
      /\ Ids \subseteq Nat
  BY LeftoverAssumption DEF SessionInv, TypeOK, Ids
<1>b. /\ name' = name /\ lockFile' = lockFile /\ damaged' = damaged
      /\ \A q \in Procs \ {p} : pc'[q] = pc[q] /\ cand'[q] = cand[q]
      /\ cand'[p] = IF cand[p] = {} THEN {} ELSE cand[p] \ {Newest(cand[p])}
  BY <1>a DEF AllExceptMostRecent, Goto, dirVars
<1>c. ASSUME NEW e \in Ids, Good(e), e \notin cand'[p] PROVE Good(e)'
  <2>1. \A q \in Procs : pc'[q] \in DeleteLabels => e \notin cand'[q]
    BY <1>b, <1>c DEF Good, Doomed
  <2> QED  BY <1>b, <1>c, <2>1 DEF Good, Usable, Doomed
<1>1. PICK e \in Ids : e >= d /\ Good(e)
  OBVIOUS
<1>2. CASE e \notin cand'[p]
  BY <1>1, <1>2, <1>c
<1>3. CASE e \in cand'[p]
  <2> DEFINE m == Newest(cand[p])
  <2>1. cand[p] # {} /\ cand'[p] = cand[p] \ {m} /\ e \in cand[p]
    BY <1>3, <1>b
  <2>2. m \in cand[p] /\ \A c \in cand[p] : c <= m
    BY <2>1, <1>a, NewestOf
  <2> HIDE DEF m
  <2>3. m \in Known /\ m \in Ids
    BY <2>2, <1>a DEF Known
  <2>4. PICK f \in Ids : f >= m /\ Good(f)
    BY <2>3
  <2>5. f \notin cand'[p]
    <3>1. SUFFICES ASSUME f \in cand[p], f # m PROVE FALSE
      BY <2>1
    <3>2. f <= m /\ f \in Nat /\ m \in Nat
      BY <2>2, <2>3, <3>1, <1>a
    <3> QED  BY <2>4, <3>1, <3>2
  <2>6. f >= d
    <3>1. d \in Nat /\ e \in Nat /\ f \in Nat /\ m \in Nat /\ e <= m
      BY <2>1, <2>2, <2>3, <1>a
    <3> QED  BY <1>1, <2>4, <3>1
  <2> QED  BY <2>4, <2>5, <2>6, <1>c
<1> QED  BY <1>2, <1>3

\* Everything known is a number.
LEMMA KnownNumbers ==
  ASSUME TypeOK
  PROVE  Known \subseteq Nat
<1>1. /\ Ids \subseteq Nat /\ Earlier \subseteq Nat /\ lockFile \subseteq Ids
      /\ \A q \in Procs : sid[q] \in Nat
  BY LeftoverAssumption DEF TypeOK, Ids, Earlier
<1> QED  BY <1>1 DEF Known, Published

\* Every step keeps a good directory at or after everything known.
LEMMA CacheInvStep == SessionInv /\ SourceInv /\ CacheInv /\ [Next]_vars => CacheInv'
<1> SUFFICES ASSUME SessionInv, SourceInv, CacheInv, [Next]_vars PROVE CacheInv'
  OBVIOUS
<1>a. overtaken \in BOOLEAN
  BY DEF SessionInv, TypeOK
<1>1. CASE UNCHANGED vars
  <2>1. /\ overtaken' = overtaken /\ Known' = Known
        /\ \A e : (Usable(e)' <=> Usable(e)) /\ (Doomed(e)' <=> Doomed(e))
    BY <1>1 DEF Known, Published, Usable, Doomed, vars, envVars, dirVars, ownVars, gcVars
  <2> QED  BY <2>1, Zenon DEF CacheInv
<1>2. ASSUME NEW p \in Procs, Step(p) \/ Crash(p) PROVE CacheInv'
  <2>1. overtaken' \in BOOLEAN /\ (overtaken => overtaken')
    BY <1>2, TypeStep, FrameStep DEF TypeOK, Frame
  <2> SUFFICES ASSUME overtaken' = FALSE, NEW d \in Known' PROVE \E e \in Ids : e >= d /\ Good(e)'
    BY <2>1, Zenon DEF CacheInv, Good
  <2>2. overtaken = FALSE
    BY <1>a, <2>1, Zenon
  <2>3. \A c \in Known : \E e \in Ids : e >= c /\ Good(e)
    BY <2>2, Zenon DEF CacheInv, Good
  <2>4. CASE d \in Known
    <3>1. d \in Nat /\ \E e \in Ids : e >= d /\ Good(e)
      BY <2>3, <2>4, KnownNumbers DEF SessionInv
    <3>2. CASE AllExceptMostRecent(p)
      BY <2>3, <3>1, <3>2, MostRecentSpared
    <3>3. CASE ~AllExceptMostRecent(p)
      BY <1>2, <3>1, <3>3, GoodKept
    <3> QED  BY <3>2, <3>3
  <2>5. CASE d \notin Known
    <3>1. d \in lockFile' /\ d \in Ids /\ name'[d] = "final" /\ name[d] # "final"
      BY <1>2, <2>5, KnownGrows
    <3>2. Good(d)' /\ d >= d
      BY <1>2, <3>1, RenamedIsGood, LeftoverAssumption DEF Ids
    <3> QED  BY <3>1, <3>2
  <2> QED  BY <2>4, <2>5
<1> QED  BY <1>1, <1>2 DEF Next

\* What earlier sessions left behind is good.
LEMMA CacheInvInit == Init => CacheInv
<1> SUFFICES ASSUME Init, NEW d \in Known PROVE d \in Ids /\ d >= d /\ Usable(d) /\ ~Doomed(d)
  BY DEF CacheInv
<1>1. Earlier \subseteq Ids /\ Ids \subseteq Nat
  BY LeftoverAssumption DEF Earlier, Ids
<1>2. /\ \A p \in Procs : pc[p] = "start" /\ result[p] = "active" /\ mapped[p] = {} /\ cand[p] = {}
      /\ lockFile = Earlier /\ damaged = {}
      /\ \A c \in Earlier : Leftover[c] = "final" => name[c] = "final"
  BY <1>1 DEF Init
<1>3. d \in Earlier /\ name[d] = "final"
  BY <1>2 DEF Known, Published
<1> QED  BY <1>1, <1>2, <1>3 DEF Usable, Doomed

\* What a session published, or something newer, stays usable however many
\* processes collect garbage and however they fail, unless a publication
\* overtakes a collection.
THEOREM CacheKept == Spec => []CacheSurvivesUnlessOvertaken
<1>1. CacheInv => CacheSurvivesUnlessOvertaken
  <2>1. Published \subseteq Known
    BY DEF Known
  <2> QED  BY <2>1, Zenon DEF CacheInv, CacheSurvivesUnlessOvertaken, CacheSurvives
<1>2. SessionInv /\ SourceInv /\ [Next]_vars => SourceInv'
  BY SourceInvStep
<1>3. SessionInv /\ SourceInv /\ CacheInv /\ [Next]_vars => CacheInv'
  BY CacheInvStep
<1> QED  BY <1>1, <1>2, <1>3, SourceInvInit, CacheInvInit, SessionInvariant, PTL DEF Spec

================================================================================
