------------------------------ MODULE SessionDirs ------------------------------
(***************************************************************************)
(* The session directories of the incremental compilation cache            *)
(* (rustc_incremental/src/persist/fs.rs): several compiler processes work  *)
(* on the same crate at a time, each in a private "-working" directory     *)
(* that starts as a copy of the newest finalized one and is published by   *)
(* renaming it; each collects garbage twice, after preparing its directory *)
(* and after finalizing it.                                                *)
(*                                                                         *)
(* A session directory s-{timestamp}-{random}-... and its lock file        *)
(* s-{timestamp}-{random}.lock are identified by a number that grows with  *)
(* the timestamp.  The file system's operations are the atomic steps:      *)
(* opening a lock file and locking it are two steps, so a process can lock *)
(* a file that was unlinked in between.  Locks are flock(2)'s, owned by    *)
(* the open file, and end with the process.                                *)
(***************************************************************************)
EXTENDS Integers, FiniteSets, Sequences

CONSTANTS
  Procs,     \* the compiler processes
  NoProc,    \* no process
  Leftover,  \* what earlier sessions left behind, oldest first: a finalized
             \* directory, the working directory of a session that crashed, or
             \* a lock file only
  MaxId,     \* bound: the session directories ever allocated
  MaxFaults  \* bound: the crashes and I/O errors there can be

ASSUME ProcsAssumption == IsFiniteSet(Procs) /\ NoProc \notin Procs

ASSUME LeftoverAssumption ==
  /\ Leftover \in Seq({"final", "working", "lock"})
  /\ MaxId \in Nat /\ Len(Leftover) <= MaxId

ASSUME FaultsAssumption == MaxFaults \in Nat

Ids == 1 .. MaxId

\* The sessions that ended long ago.
Earlier == 1 .. Len(Leftover)

VARIABLES
  faults,     \* the crashes and I/O errors so far
  overtaken,  \* history: a directory was published between the scan that saw
              \* it as a working one and its collection
  (* the crate's incremental directory *)
  clock,      \* the identifier allocated last
  name,       \* "none", "working" or "final": the directory's name
  lockFile,   \* identifiers whose lock file exists
  damaged,    \* finalized directories whose removal was begun
  ex,         \* who holds the exclusive lock of a lock file
  sh,         \* who holds its shared lock
  (* the processes *)
  pc,
  sid,        \* the session directory allocated, 0 at first
  result,     \* IncrCompSession: "active", "finalized" or "invalid"
  tried,      \* source_directories_already_tried
  cur,        \* the directory copied from or collected, 0 for none
  garbage,    \* orphaned lock files and directories without one, as scanned
  mapped,     \* lock_file_to_session_dir, as scanned
  cand        \* deletion_candidates

dirVars  == <<clock, name, lockFile, damaged>>
lockVars == <<ex, sh>>
ownVars  == <<sid, result, tried>>
gcVars   == <<garbage, mapped, cand>>

envVars  == <<faults, overtaken>>

vars == <<envVars, dirVars, lockVars, pc, ownVars, cur, gcVars>>

Names == {"none", "working", "final"}

\* What a scan of the directory can list.
Entry == Ids \X {"lock", "working", "final"}

Newest(s) == CHOOSE d \in s : \A e \in s : e <= d

Goto(p, l) == pc' = [pc EXCEPT ![p] = l]

Init ==
  /\ faults = 0 /\ overtaken = FALSE
  /\ clock = Len(Leftover)
  /\ name = [d \in Ids |-> IF d \in Earlier /\ Leftover[d] # "lock"
                         THEN Leftover[d] ELSE "none"]
  /\ lockFile = Earlier
  /\ damaged = {}
  /\ ex = [d \in Ids |-> NoProc]
  /\ sh = [d \in Ids |-> {}]
  /\ pc = [p \in Procs |-> "start"]
  /\ sid = [p \in Procs |-> 0]
  /\ result = [p \in Procs |-> "active"]
  /\ tried = [p \in Procs |-> {}]
  /\ cur = [p \in Procs |-> 0]
  /\ garbage = [p \in Procs |-> {}]
  /\ mapped = [p \in Procs |-> {}]
  /\ cand = [p \in Procs |-> {}]

(***************************************************************************)
(* File locks and removal                                                  *)
(***************************************************************************)
\* An I/O error or the end of a process.
Fault == faults < MaxFaults /\ faults' = faults + 1

\* flock with LOCK_NB would succeed.
ExclusiveFree(d) == ex[d] = NoProc /\ sh[d] = {}

SharedFree(d) == ex[d] = NoProc

\* The lock held on d's lock file is dropped.
Unlock(d) == ex' = [ex EXCEPT ![d] = NoProc]

\* safe_remove_dir_all on the path of d with name n: nothing to do if there is
\* no such directory.
RemoveDir(d, n) ==
  name' = IF name[d] = n THEN [name EXCEPT ![d] = "none"] ELSE name

\* An error in that is only a warning.
RemoveOrWarn(d, n) ==
  \/ RemoveDir(d, n) /\ UNCHANGED faults
  \/ name[d] = n /\ Fault /\ UNCHANGED name

\* delete_session_dir_lock_file, where an error is a warning, and the drop of
\* the lock after it: nobody could have locked the file in between.
DeleteLockFile(d) ==
  /\ \/ lockFile' = lockFile \ {d} /\ UNCHANGED faults
     \/ d \in lockFile /\ Fault /\ UNCHANGED lockFile
  /\ Unlock(d)

-------------------------------------------------------------------------------
(***************************************************************************)
(* prepare_session_directory                                               *)
(***************************************************************************)
\* generate_session_dir_path and the first half of lock_directory: the lock
\* file is created.
OpenLock(p) ==
  /\ pc[p] = "start" /\ clock < MaxId
  /\ clock' = clock + 1
  /\ sid' = [sid EXCEPT ![p] = clock + 1]
  /\ lockFile' = lockFile \cup {clock + 1}
  /\ Goto(p, "opened")
  /\ UNCHANGED <<envVars, name, damaged, lockVars, result, tried, cur, gcVars>>

\* Mutant: the lock's guard is dropped at once.
LockDirectoryDropped(p) ==
  /\ pc[p] = "opened"
  /\ IF ExclusiveFree(sid[p]) THEN Goto(p, "locked") ELSE Goto(p, "dead")
  /\ UNCHANGED <<envVars, dirVars, lockVars, ownVars, cur, gcVars>>

\* lock_directory: the lock file is locked, or the session gives up.
LockDirectory(p) ==
  /\ pc[p] = "opened"
  /\ IF ExclusiveFree(sid[p])
     THEN ex' = [ex EXCEPT ![sid[p]] = p] /\ Goto(p, "locked")
     ELSE Goto(p, "dead") /\ UNCHANGED ex
  /\ UNCHANGED <<envVars, dirVars, sh, ownVars, cur, gcVars>>

CreateDir(p) ==
  /\ pc[p] = "locked"
  /\ name' = [name EXCEPT ![sid[p]] = "working"]
  /\ Goto(p, "created")
  /\ UNCHANGED <<envVars, clock, lockFile, damaged, lockVars, ownVars, cur,
                 gcVars>>

\* find_source_directory: the newest finalized directory not tried yet.
FindSourceDirectory(p) ==
  LET found == {d \in Ids : name[d] = "final"} \ tried[p]
  IN  /\ pc[p] = "created"
      /\ IF found = {}
         THEN /\ Goto(p, "gc")
              /\ tried' = [tried EXCEPT ![p] = {}]
              /\ UNCHANGED cur
         ELSE /\ Goto(p, "source")
              /\ cur' = [cur EXCEPT ![p] = Newest(found)]
              /\ UNCHANGED tried
      /\ UNCHANGED <<envVars, dirVars, lockVars, sid, result, gcVars>>

\* copy_files opens the source's lock file, without creating it.
CopyOpen(p) ==
  /\ pc[p] = "source"
  /\ Goto(p, IF cur[p] \in lockFile THEN "copyOpen" ELSE "undo")
  /\ UNCHANGED <<envVars, dirVars, lockVars, ownVars, cur, gcVars>>

\* Mutant: the shared lock is granted beside an exclusive one.
CopyLockUnchecked(p) ==
  /\ pc[p] = "copyOpen"
  /\ sh' = [sh EXCEPT ![cur[p]] = @ \cup {p}]
  /\ Goto(p, "copying")
  /\ UNCHANGED <<envVars, dirVars, ex, ownVars, cur, gcVars>>

\* copy_files takes a shared lock.
CopyLock(p) ==
  /\ pc[p] = "copyOpen"
  /\ IF SharedFree(cur[p])
     THEN sh' = [sh EXCEPT ![cur[p]] = @ \cup {p}] /\ Goto(p, "copying")
     ELSE Goto(p, "undo") /\ UNCHANGED sh
  /\ UNCHANGED <<envVars, dirVars, ex, ownVars, cur, gcVars>>

\* copy_files links or copies the files; it can fail on any of them.
CopyFiles(p) ==
  /\ pc[p] = "copying"
  /\ sh' = [sh EXCEPT ![cur[p]] = @ \ {p}]
  /\ \/ /\ name[cur[p]] = "final"
        /\ Goto(p, "gc")
        /\ cur' = [cur EXCEPT ![p] = 0]
        /\ tried' = [tried EXCEPT ![p] = {}]
        /\ UNCHANGED faults
     \/ /\ IF name[cur[p]] = "final" THEN Fault ELSE UNCHANGED faults
        /\ Goto(p, "undo")
        /\ UNCHANGED <<cur, tried>>
  /\ UNCHANGED <<overtaken, dirVars, ex, sid, result, gcVars>>

\* Mutant: the source that failed is not remembered.
UndoForgetsSource(p) ==
  /\ pc[p] = "undo"
  /\ RemoveOrWarn(sid[p], "working")
  /\ cur' = [cur EXCEPT ![p] = 0]
  /\ Goto(p, "undoLock")
  /\ UNCHANGED <<overtaken, clock, lockFile, damaged, lockVars, ownVars, gcVars>>

\* Copying failed: remember the source and remove the directory just made; an
\* error in that is a warning.
Undo(p) ==
  /\ pc[p] = "undo"
  /\ tried' = [tried EXCEPT ![p] = @ \cup {cur[p]}]
  /\ RemoveOrWarn(sid[p], "working")
  /\ cur' = [cur EXCEPT ![p] = 0]
  /\ Goto(p, "undoLock")
  /\ UNCHANGED <<overtaken, clock, lockFile, damaged, lockVars, sid, result,
                 gcVars>>

\* The lock file goes too, and the loop starts over with a new directory.
UndoLock(p) ==
  /\ pc[p] = "undoLock"
  /\ DeleteLockFile(sid[p])
  /\ Goto(p, "start")
  /\ UNCHANGED <<overtaken, clock, name, damaged, sh, ownVars, cur, gcVars>>

-------------------------------------------------------------------------------
(***************************************************************************)
(* finalize_session_directory                                              *)
(***************************************************************************)
\* No errors: the directory is renamed, its lock still held.
Rename(p) ==
  /\ pc[p] = "compile" /\ name[sid[p]] = "working"
  /\ name' = [name EXCEPT ![sid[p]] = "final"]
  /\ Goto(p, "renamed")
  /\ UNCHANGED <<envVars, clock, lockFile, damaged, lockVars, ownVars, cur,
                 gcVars>>

\* The rename fails: mark_incr_comp_session_as_invalid drops the lock.
RenameFails(p) ==
  /\ pc[p] = "compile"
  /\ IF name[sid[p]] = "working" THEN Fault ELSE UNCHANGED faults
  /\ Unlock(sid[p])
  /\ result' = [result EXCEPT ![p] = "invalid"]
  /\ Goto(p, "gc")
  /\ UNCHANGED <<overtaken, dirVars, sh, sid, tried, cur, gcVars>>

\* finalize_incr_comp_session drops the lock.
Publish(p) ==
  /\ pc[p] = "renamed"
  /\ Unlock(sid[p])
  /\ result' = [result EXCEPT ![p] = "finalized"]
  /\ Goto(p, "gc")
  /\ UNCHANGED <<envVars, dirVars, sh, sid, tried, cur, gcVars>>

\* There were errors: the directory is removed.
Invalidate(p) ==
  /\ pc[p] = "compile"
  /\ RemoveOrWarn(sid[p], "working")
  /\ Goto(p, "invalidLock")
  /\ UNCHANGED <<overtaken, clock, lockFile, damaged, lockVars, ownVars, cur,
                 gcVars>>

\* Mutant: the lock file is left in place.
InvalidateLockKept(p) ==
  /\ pc[p] = "invalidLock"
  /\ Unlock(sid[p])
  /\ result' = [result EXCEPT ![p] = "invalid"]
  /\ Goto(p, "invalidRename")
  /\ UNCHANGED <<envVars, dirVars, sh, sid, tried, cur, gcVars>>

\* The lock file goes and the session is marked invalid.
InvalidateLock(p) ==
  /\ pc[p] = "invalidLock"
  /\ DeleteLockFile(sid[p])
  /\ result' = [result EXCEPT ![p] = "invalid"]
  /\ Goto(p, "invalidRename")
  /\ UNCHANGED <<overtaken, clock, name, damaged, sh, sid, tried, cur, gcVars>>

\* The function goes on to the rename all the same.  It fails, unless the
\* directory could not be removed: then finalize_incr_comp_session panics.
InvalidateRename(p) ==
  /\ pc[p] = "invalidRename"
  /\ IF name[sid[p]] = "working"
     THEN name' = [name EXCEPT ![sid[p]] = "final"] /\ Goto(p, "dead")
     ELSE Goto(p, "gc") /\ UNCHANGED name
  /\ UNCHANGED <<envVars, clock, lockFile, damaged, lockVars, ownVars, cur,
                 gcVars>>

-------------------------------------------------------------------------------
(***************************************************************************)
(* garbage_collect_session_directories                                     *)
(***************************************************************************)
Orphans == {<<d, "lock">> : d \in {e \in lockFile : name[e] = "none"}}

DirEntries(s) == {<<d, name[d]>> : d \in {e \in s : name[e] # "none"}}

\* Where a process goes on after garbage collection, whose error it ignores.
AfterGc(p) == IF result[p] = "active" THEN "compile" ELSE "done"

\* The pass over the crate directory.  read_dir is taken to be atomic; it can
\* fail.
GcScan(p) ==
  /\ pc[p] = "gc"
  /\ \/ /\ garbage' = [garbage EXCEPT
                          ![p] = Orphans \cup DirEntries(Ids \ lockFile)]
        /\ mapped' = [mapped EXCEPT ![p] = DirEntries(lockFile)]
        /\ Goto(p, IF garbage'[p] = {} THEN "gcStep" ELSE "gcGarbage")
        /\ UNCHANGED faults
     \/ Fault /\ Goto(p, AfterGc(p)) /\ UNCHANGED <<garbage, mapped>>
  /\ UNCHANGED <<overtaken, dirVars, lockVars, ownVars, cur, cand>>

\* extract_timestamp_from_session_dir finds one in the name of a session
\* directory only: is_session_directory rejects the name of a lock file.
HasTimestamp(e) == e[2] # "lock"

\* is_old_enough_to_be_collected: what it can answer.  How long the sessions of
\* this run take is open, the earlier ones ended long ago.
IsOldEnough(d) == IF d \in Earlier THEN {TRUE} ELSE BOOLEAN

\* The order in which garbage is removed: lock files first, each by name.
NextGarbage(g) ==
  LET first == IF \E e \in g : e[2] = "lock" THEN {e \in g : e[2] = "lock"}
                                             ELSE g
  IN  CHOOSE e \in first : \A f \in first : e[1] <= f[1]

\* An orphaned lock file is deleted if it is old; the removal of a directory
\* without a lock file begins, at any age.
GcGarbage(p) ==
  LET e == NextGarbage(garbage[p])
  IN  /\ pc[p] = "gcGarbage"
      /\ \/ /\ e[2] = "lock"
            /\ garbage' = [garbage EXCEPT ![p] = @ \ {e}]
            /\ Goto(p, IF garbage'[p] = {} THEN "gcStep" ELSE "gcGarbage")
            /\ \E aged \in IsOldEnough(e[1]) :
                 lockFile' = IF HasTimestamp(e) /\ aged
                             THEN lockFile \ {e[1]} ELSE lockFile
            /\ UNCHANGED <<damaged, cur>>
         \/ /\ e[2] # "lock"
            /\ cur' = [cur EXCEPT ![p] = e[1]]
            /\ damaged' = damaged \cup (IF name[e[1]] = "final" THEN {e[1]} ELSE {})
            /\ Goto(p, "gcRemoving")
            /\ UNCHANGED <<lockFile, garbage>>
      /\ UNCHANGED <<envVars, clock, name, lockVars, ownVars, mapped, cand>>

\* It ends, or fails half-way, which is only a warning.
GcRemove(p) ==
  LET e == NextGarbage(garbage[p])
  IN  /\ pc[p] = "gcRemoving"
      /\ RemoveOrWarn(e[1], e[2])
      /\ garbage' = [garbage EXCEPT ![p] = @ \ {e}]
      /\ cur' = [cur EXCEPT ![p] = 0]
      /\ Goto(p, IF garbage'[p] = {} THEN "gcStep" ELSE "gcGarbage")
      /\ UNCHANGED <<overtaken, clock, lockFile, damaged, lockVars, ownVars,
                     mapped, cand>>

\* A directory with a lock file, in the order of a hash map: unless it is a
\* young working directory its lock file is opened.
GcInspect(p, e) ==
  /\ pc[p] = "gcStep" /\ e \in mapped[p]
  /\ mapped' = [mapped EXCEPT ![p] = @ \ {e}]
  /\ \E aged \in (IF e[2] = "final" THEN {TRUE} ELSE IsOldEnough(e[1])) :
       IF aged /\ e[1] \in lockFile
       THEN /\ cur' = [cur EXCEPT ![p] = e[1]]
            /\ Goto(p, IF e[2] = "final" THEN "gcFinal" ELSE "gcOld")
       ELSE UNCHANGED <<cur, pc>>
  /\ UNCHANGED <<envVars, dirVars, lockVars, ownVars, garbage, cand>>

\* A finalized directory that can be locked becomes a deletion candidate.
GcLockFinal(p) ==
  /\ pc[p] = "gcFinal"
  /\ IF ExclusiveFree(cur[p])
     THEN /\ ex' = [ex EXCEPT ![cur[p]] = p]
          /\ cand' = [cand EXCEPT ![p] = @ \cup {cur[p]}]
     ELSE UNCHANGED <<ex, cand>>
  /\ cur' = [cur EXCEPT ![p] = 0]
  /\ Goto(p, "gcStep")
  /\ UNCHANGED <<envVars, dirVars, sh, ownVars, garbage, mapped>>

\* An old working directory that can be locked has no owner any more.
GcLockOld(p) ==
  /\ pc[p] = "gcOld"
  /\ IF ExclusiveFree(cur[p])
     THEN /\ ex' = [ex EXCEPT ![cur[p]] = p]
          /\ Goto(p, "gcOldDir")
          /\ UNCHANGED cur
     ELSE /\ Goto(p, "gcStep")
          /\ cur' = [cur EXCEPT ![p] = 0]
          /\ UNCHANGED ex
  /\ UNCHANGED <<envVars, dirVars, sh, ownVars, gcVars>>

\* delete_old: the directory, under the name it was scanned with.
GcOldDir(p) ==
  /\ pc[p] = "gcOldDir"
  /\ \/ /\ RemoveDir(cur[p], "working")
        /\ Goto(p, "gcOldLock")
        /\ UNCHANGED <<faults, ex, cur>>
     \/ /\ name[cur[p]] = "working" /\ Fault
        /\ Unlock(cur[p])
        /\ Goto(p, "gcStep")
        /\ cur' = [cur EXCEPT ![p] = 0]
        /\ UNCHANGED name
  /\ overtaken' = (overtaken \/ name[cur[p]] = "final")
  /\ UNCHANGED <<clock, lockFile, damaged, sh, ownVars, gcVars>>

\* delete_old: its lock file.
GcOldLock(p) ==
  /\ pc[p] = "gcOldLock"
  /\ DeleteLockFile(cur[p])
  /\ Goto(p, "gcStep")
  /\ cur' = [cur EXCEPT ![p] = 0]
  /\ UNCHANGED <<overtaken, clock, name, damaged, sh, ownVars, gcVars>>

\* Mutant: every candidate is deleted.
AllExceptMostRecentAll(p) ==
  /\ pc[p] = "gcStep" /\ mapped[p] = {}
  /\ Goto(p, "gcDelete")
  /\ UNCHANGED <<envVars, dirVars, lockVars, ownVars, cur, gcVars>>

\* all_except_most_recent: the lock of the newest candidate is dropped.
AllExceptMostRecent(p) ==
  /\ pc[p] = "gcStep" /\ mapped[p] = {}
  /\ IF cand[p] = {} THEN UNCHANGED <<ex, cand>>
     ELSE /\ Unlock(Newest(cand[p]))
          /\ cand' = [cand EXCEPT ![p] = @ \ {Newest(@)}]
  /\ Goto(p, "gcDelete")
  /\ UNCHANGED <<envVars, dirVars, sh, ownVars, cur, garbage, mapped>>

\* Removing a candidate begins; file by file it takes a while.
GcDelete(p, d) ==
  /\ pc[p] = "gcDelete" /\ d \in cand[p]
  /\ cur' = [cur EXCEPT ![p] = d]
  /\ damaged' = damaged \cup (IF name[d] = "final" THEN {d} ELSE {})
  /\ Goto(p, "gcDeleting")
  /\ UNCHANGED <<envVars, clock, name, lockFile, lockVars, ownVars, gcVars>>

\* It ends, or fails half-way: then the lock file stays.
GcDeleteDir(p) ==
  /\ pc[p] = "gcDeleting"
  /\ \/ /\ RemoveDir(cur[p], "final")
        /\ damaged' = damaged \ {cur[p]}
        /\ Goto(p, "gcDeleteLock")
        /\ UNCHANGED <<faults, ex, cur, cand>>
     \/ /\ name[cur[p]] = "final" /\ Fault
        /\ Unlock(cur[p])
        /\ cand' = [cand EXCEPT ![p] = @ \ {cur[p]}]
        /\ cur' = [cur EXCEPT ![p] = 0]
        /\ Goto(p, "gcDelete")
        /\ UNCHANGED <<name, damaged>>
  /\ UNCHANGED <<overtaken, clock, lockFile, sh, ownVars, garbage, mapped>>

GcDeleteLock(p) ==
  /\ pc[p] = "gcDeleteLock"
  /\ DeleteLockFile(cur[p])
  /\ cand' = [cand EXCEPT ![p] = @ \ {cur[p]}]
  /\ cur' = [cur EXCEPT ![p] = 0]
  /\ Goto(p, "gcDelete")
  /\ UNCHANGED <<overtaken, clock, name, damaged, sh, ownVars, garbage, mapped>>

\* Garbage collection ends: the session compiles, or is over.
GcEnds(p) ==
  /\ pc[p] = "gcDelete" /\ cand[p] = {}
  /\ Goto(p, AfterGc(p))
  /\ UNCHANGED <<envVars, dirVars, lockVars, ownVars, cur, gcVars>>

-------------------------------------------------------------------------------
\* The process has ended.
Over(p) == pc[p] \in {"done", "dead"}

\* A process is killed, or leaves with an error before finalizing (a failed
\* prepare_session_directory, compile_status in Linker::link): its locks end.
Crash(p) ==
  /\ ~Over(p) /\ Fault
  /\ ex' = [d \in Ids |-> IF ex[d] = p THEN NoProc ELSE ex[d]]
  /\ sh' = [d \in Ids |-> sh[d] \ {p}]
  /\ Goto(p, "dead")
  /\ tried' = [tried EXCEPT ![p] = {}]
  /\ cur' = [cur EXCEPT ![p] = 0]
  /\ garbage' = [garbage EXCEPT ![p] = {}]
  /\ mapped' = [mapped EXCEPT ![p] = {}]
  /\ cand' = [cand EXCEPT ![p] = {}]
  /\ UNCHANGED <<overtaken, dirVars, sid, result>>

Prepare(p) ==
  \/ OpenLock(p) \/ LockDirectory(p) \/ CreateDir(p) \/ FindSourceDirectory(p)
  \/ CopyOpen(p) \/ CopyLock(p) \/ CopyFiles(p) \/ Undo(p) \/ UndoLock(p)

Finalize(p) ==
  \/ Rename(p) \/ RenameFails(p) \/ Publish(p)
  \/ Invalidate(p) \/ InvalidateLock(p) \/ InvalidateRename(p)

Collect(p) ==
  \/ GcScan(p) \/ GcGarbage(p) \/ GcRemove(p)
  \/ \E e \in mapped[p] : GcInspect(p, e)
  \/ GcLockFinal(p) \/ GcLockOld(p) \/ GcOldDir(p) \/ GcOldLock(p)
  \/ AllExceptMostRecent(p)
  \/ \E d \in cand[p] : GcDelete(p, d)
  \/ GcDeleteDir(p) \/ GcDeleteLock(p) \/ GcEnds(p)

Step(p) == Prepare(p) \/ Finalize(p) \/ Collect(p)

Next == \E p \in Procs : Step(p) \/ Crash(p)

Spec == Init /\ [][Next]_vars

\* Every process runs on: no file system operation blocks, the locks are taken
\* with LOCK_NB.
FairSpec == Spec /\ \A p \in Procs : WF_vars(Step(p))

-------------------------------------------------------------------------------
(***************************************************************************)
(* Properties                                                              *)
(***************************************************************************)
Labels == {"start", "opened", "locked", "created", "source", "copyOpen",
           "copying", "undo", "undoLock", "compile", "renamed", "invalidLock",
           "invalidRename", "gc", "gcGarbage", "gcRemoving", "gcStep", "gcFinal",
           "gcOld", "gcOldDir", "gcOldLock", "gcDelete", "gcDeleting",
           "gcDeleteLock", "done", "dead"}

\* Every variable has its type, and exclusive locks exclude shared ones.
TypeOK ==
  /\ faults \in 0 .. MaxFaults /\ overtaken \in BOOLEAN
  /\ clock \in 0 .. MaxId
  /\ name \in [Ids -> Names]
  /\ lockFile \in SUBSET Ids
  /\ damaged \in SUBSET Ids
  /\ ex \in [Ids -> Procs \cup {NoProc}]
  /\ sh \in [Ids -> SUBSET Procs]
  /\ \A d \in Ids : ex[d] # NoProc => sh[d] = {}
  /\ pc \in [Procs -> Labels]
  /\ sid \in [Procs -> 0 .. MaxId]
  /\ result \in [Procs -> {"active", "finalized", "invalid"}]
  /\ tried \in [Procs -> SUBSET Ids]
  /\ cur \in [Procs -> 0 .. MaxId]
  /\ garbage \in [Procs -> SUBSET Entry]
  /\ mapped \in [Procs -> SUBSET Entry]
  /\ cand \in [Procs -> SUBSET Ids]

\* p's session directory exists: made, and not yet published or given up.
Inside(p) ==
  /\ result[p] = "active"
  /\ pc[p] \notin {"start", "opened", "locked", "undoLock", "renamed",
                   "invalidLock", "done", "dead"}

\* A session's private directory and lock file stay while it works in them,
\* whatever other processes collect and however long it takes.
OwnDirKept ==
  \A p \in Procs :
    Inside(p) => name[sid[p]] = "working" /\ sid[p] \in lockFile

\* p copies from a directory of which q is removing the files, in the end of
\* garbage collection or because it has no lock file.
CopiedUnderDeletion(p, q) ==
  /\ pc[p] = "copying" /\ pc[q] \in {"gcDeleting", "gcRemoving"}
  /\ cur[p] = cur[q]

\* copy_files locks its source so that "nobody deletes it out from under us while
\* we are reading": no collector removes a candidate while another process copies
\* from it; nor a directory without a lock file, unless some collector deleted
\* that file although the directory was published since it saw it working.
NoCopyUnderDeletion ==
  \A p, q \in Procs :
    CopiedUnderDeletion(p, q) => overtaken /\ pc[q] = "gcRemoving"

\* A directory another session can start from.
Usable(d) == name[d] = "final" /\ d \in lockFile \ damaged

Published ==
  {d \in Earlier : Leftover[d] = "final"}
    \cup {sid[p] : p \in {q \in Procs : result[q] = "finalized"}}

\* Garbage collection deletes all finalized directories but the most recent
\* one: what a session published, or something newer, stays usable.
CacheSurvives == \A d \in Published : \E e \in Ids : e >= d /\ Usable(e)

\* A publication that overtakes a garbage collection is the only way to lose it.
CacheSurvivesUnlessOvertaken == ~overtaken => CacheSurvives

\* A session that had errors is never the source of another one.  It takes two
\* faults: neither its directory nor its lock file can be removed.
ErrorsNeverCopied ==
  faults <= 1 =>
    \A p, q \in Procs :
      (pc[p] = "copying" /\ result[q] = "invalid") => cur[p] # sid[q]

\* A session starts and ends: the search for a source to copy from and garbage
\* collection come to an end whatever other processes hold, and no lock blocks.
SessionsEnd == <>(\A p \in Procs : Over(p))
===============================================================================
