---------------------------- MODULE Materialization ----------------------------
(***************************************************************************)
(* The shared store of built CoreMind candidates and its locks             *)
(* (scripts/coremind-compat/materialization.ts): processes that run the    *)
(* compatibility check of a candidate at the same time build its packages  *)
(* once, publish them for the others and build no more candidates at once  *)
(* than there are slots.                                                   *)
(*                                                                         *)
(* A lock is a directory that mkdir creates and that holds owner.json: the *)
(* owner's id, its process, when it was created, and, as the time of the   *)
(* file, the last heartbeat.  Heartbeats, checks and releases go by path,  *)
(* so each of them may meet the directory of somebody else.  A waiter      *)
(* removes the directory of an owner that is dead or past its lease; what  *)
(* it read and what it renames away are two steps.                         *)
(*                                                                         *)
(* Time is what it makes true of a directory: stale (no heartbeat, or no   *)
(* owner.json, for 30 seconds), overdue (older than two hours).  A process *)
(* has one owner id per directory, and the operating system does not give  *)
(* its process number to another one.                                      *)
(***************************************************************************)
EXTENDS Integers, FiniteSets

CONSTANTS Runs,            \* processes that run coremind:compat, each once
          GitCandidates,   \* candidates built from a commit
          NpmCandidates,   \* candidates packed from the registry
          Asked,           \* the candidates a run may be asked to check
          Builds,          \* artifact keys
          BuildsOf,        \* what a candidate is built to: two builds of a
                           \* commit may differ, a release is what it is
          Slots,           \* materializationConcurrency
          Earlier,         \* a process that died before these began, ...
          Left,            \* ... and the locks it held
          None,
          MaxPauses        \* bound: live processes that outlive what a lock grants

Candidates == GitCandidates \cup NpmCandidates
Locks == Candidates \cup Slots

ASSUME MaterializationAssumption ==
  /\ GitCandidates \cap NpmCandidates = {} /\ Candidates \cap Slots = {}
  /\ BuildsOf \in [Candidates -> SUBSET Builds]
  /\ \A k \in NpmCandidates : \E b \in Builds : BuildsOf[k] = {b}
  /\ Left \subseteq Locks /\ None \notin Builds \cup Slots \cup Candidates
  /\ None \notin Runs /\ Earlier \notin Runs \cup {None}
  /\ Asked \in [Runs -> SUBSET Candidates] /\ MaxPauses \in Nat

VARIABLES pc,         \* where a run is
          failed,     \* its materialization ends with an error
          candidate,  \* what it checks
          slot,       \* the slot it tries, holds or removes
          build,      \* the artifacts it has built or reuses
          seen,       \* what recoverStaleMaterializationLock has read of a lock
          dirs,       \* the directories of the locks
          store,      \* artifacts/: what is under an artifact key
          pointer,    \* acquisitions/: the artifact key of a candidate
          pauses,     \* live processes that were paused for too long
          raced       \* history: a directory went that was not the one read

locals == <<pc, failed, candidate, slot, build, seen>>
shared == <<store, pointer>>
vars == <<locals, dirs, shared, pauses, raced>>

NoDir == [made |-> FALSE, by |-> None, stale |-> FALSE, overdue |-> FALSE]
Made == [NoDir EXCEPT !.made = TRUE]
OwnedBy(r) == [Made EXCEPT !.by = r]

Init ==
  /\ pc = [r \in Runs |-> "idle"]
  /\ failed = [r \in Runs |-> FALSE]
  /\ candidate \in {f \in [Runs -> Candidates] : \A r \in Runs : f[r] \in Asked[r]}
  /\ slot = [r \in Runs |-> None]
  /\ build = [r \in Runs |-> None]
  /\ seen = [r \in Runs |-> NoDir]
  /\ dirs = [x \in Locks |-> IF x \in Left THEN OwnedBy(Earlier) ELSE NoDir]
  /\ store = [k \in Candidates |-> [b \in Builds |-> "absent"]]
  /\ pointer = [k \in Candidates |-> None]
  /\ pauses = 0
  /\ raced = FALSE

-----------------------------------------------------------------------------
(* A run and its two locks: that of its candidate, then a slot. *)

Alive(r) == r \in Runs /\ pc[r] \notin {"idle", "crashed", "done"}

Go(r, at) == pc' = [pc EXCEPT ![r] = at]

(* An error is on its way: what has been built does not count. *)
Fail(r) ==
  /\ failed' = [failed EXCEPT ![r] = TRUE]
  /\ build' = [build EXCEPT ![r] = None]

WithLock == {"reuse", "slot", "slotEvict", "slotOwner", "build", "check",
             "stage", "promote", "point", "commit", "slotRelease", "slotRename"}
WithSlot == {"build", "check", "stage", "promote", "point", "commit"}

(* The lock a step of the run is about. *)
Wanted(r) == IF pc[r] \in {"slot", "slotEvict", "slotOwner", "slotRelease", "slotRename"}
               THEN slot[r] ELSE candidate[r]

(* It has made the directory and not given it back. *)
Holds(r, x) ==
  \/ x = candidate[r] /\ pc[r] \in WithLock \cup {"lockOwner", "lockRelease", "lockRename"}
  \/ x = slot[r] /\ pc[r] \in WithSlot \cup {"slotOwner", "slotRelease", "slotRename"}

(* Its heartbeat runs. *)
Beats(r, x) ==
  \/ x = candidate[r] /\ pc[r] \in WithLock
  \/ x = slot[r] /\ pc[r] \in WithSlot

(* What stands under the path goes, whoever made it. *)
Remove(r, x, expected) ==
  /\ dirs' = [dirs EXCEPT ![x] = NoDir]
  /\ raced' = (raced \/ (dirs[x].made /\ dirs[x] # expected))

(* assertOwnedDirectory. *)
Owns(r, x) == dirs[x] = OwnedBy(r)

-----------------------------------------------------------------------------
(* Acquiring. *)

PassPreflight(r) ==
  /\ pc[r] = "preflight"
  /\ Go(r, "lock")
  /\ UNCHANGED <<failed, candidate, slot, build, seen, dirs, shared, pauses, raced>>

AcquireMaterializationLock(r) ==
  /\ pc[r] = "lock" /\ ~dirs[candidate[r]].made
  /\ dirs' = [dirs EXCEPT ![candidate[r]] = Made]
  /\ Go(r, "lockOwner")
  /\ UNCHANGED <<failed, candidate, slot, build, seen, shared, pauses, raced>>

AcquireMaterializationSlot(r) ==
  /\ pc[r] = "slot"
  /\ \E x \in Slots :
       /\ ~dirs[x].made
       /\ dirs' = [dirs EXCEPT ![x] = Made]
       /\ slot' = [slot EXCEPT ![r] = x]
  /\ Go(r, "slotOwner")
  /\ UNCHANGED <<failed, candidate, build, seen, shared, pauses, raced>>

(* A failed write removes the directory and gives up; without a directory  *)
(* the write fails.                                                        *)
CleanupFailedOwnerWrite(r) ==
  /\ Remove(r, Wanted(r), Made)
  /\ Fail(r)
  /\ Go(r, IF pc[r] = "lockOwner" THEN "failing" ELSE "lockRelease")
  /\ slot' = [slot EXCEPT ![r] = None]
  /\ UNCHANGED <<candidate, seen, shared, pauses>>

WriteLockOwner(r) ==
  /\ pc[r] \in {"lockOwner", "slotOwner"}
  /\ IF dirs[Wanted(r)].made
       THEN /\ dirs' = [dirs EXCEPT ![Wanted(r)] = OwnedBy(r)]
            /\ Go(r, IF pc[r] = "lockOwner" THEN "reuse" ELSE "build")
            /\ UNCHANGED <<failed, candidate, slot, build, seen, shared, pauses, raced>>
       ELSE CleanupFailedOwnerWrite(r)

-----------------------------------------------------------------------------
(* Waiting: what a waiter removes. *)

(* Mutant: the process of the owner is not asked for. *)
RecoverableIfStale(d) == d.stale \/ d.overdue

(* Mutant: a directory without an owner.json is left alone. *)
RecoverableOwner(d) == d.by # None /\ (d.overdue \/ (d.stale /\ ~Alive(d.by)))

Recoverable(d) ==
  /\ d.made
  /\ IF d.by = None THEN d.stale ELSE d.overdue \/ (d.stale /\ ~Alive(d.by))

RecoverStaleMaterializationLock(r) ==
  /\ pc[r] \in {"lock", "slot"}
  /\ \E x \in IF pc[r] = "lock" THEN {candidate[r]} ELSE Slots :
       /\ Recoverable(dirs[x])
       /\ seen' = [seen EXCEPT ![r] = dirs[x]]
       /\ slot' = [slot EXCEPT ![r] = IF pc[r] = "slot" THEN x ELSE None]
  /\ Go(r, IF pc[r] = "lock" THEN "lockEvict" ELSE "slotEvict")
  /\ UNCHANGED <<failed, candidate, build, dirs, shared, pauses, raced>>

RemoveStaleLockDirectory(r) ==
  /\ pc[r] \in {"lockEvict", "slotEvict"}
  /\ Remove(r, Wanted(r), seen[r])
  /\ seen' = [seen EXCEPT ![r] = NoDir]
  /\ slot' = [slot EXCEPT ![r] = None]
  /\ Go(r, IF pc[r] = "lockEvict" THEN "lock" ELSE "slot")
  /\ UNCHANGED <<failed, candidate, build, shared, pauses>>

-----------------------------------------------------------------------------
(* Reusing, building and publishing. *)

(* A stored candidate is verified; one that is not whole is refused, which  *)
(* is one of the ways a stage is interrupted.                               *)
ReadReusableMaterialization(r) ==
  /\ pc[r] = "reuse"
  /\ LET b == pointer[candidate[r]] IN
       \/ b = None /\ Go(r, "slot") /\ UNCHANGED build
       \/ /\ b # None /\ store[candidate[r]][b] = "whole"
          /\ build' = [build EXCEPT ![r] = b]
          /\ Go(r, "lockRelease")
  /\ UNCHANGED <<failed, candidate, slot, seen, dirs, shared, pauses, raced>>

(* In a sandbox of the run's own, which is removed again. *)
Build(r) ==
  /\ pc[r] = "build"
  /\ \E b \in BuildsOf[candidate[r]] : build' = [build EXCEPT ![r] = b]
  /\ Go(r, "check")
  /\ UNCHANGED <<failed, candidate, slot, seen, dirs, shared, pauses, raced>>

(* Fetched at its commit, installed, built and packed.  What npm installs  *)
(* and what a package depends on may differ from build to build.           *)
MaterializeGitCommit(r) == candidate[r] \in GitCandidates /\ Build(r)

(* Downloaded; the integrity of every package is that of the candidate.    *)
MaterializeNpmRelease(r) == candidate[r] \in NpmCandidates /\ Build(r)

(* The ownership is asserted, and the run goes on or unwinds. *)
AssertOwnership(r, from, to) ==
  /\ pc[r] = from
  /\ IF Owns(r, slot[r]) /\ Owns(r, candidate[r])
       THEN Go(r, to) /\ UNCHANGED <<failed, build>>
       ELSE Go(r, "slotRelease") /\ Fail(r)
  /\ UNCHANGED <<candidate, slot, seen, dirs, shared, pauses, raced>>

(* Copied, verified and marked complete in a directory of its own. *)
StageArtifacts(r) == AssertOwnership(r, "stage", "promote")

(* Mutant: the pointer is written first. *)
PointFirst(r) ==
  /\ pc[r] = "promote"
  /\ pointer' = [pointer EXCEPT ![candidate[r]] = build[r]]
  /\ Go(r, "point")
  /\ UNCHANGED <<failed, candidate, slot, build, seen, dirs, store, pauses, raced>>

(* The rename, or the verification of what another run has put there. *)
PromoteArtifacts(r) ==
  /\ pc[r] = "promote"
  /\ store' = [store EXCEPT ![candidate[r]][build[r]] = "whole"]
  /\ Go(r, "point")
  /\ UNCHANGED <<failed, candidate, slot, build, seen, dirs, pointer, pauses, raced>>

(* No deadline counts after the rename; what is left of the staging        *)
(* directories may still fail to be removed.                               *)
CommitPointer(r) ==
  /\ pc[r] = "commit"
  /\ pointer' = [pointer EXCEPT ![candidate[r]] = build[r]]
  /\ UNCHANGED <<failed, build>> \/ Fail(r)
  /\ Go(r, "slotRelease")
  /\ UNCHANGED <<candidate, slot, seen, dirs, store, pauses, raced>>

-----------------------------------------------------------------------------
(* Releasing: read, then renamed away; a lock that was lost is let be. *)

AfterRelease(r) ==
  IF pc[r] \in {"slotRelease", "slotRename"} THEN "lockRelease"
  ELSE IF ~failed[r] THEN "materialised" ELSE "failing"

(* The slot is behind the run. *)
Leave(r) == Go(r, AfterRelease(r)) /\ slot' = [slot EXCEPT ![r] = None]

ReleaseOwnedDirectory(r) ==
  /\ pc[r] \in {"slotRelease", "lockRelease"}
  /\ IF dirs[Wanted(r)].by # r
       THEN Leave(r)
       ELSE /\ Go(r, IF pc[r] = "slotRelease" THEN "slotRename" ELSE "lockRename")
            /\ UNCHANGED slot
  /\ UNCHANGED <<failed, candidate, build, seen, dirs, shared, pauses, raced>>

RenameReleased(r) ==
  /\ pc[r] \in {"slotRename", "lockRename"}
  /\ Remove(r, Wanted(r), [OwnedBy(r) EXCEPT !.stale = dirs[Wanted(r)].stale,
                                             !.overdue = dirs[Wanted(r)].overdue])
  /\ Leave(r)
  /\ UNCHANGED <<failed, candidate, build, seen, shared, pauses>>

(* The heartbeat had failed, or the files cannot be read: the directory    *)
(* stays and the run fails, but the other lock is still released.          *)
FailRelease(r) ==
  /\ pc[r] \in {"slotRelease", "slotRename", "lockRelease", "lockRename"}
  /\ Fail(r)
  /\ Go(r, IF AfterRelease(r) = "lockRelease" THEN "lockRelease" ELSE "failing")
  /\ slot' = [slot EXCEPT ![r] = None]
  /\ UNCHANGED <<candidate, seen, dirs, shared, pauses, raced>>

-----------------------------------------------------------------------------
(* What goes wrong. *)

(* owner.json cannot be written, and then perhaps its directory not be     *)
(* removed.                                                                *)
FailOwnerWrite(r) ==
  /\ pc[r] \in {"lockOwner", "slotOwner"}
  /\ \/ CleanupFailedOwnerWrite(r)
     \/ /\ Fail(r)
        /\ Go(r, IF pc[r] = "lockOwner" THEN "failing" ELSE "lockRelease")
        /\ slot' = [slot EXCEPT ![r] = None]
        /\ UNCHANGED <<candidate, seen, dirs, shared, pauses, raced>>

(* A deadline, a cancellation, a command or the file system ends what the  *)
(* run was doing; the locks it holds are released.                         *)
InterruptStage(r) ==
  /\ pc[r] \in {"preflight", "lock", "lockEvict", "reuse", "slot", "slotEvict"} \cup WithSlot
  /\ Fail(r)
  /\ seen' = [seen EXCEPT ![r] = NoDir]
  /\ Go(r, IF pc[r] \in {"preflight", "lock", "lockEvict"} THEN "failing"
           ELSE IF pc[r] \in WithSlot THEN "slotRelease" ELSE "lockRelease")
  /\ slot' = [slot EXCEPT ![r] = IF pc[r] \in WithSlot THEN @ ELSE None]
  /\ UNCHANGED <<candidate, dirs, shared, pauses, raced>>

MaterializationFails(r) == FailOwnerWrite(r) \/ InterruptStage(r) \/ FailRelease(r)

(* A heartbeat goes to the file under the path. *)
LockHeartbeat(r) ==
  /\ \E x \in Locks :
       /\ Beats(r, x)
       /\ dirs[x].by # None /\ dirs[x].stale
       /\ dirs' = [dirs EXCEPT ![x].stale = FALSE]
  /\ UNCHANGED <<locals, shared, pauses, raced>>

(* A live process may be paused between mkdir and the owner's file, ... *)
MakerPaused(x) == \E r \in Runs : pc[r] \in {"lockOwner", "slotOwner"} /\ Wanted(r) = x

(* Thirty seconds without a heartbeat. *)
GoStale(x) ==
  /\ dirs[x].made /\ ~dirs[x].stale
  /\ (dirs[x].by = None /\ MakerPaused(x)) => pauses < MaxPauses
  /\ dirs' = [dirs EXCEPT ![x].stale = TRUE]
  /\ pauses' = IF dirs[x].by = None /\ MakerPaused(x) THEN pauses + 1 ELSE pauses
  /\ UNCHANGED <<locals, shared, raced>>

(* ... or hold a lock for two hours. *)
GoOverdue(x) ==
  /\ Alive(dirs[x].by) /\ ~dirs[x].overdue /\ pauses < MaxPauses
  /\ dirs' = [dirs EXCEPT ![x].overdue = TRUE]
  /\ pauses' = pauses + 1
  /\ UNCHANGED <<locals, shared, raced>>

MaterializationStep(r) ==
  \/ PassPreflight(r)
  \/ AcquireMaterializationLock(r) \/ AcquireMaterializationSlot(r) \/ WriteLockOwner(r)
  \/ RecoverStaleMaterializationLock(r) \/ RemoveStaleLockDirectory(r)
  \/ ReadReusableMaterialization(r) \/ MaterializeGitCommit(r) \/ MaterializeNpmRelease(r)
  \/ AssertOwnership(r, "check", "stage") \/ StageArtifacts(r) \/ PromoteArtifacts(r)
  \/ AssertOwnership(r, "point", "commit") \/ CommitPointer(r)
  \/ ReleaseOwnedDirectory(r) \/ RenameReleased(r)

Time == \E x \in Locks : GoStale(x) \/ GoOverdue(x)
=============================================================================
