----------------------- MODULE CompatibilityRunProofs -----------------------
(***************************************************************************)
(* Proofs about CompatibilityRun for every set of runs, candidates, builds *)
(* and slots, and every bound on the pauses.                               *)
(*                                                                         *)
(* The invariants, each on top of those before it: TypeOK; RunsInv, what a *)
(* run has built, passed and reported at each point of its way; StoreInv,  *)
(* what has been promoted before it is pointed to; LocksInv, what the      *)
(* directory of a lock says while nothing has outlived its lock, so that   *)
(* one run holds it; and BuildsInv, who then agrees with the pointers.     *)
(***************************************************************************)
EXTENDS CompatibilityRun, TLAPS

Building == {"check", "stage", "promote", "point", "commit"}
Releasing == {"slotRelease", "slotRename", "lockRelease", "lockRename"}
Verifying == {"setup", "copy", "install", "resolution", "typecheck", "contract",
              "vertical", "root", "ports", "smoke", "cleanup", "report", "promotion"}
WithSlotName == WithSlot \cup {"slotEvict", "slotOwner", "slotRelease", "slotRename"}
Points == {"idle", "environment", "preflight", "lock", "lockEvict", "lockOwner", "reuse",
           "slot", "slotEvict", "slotOwner", "build", "materialised", "failing",
           "done", "crashed"} \cup Building \cup Releasing \cup Verifying

Dir == [made : BOOLEAN, by : Runs \cup {Earlier, None}, stale : BOOLEAN, overdue : BOOLEAN]
GateStates == [1..7 -> {"NOT_RUN", "PASSED", "FAILED"}]
Report == [directory : {"none", "failure", "candidate"}, gates : GateStates,
           artifacts : Builds \cup {None}]

TypeOK ==
  /\ pc \in [Runs -> Points]
  /\ failed \in [Runs -> BOOLEAN]
  /\ candidate \in [Runs -> Candidates]
  /\ slot \in [Runs -> Slots \cup {None}]
  /\ build \in [Runs -> Builds \cup {None}]
  /\ seen \in [Runs -> Dir]
  /\ dirs \in [Locks -> Dir]
  /\ store \in [Candidates -> [Builds -> {"absent", "whole"}]]
  /\ pointer \in [Candidates -> Builds \cup {None}]
  /\ pauses \in Nat
  /\ raced \in BOOLEAN
  /\ passed \in [Runs -> 0..7]
  /\ passedGateStates \in [Runs -> GateStates]
  /\ report \in [Runs -> Report]

-----------------------------------------------------------------------------
(* What a run has at each point of its way.                                *)

HasBuild(r) ==
  /\ pc[r] \in Building \cup {"materialised"} \cup Verifying => build[r] \in Builds
  /\ pc[r] \in Releasing /\ ~failed[r] => build[r] \in Builds
  /\ pc[r] \in Verifying => build[r] \notin Mixed

HasSlot(r) == pc[r] \in WithSlotName => slot[r] \in Slots

(* The gates a run has passed at a point of its way. *)
PassedAt(r, at) ==
  IF at \in {"setup", "copy", "install", "resolution", "typecheck"} THEN 2
  ELSE IF at = "contract" THEN 3
  ELSE IF at = "vertical" THEN 4
  ELSE IF at \in {"root", "ports"} THEN 5
  ELSE IF at = "smoke" THEN 6
  ELSE IF at \in {"cleanup", "report", "promotion"} THEN (IF r \in ModelRuns THEN 7 ELSE 6)
  ELSE 0

HasPassed(r) ==
  /\ pc[r] # "done" => passed[r] = PassedAt(r, pc[r])
  /\ pc[r] # "done" =>
       passedGateStates[r] =
         IF pc[r] \in {"report", "promotion"} THEN SuccessGateStates(r) ELSE NoStates
  /\ pc[r] # "done" => report[r] = NoReport
  /\ pc[r] = "smoke" => r \in ModelRuns

HonestReport(r) ==
  /\ \A n \in DOMAIN Gates : report[r].gates[n] = "PASSED" => n <= passed[r]
  /\ report[r].directory = "candidate" =>
       /\ passed[r] = IF r \in ModelRuns THEN 7 ELSE 6
       /\ report[r].artifacts \in Builds \ Mixed

RunInv(r) == HasBuild(r) /\ HasSlot(r) /\ HasPassed(r) /\ HonestReport(r)

RunsInv == \A r \in Runs : RunInv(r)

(* What is promoted stays, and only what is promoted is pointed to. *)
StoreInv ==
  /\ PublishedIsWhole
  /\ \A r \in Runs : pc[r] \in {"point", "commit"} =>
       store[candidate[r]][build[r]] = "whole"

-----------------------------------------------------------------------------
(* The locks, while no live process outlives what its lock grants it and   *)
(* no directory has gone but the one that was read.                        *)

Sound == pauses = 0 /\ ~raced

Writing(r, x) == (pc[r] = "lockOwner" /\ x = candidate[r]) \/ (pc[r] = "slotOwner" /\ x = slot[r])

(* The directory of a lock is that of the run that holds it. *)
HeldDir(r, x) ==
  IF Writing(r, x) THEN dirs[x] = Made ELSE dirs[x].made /\ dirs[x].by = r

(* An owner has begun; nothing is overdue that nobody was paused for. *)
OwnerKnown(d) ==
  /\ d.by \in Runs => pc[d.by] # "idle"
  /\ pauses = 0 => ~d.overdue

Evictable(d) == d.made /\ (IF d.by = None THEN d.stale ELSE ~d.overdue => ~Alive(d.by))

Exclusive ==
  \A x \in Locks : \A r, s \in Runs : Holds(r, x) /\ Holds(s, x) => r = s

SeenInv ==
  /\ \A x \in Locks : OwnerKnown(dirs[x])
  /\ \A r \in Runs : OwnerKnown(seen[r])
  /\ \A r \in Runs : pc[r] \in {"lockEvict", "slotEvict"} => Evictable(seen[r])

HeldInv ==
  Sound => /\ \A r \in Runs, x \in Locks : Holds(r, x) => HeldDir(r, x)
           /\ Exclusive

LocksInv == SeenInv /\ HeldInv

(* Who builds has found no pointer; who has built or reuses agrees with it. *)
Unpublished == {"slot", "slotEvict", "slotOwner", "build"} \cup Building
Agreeing == Releasing \cup {"materialised"} \cup Verifying

BuildsInv ==
  Sound => \A r \in Runs :
    /\ pc[r] \in Unpublished => pointer[candidate[r]] = None
    /\ pc[r] \in Agreeing /\ build[r] # None => pointer[candidate[r]] = build[r]
    /\ report[r].directory = "candidate" => pointer[candidate[r]] = report[r].artifacts

-----------------------------------------------------------------------------
(* The directories a lock's path may lead to. *)
LEMMA DirsTyped ==
  /\ NoDir \in Dir /\ Made \in Dir
  /\ \A r \in Runs : OwnedBy(r) \in Dir
  /\ OwnedBy(Earlier) \in Dir
BY DEF NoDir, Made, OwnedBy, Dir

(* What every step but the pointers' keeps of the shared state. *)
SharedTyped ==
  /\ dirs \in [Locks -> Dir]
  /\ store \in [Candidates -> [Builds -> {"absent", "whole"}]]
  /\ pointer \in [Candidates -> Builds \cup {None}]
  /\ pauses \in Nat
  /\ raced \in BOOLEAN

LocalsTyped ==
  /\ pc \in [Runs -> Points]
  /\ failed \in [Runs -> BOOLEAN]
  /\ candidate \in [Runs -> Candidates]
  /\ slot \in [Runs -> Slots \cup {None}]
  /\ build \in [Runs -> Builds \cup {None}]
  /\ seen \in [Runs -> Dir]

OutcomeTyped ==
  /\ passed \in [Runs -> 0..7]
  /\ passedGateStates \in [Runs -> GateStates]
  /\ report \in [Runs -> Report]

(* Removing a lock's directory keeps to the types. *)
LEMMA RemoveTyped ==
  ASSUME TypeOK, NEW r \in Runs, NEW x, NEW e, Remove(r, x, e)
  PROVE  dirs' \in [Locks -> Dir] /\ raced' \in BOOLEAN
BY DirsTyped DEF TypeOK, Remove

(* A step of the materialization keeps to the types. *)
LEMMA MaterializationTyped ==
  ASSUME TypeOK, NEW r \in Runs, MaterializationStep(r)
  PROVE  LocalsTyped' /\ SharedTyped'
<1> DEFINE Typed == LocalsTyped' /\ SharedTyped'
<1> USE DEF TypeOK, LocalsTyped, SharedTyped, vars, locals, shared, Go, Fail
<1>1. CASE PassPreflight(r)
  BY <1>1 DEF PassPreflight, Points
<1>2. CASE AcquireMaterializationLock(r)
  BY <1>2, DirsTyped DEF AcquireMaterializationLock, Points
<1>3. CASE AcquireMaterializationSlot(r)
  BY <1>3, DirsTyped, ZenonT(60) DEF AcquireMaterializationSlot, Points
<1>4. CASE WriteLockOwner(r)
  <2>1. CASE CleanupFailedOwnerWrite(r)
    BY <2>1, RemoveTyped DEF CleanupFailedOwnerWrite, Points, Releasing
  <2>2. CASE ~CleanupFailedOwnerWrite(r)
    BY <1>4, <2>2, DirsTyped DEF WriteLockOwner, Points
  <2> QED
    BY <2>1, <2>2
<1>5. CASE RecoverStaleMaterializationLock(r)
  BY <1>5 DEF RecoverStaleMaterializationLock, Points, Locks
<1>6. CASE RemoveStaleLockDirectory(r)
  BY <1>6, RemoveTyped, DirsTyped DEF RemoveStaleLockDirectory, Points
<1>7. CASE ReadReusableMaterialization(r)
  BY <1>7 DEF ReadReusableMaterialization, Points, Releasing
<1>8. CASE Build(r)
  BY <1>8, MaterializationAssumption DEF Build, Points, Building
<1>9. ASSUME NEW from, NEW to \in {"stage", "promote", "commit"}, AssertOwnership(r, from, to)
      PROVE  Typed
  BY <1>9, ZenonT(60) DEF AssertOwnership, Points, Building, Releasing
<1>10. CASE PromoteArtifacts(r)
  BY <1>10 DEF PromoteArtifacts, Points, Building
<1>11. CASE CommitPointer(r)
  BY <1>11 DEF CommitPointer, Points, Releasing
<1>12. CASE ReleaseOwnedDirectory(r)
  BY <1>12 DEF ReleaseOwnedDirectory, Leave, AfterRelease, Points, Releasing
<1>13. CASE RenameReleased(r)
  BY <1>13, RemoveTyped DEF RenameReleased, Leave, AfterRelease, Points, Releasing
<1> QED
  BY Zenon, <1>1, <1>2, <1>3, <1>4, <1>5, <1>6, <1>7, <1>8, <1>9, <1>10, <1>11, <1>12, <1>13
     DEF MaterializationStep, MaterializeGitCommit, MaterializeNpmRelease, StageArtifacts

(* The reports a run may form. *)
LEMMA GatesTyped ==
  /\ DOMAIN Gates = 1..7 /\ NoStates \in GateStates /\ NoReport \in Report
  /\ \A r \in Runs : SuccessGateStates(r) \in GateStates
  /\ \A g : FailureGateStates(g) \in GateStates
<1>1. DOMAIN Gates = 1..7
  BY DEF Gates
<1> QED
  BY <1>1 DEF NoStates, NoReport, GateStates, Report, SuccessGateStates, FailureGateStates

(* How a run ends keeps to the types. *)
LEMMA ForgetTyped ==
  ASSUME TypeOK, NEW r \in Runs, NEW at \in {"done", "crashed"}, NEW gates \in 0..7,
         Forget(r, at, gates)
  PROVE  /\ LocalsTyped' /\ SharedTyped'
         /\ passed' \in [Runs -> 0..7] /\ passedGateStates' \in [Runs -> GateStates]
BY GatesTyped, DirsTyped
   DEF TypeOK, LocalsTyped, SharedTyped, Forget, Go, Points, shared

(* A run that ends in failure keeps to the types. *)
LEMMA EndInFailureTyped ==
  ASSUME TypeOK, NEW r \in Runs, NEW gate, NEW gates \in 0..7, EndInFailure(r, gate, gates)
  PROVE  LocalsTyped' /\ SharedTyped' /\ OutcomeTyped'
<1>1. LocalsTyped' /\ SharedTyped'
      /\ passed' \in [Runs -> 0..7] /\ passedGateStates' \in [Runs -> GateStates]
  BY ForgetTyped DEF EndInFailure
<1>2. report' \in [Runs -> Report]
  <2> DEFINE states == IF passedGateStates[r][Number("G")] = "PASSED"
                         THEN passedGateStates[r] ELSE FailureGateStates(gate)
  <2>1. states \in GateStates
    BY GatesTyped DEF TypeOK
  <2>2. report' = report
        \/ report' = [report EXCEPT ![r] = [NoReport EXCEPT !.directory = "failure",
                                                            !.gates = states]]
    BY DEF EndInFailure
  <2> HIDE DEF states
  <2>3. [NoReport EXCEPT !.directory = "failure", !.gates = states] \in Report
    BY <2>1, GatesTyped DEF Report
  <2> QED
    BY <2>2, <2>3 DEF TypeOK
<1> QED
  BY <1>1, <1>2 DEF OutcomeTyped

(* A stage keeps to the types, whether it passes or fails. *)
LEMMA StageTyped ==
  ASSUME TypeOK, NEW r \in Runs, NEW at, NEW gate, NEW to \in Points, NEW gates \in 0..7,
         Stage(r, at, gate, to, gates)
  PROVE  LocalsTyped' /\ SharedTyped' /\ OutcomeTyped'
<1>1. passed[r] \in 0..7
  BY DEF TypeOK
<1>2. CASE EndInFailure(r, gate, passed[r])
  BY <1>1, <1>2, EndInFailureTyped
<1>3. CASE Go(r, to) /\ passed' = [passed EXCEPT ![r] = gates]
           /\ UNCHANGED <<passedGateStates, report, storeVars>>
  BY <1>3 DEF TypeOK, LocalsTyped, SharedTyped, OutcomeTyped, Go, storeVars, shared
<1> QED
  BY <1>2, <1>3 DEF Stage

(* A step of the verification keeps to the types. *)
LEMMA VerificationTyped ==
  ASSUME TypeOK, NEW r \in Runs,
         \/ Begin(r) \/ DescribeEnvironment(r) \/ FailMaterialization(r)
         \/ ValidateMaterializedCandidate(r) \/ VerificationStage(r)
         \/ CleanUp(r) \/ WriteReport(r) \/ PromoteRun(r) \/ Crash(r)
  PROVE  LocalsTyped' /\ SharedTyped' /\ OutcomeTyped'
<1> DEFINE Typed == LocalsTyped' /\ SharedTyped' /\ OutcomeTyped'
<1>0. /\ {"environment", "preflight"} \cup Verifying \subseteq Points
      /\ 0..7 \subseteq Int /\ passed[r] \in 0..7
  BY DEF Points, Verifying, TypeOK
<1>1. CASE Begin(r) \/ DescribeEnvironment(r)
  BY <1>0, <1>1, StageTyped DEF Begin, DescribeEnvironment
<1>2. CASE FailMaterialization(r)
  BY <1>2, EndInFailureTyped DEF FailMaterialization
<1>3. CASE ValidateMaterializedCandidate(r)
  <2>1. CASE EndInFailure(r, "B", 1)
    BY <2>1, EndInFailureTyped
  <2>2. CASE Go(r, "setup") /\ passed' = [passed EXCEPT ![r] = 2]
             /\ UNCHANGED <<passedGateStates, report, storeVars>>
    BY <2>2 DEF TypeOK, LocalsTyped, SharedTyped, OutcomeTyped, Go, storeVars, shared,
                Points, Verifying
  <2> QED
    BY <1>3, <2>1, <2>2 DEF ValidateMaterializedCandidate
<1>4. CASE VerificationStage(r)
  <2>1. ASSUME NEW at, NEW gate, NEW to \in Verifying, NEW gates \in 2..7,
               Stage(r, at, gate, to, gates)
        PROVE  Typed
    BY <1>0, <2>1, StageTyped
  <2> HIDE DEF Typed
  <2>2. ASSUME CheckPackageManager(r) \/ CopyChoiceMind(r) PROVE Typed
    BY <2>1, <2>2 DEF CheckPackageManager, CopyChoiceMind, Verifying
  <2>3. ASSUME InstallCandidate(r) \/ ResolveDependencies(r) PROVE Typed
    BY <2>1, <2>3 DEF InstallCandidate, ResolveDependencies, Verifying
  <2>4. ASSUME CheckInterface(r) \/ TestContract(r) PROVE Typed
    BY <2>1, <2>4 DEF CheckInterface, TestContract, Verifying
  <2>5. ASSUME TestVertical(r) \/ VerifyRoot(r) PROVE Typed
    BY <2>1, <2>5 DEF TestVertical, VerifyRoot, Verifying
  <2>6. ASSUME CheckPortsReleased(r) \/ SmokeLocalModel(r) PROVE Typed
    BY <2>1, <2>6 DEF CheckPortsReleased, SmokeLocalModel, Verifying
  <2> QED
    BY <1>4, <2>2, <2>3, <2>4, <2>5, <2>6 DEF VerificationStage, Typed
<1>5. CASE CleanUp(r)
  <2>1. CASE EndInFailure(r, "F", passed[r])
    BY <1>0, <2>1, EndInFailureTyped
  <2>2. CASE Go(r, "report")
             /\ passedGateStates' = [passedGateStates EXCEPT ![r] = SuccessGateStates(r)]
             /\ UNCHANGED <<passed, report, storeVars>>
    BY <2>2, GatesTyped DEF TypeOK, LocalsTyped, SharedTyped, OutcomeTyped, Go, storeVars,
                            shared, Points, Verifying
  <2> QED
    BY <1>5, <2>1, <2>2 DEF CleanUp
<1>6. CASE WriteReport(r)
  BY <1>0, <1>6, StageTyped DEF WriteReport, Verifying
<1>7. CASE PromoteRun(r)
  <2>1. CASE EndInFailure(r, "F", passed[r])
    BY <1>0, <2>1, EndInFailureTyped
  <2>2. CASE Forget(r, "done", passed[r])
             /\ report' = [report EXCEPT ![r] = [directory |-> "candidate",
                                                 gates |-> passedGateStates[r],
                                                 artifacts |-> build[r]]]
    <3>1. LocalsTyped' /\ SharedTyped'
          /\ passed' \in [Runs -> 0..7] /\ passedGateStates' \in [Runs -> GateStates]
      BY <1>0, <2>2, ForgetTyped
    <3>2. report' \in [Runs -> Report]
      BY <2>2 DEF TypeOK, Report
    <3> QED
      BY <3>1, <3>2 DEF OutcomeTyped
  <2> QED
    BY <1>7, <2>1, <2>2 DEF PromoteRun
<1>8. CASE Crash(r)
  BY <1>8, ForgetTyped DEF Crash, OutcomeTyped, TypeOK
<1> QED
  BY <1>1, <1>2, <1>3, <1>4, <1>5, <1>6, <1>7, <1>8

(* A directory whose age is marked is still a directory. *)
LEMMA MarkTyped ==
  ASSUME TypeOK, NEW x \in Locks, NEW b \in BOOLEAN,
         \/ dirs' = [dirs EXCEPT ![x].stale = b]
         \/ dirs' = [dirs EXCEPT ![x].overdue = b]
  PROVE  dirs' \in [Locks -> Dir]
<1>0. dirs[x] \in Dir
  BY DEF TypeOK
<1>1. \A d \in Dir : [d EXCEPT !.stale = b] \in Dir /\ [d EXCEPT !.overdue = b] \in Dir
  BY DEF Dir
<1>2. PICK d \in Dir : dirs' = [dirs EXCEPT ![x] = d]
  BY <1>0, <1>1
<1> QED
  BY <1>2 DEF TypeOK

(* A failure of the materialization and a heartbeat keep to the types. *)
LEMMA DisturbanceTyped ==
  ASSUME TypeOK, NEW r \in Runs, MaterializationFails(r) \/ LockHeartbeat(r)
  PROVE  LocalsTyped' /\ SharedTyped'
<1> USE DEF TypeOK, LocalsTyped, SharedTyped, locals, shared, Go, Fail
<1>1. CASE FailOwnerWrite(r)
  <2>1. CASE CleanupFailedOwnerWrite(r)
    BY <2>1, RemoveTyped DEF CleanupFailedOwnerWrite, Points, Releasing
  <2>2. CASE ~CleanupFailedOwnerWrite(r)
    BY <1>1, <2>2 DEF FailOwnerWrite, Points, Releasing
  <2> QED
    BY <2>1, <2>2
<1>2. CASE InterruptStage(r)
  BY <1>2, DirsTyped DEF InterruptStage, Points, Releasing
<1>3. CASE FailRelease(r)
  BY <1>3 DEF FailRelease, Points, Releasing
<1>4. CASE LockHeartbeat(r)
  <2>1. dirs' \in [Locks -> Dir]
    BY <1>4, MarkTyped DEF LockHeartbeat
  <2> QED
    BY <1>4, <2>1 DEF LockHeartbeat
<1> QED
  BY <1>1, <1>2, <1>3, <1>4 DEF MaterializationFails

(* The runs start within the types. *)
LEMMA InitTyped == CompatibilityInit => TypeOK
<1> SUFFICES ASSUME CompatibilityInit PROVE TypeOK
  OBVIOUS
<1>1. dirs \in [Locks -> Dir] /\ seen \in [Runs -> Dir]
  BY DirsTyped DEF CompatibilityInit, Init
<1>2. candidate \in [Runs -> Candidates] /\ pauses \in Nat /\ raced \in BOOLEAN
      /\ pc \in [Runs -> Points]
  BY DEF CompatibilityInit, Init, Points
<1>3. passedGateStates \in [Runs -> GateStates] /\ report \in [Runs -> Report]
      /\ passed \in [Runs -> 0..7]
  BY GatesTyped DEF CompatibilityInit
<1>4. store \in [Candidates -> [Builds -> {"absent", "whole"}]]
  BY DEF CompatibilityInit, Init
<1>5. /\ failed \in [Runs -> BOOLEAN] /\ slot \in [Runs -> Slots \cup {None}]
      /\ build \in [Runs -> Builds \cup {None}]
      /\ pointer \in [Candidates -> Builds \cup {None}]
  BY DEF CompatibilityInit, Init
<1> QED
  BY <1>1, <1>2, <1>3, <1>4, <1>5 DEF TypeOK

(* Every step keeps to the types. *)
LEMMA NextTyped == TypeOK /\ [Next]_runVars => TypeOK'
<1> SUFFICES ASSUME TypeOK, [Next]_runVars PROVE TypeOK'
  OBVIOUS
<1>1. (LocalsTyped /\ SharedTyped /\ OutcomeTyped)' => TypeOK'
  BY DEF TypeOK, LocalsTyped, SharedTyped, OutcomeTyped
<1>2. ASSUME UNCHANGED outcome PROVE OutcomeTyped'
  BY <1>2 DEF TypeOK, OutcomeTyped, outcome
<1>3. CASE UNCHANGED runVars
  BY <1>3 DEF runVars, vars, locals, shared, TypeOK
<1>4. ASSUME NEW r \in Runs, Begin(r) \/ RunStep(r) \/ Disturbance(r) PROVE TypeOK'
  BY <1>1, <1>2, <1>4, MaterializationTyped, VerificationTyped, DisturbanceTyped
     DEF RunStep, Disturbance
<1>5. CASE Time /\ UNCHANGED outcome
  <2>0. PICK x \in Locks : GoStale(x) \/ GoOverdue(x)
    BY <1>5 DEF Time
  <2>1. dirs' \in [Locks -> Dir]
    BY <2>0, MarkTyped DEF GoStale, GoOverdue
  <2>2. LocalsTyped' /\ SharedTyped'
    BY <2>0, <2>1 DEF GoStale, GoOverdue, TypeOK, LocalsTyped, SharedTyped, locals, shared
  <2> QED
    BY <1>1, <1>2, <1>5, <2>2
<1> QED
  BY <1>3, <1>4, <1>5 DEF Next

-----------------------------------------------------------------------------
(* A step of a run moves nothing another run has for itself.               *)

Untouched(s) ==
  /\ pc'[s] = pc[s] /\ failed'[s] = failed[s] /\ slot'[s] = slot[s]
  /\ build'[s] = build[s] /\ seen'[s] = seen[s]

OutcomeUntouched(s) ==
  /\ passed'[s] = passed[s] /\ passedGateStates'[s] = passedGateStates[s]
  /\ report'[s] = report[s]

(* ... of the materialization, ... *)
LEMMA MaterializationIsOwn ==
  ASSUME TypeOK, NEW r \in Runs, MaterializationStep(r) \/ MaterializationFails(r)
  PROVE  candidate' = candidate /\ \A s \in Runs \ {r} : Untouched(s)
<1> DEFINE Own == candidate' = candidate /\ \A s \in Runs \ {r} : Untouched(s)
<1> USE DEF Untouched, Go, Fail
<1>0. ASSUME CleanupFailedOwnerWrite(r) PROVE Own
  BY <1>0 DEF TypeOK, CleanupFailedOwnerWrite
<1>1. ASSUME \/ PassPreflight(r) \/ AcquireMaterializationLock(r)
             \/ AcquireMaterializationSlot(r)
      PROVE  Own
  BY <1>1 DEF TypeOK, PassPreflight, AcquireMaterializationLock, AcquireMaterializationSlot
<1>2. ASSUME WriteLockOwner(r) PROVE Own
  BY <1>0, <1>2 DEF TypeOK, WriteLockOwner
<1>3. ASSUME RecoverStaleMaterializationLock(r) PROVE Own
  BY <1>3 DEF TypeOK, RecoverStaleMaterializationLock
<1>4. ASSUME RemoveStaleLockDirectory(r) PROVE Own
  BY <1>4 DEF TypeOK, RemoveStaleLockDirectory
<1>5. ASSUME ReadReusableMaterialization(r) \/ Build(r) PROVE Own
  BY <1>5 DEF TypeOK, ReadReusableMaterialization, Build
<1>6. ASSUME NEW from, NEW to, AssertOwnership(r, from, to) PROVE Own
  BY <1>6 DEF TypeOK, AssertOwnership
<1>7. ASSUME PromoteArtifacts(r) \/ CommitPointer(r) PROVE Own
  BY <1>7 DEF TypeOK, PromoteArtifacts, CommitPointer
<1>8. ASSUME ReleaseOwnedDirectory(r) \/ RenameReleased(r) PROVE Own
  BY <1>8 DEF TypeOK, ReleaseOwnedDirectory, RenameReleased, Leave
<1>9. ASSUME FailOwnerWrite(r) PROVE Own
  BY <1>0, <1>9 DEF TypeOK, FailOwnerWrite
<1>10. ASSUME InterruptStage(r) \/ FailRelease(r) PROVE Own
  BY <1>10 DEF TypeOK, InterruptStage, FailRelease
<1> HIDE DEF Own
<1>11. Own
  BY Zenon, <1>1, <1>2, <1>3, <1>4, <1>5, <1>6, <1>7, <1>8, <1>9, <1>10
     DEF MaterializationStep, MaterializationFails, MaterializeGitCommit,
         MaterializeNpmRelease, StageArtifacts
<1> QED
  BY <1>11 DEF Own

(* ... or of the verification, which touches neither store nor lock. *)
LEMMA VerificationIsOwn ==
  ASSUME TypeOK, NEW r \in Runs,
         \/ Begin(r) \/ DescribeEnvironment(r) \/ FailMaterialization(r)
         \/ ValidateMaterializedCandidate(r) \/ VerificationStage(r)
         \/ CleanUp(r) \/ WriteReport(r) \/ PromoteRun(r) \/ Crash(r)
  PROVE  /\ candidate' = candidate
         /\ UNCHANGED <<dirs, shared, pauses, raced>>
         /\ \A s \in Runs \ {r} : Untouched(s) /\ OutcomeUntouched(s)
<1> DEFINE Own == /\ candidate' = candidate
                  /\ UNCHANGED <<dirs, shared, pauses, raced>>
                  /\ \A s \in Runs \ {r} : Untouched(s) /\ OutcomeUntouched(s)
<1>1. ASSUME NEW at, NEW gates, Forget(r, at, gates),
             \A s \in Runs \ {r} : report'[s] = report[s]
      PROVE  Own
  BY <1>1 DEF TypeOK, Forget, Go, Untouched, OutcomeUntouched
<1>2. ASSUME NEW gate, NEW gates, EndInFailure(r, gate, gates) PROVE Own
  <2>1. \A s \in Runs \ {r} : report'[s] = report[s]
    BY <1>2 DEF EndInFailure, TypeOK
  <2> QED
    BY <1>1, <1>2, <2>1 DEF EndInFailure
<1>3. ASSUME NEW to, Go(r, to), UNCHANGED <<report, storeVars>>,
             \A s \in Runs \ {r} : passed'[s] = passed[s]
                                /\ passedGateStates'[s] = passedGateStates[s]
      PROVE  Own
  BY <1>3 DEF TypeOK, Go, storeVars, Untouched, OutcomeUntouched
<1> HIDE DEF Own
<1>4. ASSUME NEW at, NEW gate, NEW to, NEW gates, Stage(r, at, gate, to, gates) PROVE Own
  <2>1. CASE EndInFailure(r, gate, passed[r])
    BY <1>2, <2>1
  <2>2. CASE ~EndInFailure(r, gate, passed[r])
    BY <1>3, <1>4, <2>2 DEF Stage, TypeOK
  <2> QED
    BY <2>1, <2>2
<1>5. ASSUME ValidateMaterializedCandidate(r) PROVE Own
  BY <1>2, <1>3, <1>5 DEF ValidateMaterializedCandidate, TypeOK
<1>6. ASSUME CleanUp(r) PROVE Own
  <2>1. CASE EndInFailure(r, "F", passed[r])
    BY <1>2, <2>1
  <2>2. CASE ~EndInFailure(r, "F", passed[r])
    BY <1>3, <1>6, <2>2 DEF CleanUp, TypeOK
  <2> QED
    BY <2>1, <2>2
<1>7. ASSUME PromoteRun(r) PROVE Own
  <2>1. CASE EndInFailure(r, "F", passed[r])
    BY <1>2, <2>1
  <2>2. CASE ~EndInFailure(r, "F", passed[r])
    <3>1. \A s \in Runs \ {r} : report'[s] = report[s]
      BY <1>7, <2>2 DEF PromoteRun, TypeOK
    <3> QED
      BY <1>1, <1>7, <2>2, <3>1 DEF PromoteRun
  <2> QED
    BY <2>1, <2>2
<1>8. ASSUME Crash(r) PROVE Own
  BY <1>1, <1>8 DEF Crash
<1>9. Own
  BY Zenon, <1>2, <1>4, <1>5, <1>6, <1>7, <1>8
     DEF Begin, DescribeEnvironment, FailMaterialization, VerificationStage,
         CheckPackageManager, CopyChoiceMind, InstallCandidate, ResolveDependencies,
         CheckInterface, TestContract, TestVertical, VerifyRoot, CheckPortsReleased,
         SmokeLocalModel, WriteReport
<1> QED
  BY <1>9 DEF Own

-----------------------------------------------------------------------------
(* What a run has built and which slot it is about, at each point.         *)

(* Where a run is that is materializing, and where that leaves it. *)
Materializing == {"preflight", "lock", "lockEvict", "lockOwner", "reuse", "slot",
                  "slotEvict", "slotOwner", "build"} \cup Building \cup Releasing

(* A materializing run keeps what it has built, and stays on its way. *)
LEMMA MaterializationKeepsBuild ==
  ASSUME TypeOK, NEW r \in Runs, HasBuild(r), HasSlot(r),
         MaterializationStep(r) \/ MaterializationFails(r)
  PROVE  /\ pc[r] \in Materializing
         /\ pc'[r] \in Materializing \cup {"materialised", "failing"}
         /\ HasBuild(r)' /\ HasSlot(r)'
<1> DEFINE Kept == /\ pc[r] \in Materializing
                   /\ pc'[r] \in Materializing \cup {"materialised", "failing"}
                   /\ HasBuild(r)' /\ HasSlot(r)'
<1> USE DEF HasBuild, HasSlot, Go, Fail, Materializing, Building, Releasing, Verifying,
            WithSlotName, WithSlot
<1>0. ASSUME CleanupFailedOwnerWrite(r), pc[r] \in {"lockOwner", "slotOwner"} PROVE Kept
  BY <1>0 DEF TypeOK, CleanupFailedOwnerWrite
<1>1. ASSUME PassPreflight(r) \/ AcquireMaterializationLock(r) PROVE Kept
  BY <1>1 DEF TypeOK, PassPreflight, AcquireMaterializationLock
<1>2. ASSUME AcquireMaterializationSlot(r) PROVE Kept
  BY <1>2 DEF TypeOK, AcquireMaterializationSlot
<1>3. ASSUME WriteLockOwner(r) PROVE Kept
  <2>1. CASE CleanupFailedOwnerWrite(r)
    BY <1>0, <1>3, <2>1 DEF WriteLockOwner
  <2>2. CASE ~CleanupFailedOwnerWrite(r)
    BY <1>3, <2>2 DEF TypeOK, WriteLockOwner
  <2> QED
    BY <2>1, <2>2
<1>4. ASSUME RecoverStaleMaterializationLock(r) PROVE Kept
  BY <1>4 DEF TypeOK, RecoverStaleMaterializationLock
<1>5. ASSUME RemoveStaleLockDirectory(r) PROVE Kept
  BY <1>5 DEF TypeOK, RemoveStaleLockDirectory
<1>6. ASSUME ReadReusableMaterialization(r) PROVE Kept
  BY <1>6 DEF TypeOK, ReadReusableMaterialization
<1>7. ASSUME Build(r) PROVE Kept
  BY <1>7, MaterializationAssumption DEF TypeOK, Build
<1>8. ASSUME NEW from \in {"check", "stage", "point"}, NEW to \in {"stage", "promote", "commit"},
             AssertOwnership(r, from, to)
      PROVE  Kept
  BY <1>8 DEF TypeOK, AssertOwnership
<1>9. ASSUME PromoteArtifacts(r) \/ CommitPointer(r) PROVE Kept
  BY <1>9 DEF TypeOK, PromoteArtifacts, CommitPointer
<1>10. ASSUME ReleaseOwnedDirectory(r) \/ RenameReleased(r) PROVE Kept
  BY <1>10 DEF TypeOK, ReleaseOwnedDirectory, RenameReleased, Leave, AfterRelease
<1>11. ASSUME FailOwnerWrite(r) PROVE Kept
  <2>1. CASE CleanupFailedOwnerWrite(r)
    BY <1>0, <1>11, <2>1 DEF FailOwnerWrite
  <2>2. CASE ~CleanupFailedOwnerWrite(r)
    BY <1>11, <2>2 DEF TypeOK, FailOwnerWrite
  <2> QED
    BY <2>1, <2>2
<1>12. ASSUME InterruptStage(r) PROVE Kept
  BY <1>12 DEF TypeOK, InterruptStage
<1>13. ASSUME FailRelease(r) PROVE Kept
  BY <1>13 DEF TypeOK, FailRelease, AfterRelease
<1> HIDE DEF Kept
<1>14. Kept
  BY Zenon, <1>1, <1>2, <1>3, <1>4, <1>5, <1>6, <1>7, <1>8, <1>9, <1>10, <1>11, <1>12, <1>13
     DEF MaterializationStep, MaterializationFails, MaterializeGitCommit,
         MaterializeNpmRelease, StageArtifacts
<1> QED
  BY <1>14 DEF Kept

-----------------------------------------------------------------------------
(* What a run has passed and reports.                                      *)

(* The gates in their order. *)
LEMMA GateNumbers ==
  /\ Number("A") = 1 /\ Number("B") = 2 /\ Number("C") = 3 /\ Number("D") = 4
  /\ Number("E") = 5 /\ Number("F") = 6 /\ Number("G") = 7
BY GatesTyped DEF Number, Gates

(* A failure is reported of the gates before the one that failed.          *)
LEMMA FailureIsHonest ==
  ASSUME NEW gate \in {"A", "B", "C", "D", "E", "F", "G"}, NEW gates \in 0..7,
         Number(gate) <= gates + 1
  PROVE  \A n \in DOMAIN Gates : FailureGateStates(gate)[n] = "PASSED" => n <= gates
BY GatesTyped, GateNumbers DEF FailureGateStates

(* A run that ends in failure leaves an honest report. *)
LEMMA EndInFailureKeeps ==
  ASSUME TypeOK, NEW r \in Runs, RunInv(r), Alive(r) \/ pc[r] = "idle",
         NEW gate \in {"A", "B", "C", "D", "E", "F", "G"}, NEW gates \in 0..7,
         Number(gate) <= gates + 1, passed[r] <= gates, EndInFailure(r, gate, gates)
  PROVE  RunInv(r)'
<1>1. pc'[r] = "done" /\ build'[r] = None /\ passed'[r] \in 0..7
  BY DEF EndInFailure, Forget, Go, TypeOK
<1>2. HasBuild(r)' /\ HasSlot(r)' /\ HasPassed(r)'
  BY <1>1 DEF HasBuild, HasSlot, HasPassed, Building, Verifying, Releasing, WithSlotName, WithSlot
<1>3. report[r] = NoReport
  BY DEF RunInv, HasPassed, Alive
<1>4. ASSUME report' = report PROVE HonestReport(r)'
  BY <1>1, <1>3, <1>4, GatesTyped DEF HonestReport, NoReport, NoStates
<1>5. ASSUME report' # report PROVE HonestReport(r)'
  <2> DEFINE states == IF passedGateStates[r][Number("G")] = "PASSED"
                         THEN passedGateStates[r] ELSE FailureGateStates(gate)
  <2>1. \A n \in DOMAIN Gates : states[n] = "PASSED" => n <= gates
    <3>1. CASE pc[r] \in {"report", "promotion"}
      <4>1. passed[r] = (IF r \in ModelRuns THEN 7 ELSE 6)
            /\ passedGateStates[r] = SuccessGateStates(r)
        BY <3>1 DEF RunInv, HasPassed, PassedAt
      <4>2. \A n \in DOMAIN Gates : passedGateStates[r][n] = "PASSED" => n <= passed[r]
        BY <4>1, GatesTyped DEF SuccessGateStates, Gates
      <4>3. \A n \in 1..7 : n <= passed[r] => n <= gates
        <5>1. passed[r] \in 0..7
          BY DEF TypeOK
        <5> QED
          BY <5>1
      <4> QED
        BY <4>2, <4>3, FailureIsHonest, GatesTyped
    <3>2. CASE pc[r] \notin {"report", "promotion"}
      <4>1. passedGateStates[r] = NoStates
        BY <3>2 DEF RunInv, HasPassed, Alive
      <4> QED
        BY <4>1, FailureIsHonest, GateNumbers, GatesTyped DEF NoStates
    <3> QED
      BY <3>1, <3>2
  <2>2. /\ report' = [report EXCEPT ![r] = [NoReport EXCEPT !.directory = "failure",
                                                            !.gates = states]]
        /\ passed'[r] = gates
    BY <1>5 DEF EndInFailure, Forget, TypeOK
  <2> HIDE DEF states
  <2>3. report'[r].gates = states /\ report'[r].directory = "failure"
    BY <2>2 DEF TypeOK, NoReport
  <2> QED
    BY <2>1, <2>2, <2>3 DEF HonestReport
<1> QED
  BY <1>2, <1>4, <1>5 DEF RunInv

(* A stage that passes has passed the gates of the next point.             *)
LEMMA StagePassedKeeps ==
  ASSUME TypeOK, NEW r \in Runs, RunInv(r), Alive(r) \/ pc[r] = "idle",
         NEW to \in {"environment", "preflight"} \cup Verifying, Go(r, to),
         to \in Verifying => build[r] \in Builds \ Mixed,
         to \in {"report", "promotion"} <=> pc[r] \in {"report", "promotion"},
         to = "smoke" => r \in ModelRuns,
         passed' = [passed EXCEPT ![r] = PassedAt(r, to)],
         UNCHANGED <<passedGateStates, report, storeVars>>
  PROVE  RunInv(r)'
<1>1. pc'[r] = to /\ passed'[r] = PassedAt(r, to) /\ to # "done" /\ pc[r] # "done"
      /\ build'[r] = build[r] /\ slot'[r] = slot[r]
      /\ passedGateStates'[r] = passedGateStates[r] /\ report'[r] = report[r]
  BY DEF Go, TypeOK, Verifying, Alive, storeVars
<1>2. HasBuild(r)' /\ HasSlot(r)'
  BY <1>1 DEF HasBuild, HasSlot, Building, Verifying, Releasing, WithSlotName, WithSlot
<1>3. HasPassed(r)'
  BY <1>1 DEF RunInv, HasPassed
<1>4. HonestReport(r)'
  <2>1. report[r] = NoReport
    BY <1>1 DEF RunInv, HasPassed
  <2> QED
    BY <1>1, <2>1, GatesTyped DEF HonestReport, NoReport, NoStates
<1> QED
  BY <1>2, <1>3, <1>4 DEF RunInv

(* A stage that passes or fails keeps the invariant of its run. *)
LEMMA StageKeeps ==
  ASSUME TypeOK, NEW r \in Runs, RunInv(r),
         NEW at \in {"idle", "environment"} \cup Verifying,
         NEW gate \in {"A", "B", "C", "D", "E", "F", "G"},
         NEW to \in {"environment", "preflight"} \cup Verifying,
         to \in Verifying => at \in Verifying,
         to \in {"report", "promotion"} <=> at \in {"report", "promotion"},
         to = "smoke" => r \in ModelRuns,
         Number(gate) <= PassedAt(r, at) + 1,
         Stage(r, at, gate, to, PassedAt(r, to))
  PROVE  RunInv(r)'
<1>1. pc[r] = at
  BY DEF Stage
<1>2. passed[r] = PassedAt(r, at) /\ passed[r] \in 0..7
  BY <1>1 DEF RunInv, HasPassed, TypeOK, Verifying
<1>3. ASSUME EndInFailure(r, gate, passed[r]) PROVE RunInv(r)'
  <2>1. Alive(r) \/ pc[r] = "idle"
    BY <1>1 DEF Alive, Verifying
  <2> QED
    BY <1>2, <1>3, <2>1, EndInFailureKeeps
<1>4. ASSUME Go(r, to), passed' = [passed EXCEPT ![r] = PassedAt(r, to)],
             UNCHANGED <<passedGateStates, report, storeVars>>
      PROVE  RunInv(r)'
  <2>1. Alive(r) \/ pc[r] = "idle"
    BY <1>1 DEF Alive, Verifying
  <2>2. to \in Verifying => build[r] \in Builds \ Mixed
    BY <1>1 DEF RunInv, HasBuild
  <2> QED
    BY <1>1, <1>4, <2>1, <2>2, StagePassedKeeps
<1> QED
  BY <1>3, <1>4 DEF Stage

(* A step of the verification keeps the invariant of its run. *)
LEMMA VerificationKeeps ==
  ASSUME TypeOK, NEW r \in Runs, RunInv(r),
         \/ Begin(r) \/ DescribeEnvironment(r) \/ FailMaterialization(r)
         \/ ValidateMaterializedCandidate(r) \/ VerificationStage(r)
         \/ CleanUp(r) \/ WriteReport(r) \/ PromoteRun(r) \/ Crash(r)
  PROVE  RunInv(r)'
<1> DEFINE Kept == RunInv(r)'
<1>0. passed[r] \in 0..7 /\ (pc[r] # "done" => passed[r] = PassedAt(r, pc[r]))
  BY DEF TypeOK, RunInv, HasPassed
<1> USE GateNumbers
<1>1. ASSUME Begin(r) \/ DescribeEnvironment(r) PROVE Kept
  BY <1>1, StageKeeps DEF Begin, DescribeEnvironment, PassedAt, Verifying
<1>2. ASSUME FailMaterialization(r) PROVE Kept
  BY <1>0, <1>2, EndInFailureKeeps DEF FailMaterialization, PassedAt, Alive
<1>3. ASSUME ValidateMaterializedCandidate(r) PROVE Kept
  <2>1. pc[r] = "materialised" /\ Alive(r) /\ passed[r] = 0 /\ build[r] \in Builds
    BY <1>0, <1>3 DEF ValidateMaterializedCandidate, PassedAt, Alive, RunInv, HasBuild
  <2>2. CASE build[r] \in Mixed
    BY <1>3, <2>1, <2>2, EndInFailureKeeps DEF ValidateMaterializedCandidate
  <2>3. CASE build[r] \notin Mixed
    <3>1. PassedAt(r, "setup") = 2
      BY DEF PassedAt
    <3> QED
      BY <1>3, <2>1, <2>3, <3>1, StagePassedKeeps DEF ValidateMaterializedCandidate, Verifying
  <2> QED
    BY <2>2, <2>3
<1>4. ASSUME VerificationStage(r) PROVE Kept
  <2>1. ASSUME CheckPackageManager(r) \/ CopyChoiceMind(r) PROVE Kept
    BY <2>1, StageKeeps DEF CheckPackageManager, CopyChoiceMind, PassedAt, Verifying
  <2>2. ASSUME InstallCandidate(r) \/ ResolveDependencies(r) PROVE Kept
    BY <2>2, StageKeeps DEF InstallCandidate, ResolveDependencies, PassedAt, Verifying
  <2>3. ASSUME CheckInterface(r) \/ TestContract(r) PROVE Kept
    BY <2>3, StageKeeps DEF CheckInterface, TestContract, PassedAt, Verifying
  <2>4. ASSUME TestVertical(r) \/ VerifyRoot(r) PROVE Kept
    BY <2>4, StageKeeps DEF TestVertical, VerifyRoot, PassedAt, Verifying
  <2>5. ASSUME CheckPortsReleased(r) PROVE Kept
    BY <2>5, StageKeeps DEF CheckPortsReleased, PassedAt, Verifying
  <2>6. ASSUME SmokeLocalModel(r) PROVE Kept
    <3>1. r \in ModelRuns
      BY <2>6 DEF SmokeLocalModel, Stage, RunInv, HasPassed
    <3> QED
      BY <2>6, <3>1, StageKeeps DEF SmokeLocalModel, PassedAt, Verifying
  <2> HIDE DEF Kept
  <2> QED
    BY <1>4, <2>1, <2>2, <2>3, <2>4, <2>5, <2>6 DEF VerificationStage
<1>5. ASSUME CleanUp(r) PROVE Kept
  <2>1. /\ pc[r] = "cleanup" /\ Alive(r) /\ build[r] \in Builds \ Mixed
        /\ passed[r] = (IF r \in ModelRuns THEN 7 ELSE 6) /\ report[r] = NoReport
    BY <1>0, <1>5 DEF CleanUp, PassedAt, Alive, RunInv, HasBuild, HasPassed, Verifying
  <2>2. ASSUME EndInFailure(r, "F", passed[r]) PROVE Kept
    BY <1>0, <2>1, <2>2, EndInFailureKeeps
  <2>3. ASSUME Go(r, "report"), UNCHANGED <<passed, report, storeVars>>,
               passedGateStates' = [passedGateStates EXCEPT ![r] = SuccessGateStates(r)]
        PROVE  Kept
    <3>1. pc'[r] = "report" /\ passedGateStates'[r] = SuccessGateStates(r)
      BY <2>3 DEF Go, TypeOK
    <3>2. HasBuild(r)' /\ HasSlot(r)'
      BY <2>1, <2>3, <3>1 DEF HasBuild, HasSlot, storeVars, Building, Verifying, Releasing,
                              WithSlotName, WithSlot
    <3>3. HasPassed(r)'
      BY <2>1, <2>3, <3>1 DEF HasPassed, PassedAt, SuccessGateStates
    <3>4. HonestReport(r)'
      BY <2>1, <2>3 DEF RunInv, HonestReport
    <3> QED
      BY <3>2, <3>3, <3>4 DEF RunInv
  <2> QED
    BY <1>5, <2>2, <2>3 DEF CleanUp
<1>6. ASSUME WriteReport(r) PROVE Kept
  <2>1. pc[r] = "report" /\ PassedAt(r, "promotion") = PassedAt(r, "report")
    BY <1>6 DEF WriteReport, Stage, PassedAt
  <2>2. Stage(r, "report", "F", "promotion", PassedAt(r, "promotion"))
    BY <1>0, <1>6, <2>1 DEF WriteReport
  <2>3. Number("F") <= PassedAt(r, "report") + 1
    BY DEF PassedAt
  <2> QED
    BY <2>2, <2>3, StageKeeps DEF Verifying
<1>7. ASSUME PromoteRun(r) PROVE Kept
  <2>1. /\ pc[r] = "promotion" /\ Alive(r) /\ build[r] \in Builds \ Mixed
        /\ passed[r] = (IF r \in ModelRuns THEN 7 ELSE 6)
        /\ passedGateStates[r] = SuccessGateStates(r)
    BY <1>0, <1>7 DEF PromoteRun, PassedAt, Alive, RunInv, HasBuild, HasPassed, Verifying
  <2>2. ASSUME EndInFailure(r, "F", passed[r]) PROVE Kept
    BY <1>0, <2>1, <2>2, EndInFailureKeeps
  <2>3. ASSUME Forget(r, "done", passed[r]),
               report' = [report EXCEPT ![r] = [directory |-> "candidate",
                                                gates |-> passedGateStates[r],
                                                artifacts |-> build[r]]]
        PROVE  Kept
    <3>1. pc'[r] = "done" /\ passed'[r] = passed[r]
          /\ report'[r].gates = SuccessGateStates(r) /\ report'[r].artifacts = build[r]
      BY <2>1, <2>3 DEF Forget, Go, TypeOK
    <3>2. HasBuild(r)' /\ HasSlot(r)' /\ HasPassed(r)'
      BY <3>1 DEF HasBuild, HasSlot, HasPassed, Building, Verifying, Releasing, WithSlotName,
                  WithSlot
    <3>3. \A n \in DOMAIN Gates : SuccessGateStates(r)[n] = "PASSED" => n <= passed[r]
      BY <2>1, GatesTyped DEF SuccessGateStates, Gates
    <3>4. HonestReport(r)'
      BY <2>1, <3>1, <3>3 DEF HonestReport
    <3> QED
      BY <3>2, <3>4 DEF RunInv
  <2> QED
    BY <1>7, <2>2, <2>3 DEF PromoteRun
<1>8. ASSUME Crash(r) PROVE Kept
  <2>1. pc'[r] = "crashed" /\ passed'[r] = 0 /\ passedGateStates'[r] = NoStates
        /\ report'[r] = report[r] /\ pc[r] # "done"
    BY <1>8 DEF Crash, Forget, Go, Alive, TypeOK
  <2>2. HasBuild(r)' /\ HasSlot(r)'
    BY <2>1 DEF HasBuild, HasSlot, Building, Verifying, Releasing, WithSlotName, WithSlot
  <2>3. HasPassed(r)'
    BY <2>1 DEF RunInv, HasPassed, PassedAt
  <2>4. HonestReport(r)'
    BY <2>1, GatesTyped DEF RunInv, HasPassed, HonestReport, NoReport, NoStates
  <2> QED
    BY <2>2, <2>3, <2>4 DEF RunInv
<1> HIDE DEF Kept
<1>9. Kept
  BY <1>1, <1>2, <1>3, <1>4, <1>5, <1>6, <1>7, <1>8
<1> QED
  BY <1>9 DEF Kept

(* The invariant of a run whose fields stay stays. *)
LEMMA OthersKeep ==
  ASSUME TypeOK, NEW s \in Runs, RunInv(s), Untouched(s), OutcomeUntouched(s)
  PROVE  RunInv(s)'
BY DEF RunInv, HasBuild, HasSlot, HasPassed, HonestReport, Untouched, OutcomeUntouched

(* A materializing run has passed nothing and reported nothing yet.        *)
LEMMA MaterializationKeeps ==
  ASSUME TypeOK, NEW r \in Runs, RunInv(r),
         MaterializationStep(r) \/ MaterializationFails(r), UNCHANGED outcome
  PROVE  RunInv(r)'
<1>1. /\ pc[r] \in Materializing /\ pc'[r] \in Materializing \cup {"materialised", "failing"}
      /\ HasBuild(r)' /\ HasSlot(r)'
  BY MaterializationKeepsBuild DEF RunInv
<1>2. \A at \in Materializing \cup {"materialised", "failing"} :
        PassedAt(r, at) = 0 /\ at \notin {"report", "promotion", "done", "smoke"}
  BY DEF PassedAt, Materializing, Building, Releasing
<1>3. HasPassed(r)' /\ HonestReport(r)'
  BY <1>1, <1>2 DEF RunInv, HasPassed, HonestReport, outcome
<1> QED
  BY <1>1, <1>3 DEF RunInv

(* Every step keeps the invariant of every run. *)
LEMMA RunsKept == TypeOK /\ RunsInv /\ [Next]_runVars => RunsInv'
<1> SUFFICES ASSUME TypeOK, RunsInv, [Next]_runVars, NEW s \in Runs PROVE RunInv(s)'
  BY DEF RunsInv
<1>0. RunInv(s)
  BY DEF RunsInv
<1>1. ASSUME NEW r \in Runs, MaterializationStep(r) \/ MaterializationFails(r), UNCHANGED outcome
      PROVE  RunInv(s)'
  <2>1. s # r => Untouched(s) /\ OutcomeUntouched(s)
    BY <1>1, MaterializationIsOwn DEF outcome, OutcomeUntouched
  <2> QED
    BY <1>0, <1>1, <2>1, OthersKeep, MaterializationKeeps
<1>2. ASSUME NEW r \in Runs,
             \/ Begin(r) \/ DescribeEnvironment(r) \/ FailMaterialization(r)
             \/ ValidateMaterializedCandidate(r) \/ VerificationStage(r)
             \/ CleanUp(r) \/ WriteReport(r) \/ PromoteRun(r) \/ Crash(r)
      PROVE  RunInv(s)'
  <2>1. s # r => Untouched(s) /\ OutcomeUntouched(s)
    BY <1>2, VerificationIsOwn
  <2> QED
    BY <1>0, <1>2, <2>1, OthersKeep, VerificationKeeps
<1>3. ASSUME UNCHANGED <<locals, outcome>> PROVE RunInv(s)'
  <2>1. Untouched(s) /\ OutcomeUntouched(s)
    BY <1>3 DEF locals, outcome, Untouched, OutcomeUntouched
  <2> QED
    BY <1>0, <2>1, OthersKeep
<1>4. ASSUME NEW r \in Runs, LockHeartbeat(r), UNCHANGED outcome PROVE RunInv(s)'
  BY <1>3, <1>4 DEF LockHeartbeat
<1>5. ASSUME Time, UNCHANGED outcome PROVE RunInv(s)'
  BY <1>3, <1>5 DEF Time, GoStale, GoOverdue
<1>6. CASE UNCHANGED runVars
  BY <1>3, <1>6 DEF runVars, vars, outcome
<1> QED
  BY Zenon, <1>1, <1>2, <1>4, <1>5, <1>6 DEF Next, RunStep, Disturbance

(* It holds of the runs before they begin. *)
LEMMA RunsStart == CompatibilityInit => RunsInv
<1> SUFFICES ASSUME CompatibilityInit, NEW r \in Runs PROVE RunInv(r)
  BY DEF RunsInv
<1>1. pc[r] = "idle" /\ passed[r] = 0 /\ passedGateStates[r] = NoStates /\ report[r] = NoReport
  BY DEF CompatibilityInit, Init
<1>2. HasBuild(r) /\ HasSlot(r)
  BY <1>1 DEF HasBuild, HasSlot, Building, Verifying, Releasing, WithSlotName, WithSlot
<1>3. HasPassed(r)
  BY <1>1 DEF HasPassed, PassedAt
<1>4. HonestReport(r)
  BY <1>1, GatesTyped DEF HonestReport, NoReport, NoStates
<1> QED
  BY <1>2, <1>3, <1>4 DEF RunInv

(* A run keeps to the types of its fields and has, at every point of its   *)
(* way, what it needs there.                                               *)
THEOREM RunsInvariant == Spec => [](TypeOK /\ RunsInv)
<1> QED
  BY InitTyped, NextTyped, RunsStart, RunsKept, PTL DEF Spec

(* No report calls a gate passed that its run has not passed, and no run is *)
(* left among the candidates with a gate that failed or mixed packages.    *)
THEOREM ReportIsHonestHolds == Spec => []ReportIsHonest
<1>1. RunsInv => ReportIsHonest
  BY DEF RunsInv, RunInv, HonestReport, ReportIsHonest
<1> QED
  BY <1>1, RunsInvariant, PTL

-----------------------------------------------------------------------------
(* What the pointers name.                                                 *)

(* Only a promotion moves the store and only a commit a pointer. *)
LEMMA StoreMoves ==
  ASSUME TypeOK, [Next]_runVars
  PROVE  \/ UNCHANGED shared
         \/ \E r \in Runs : PromoteArtifacts(r) \/ CommitPointer(r)
<1> DEFINE Moves == \/ UNCHANGED shared
                    \/ \E r \in Runs : PromoteArtifacts(r) \/ CommitPointer(r)
<1>1. ASSUME NEW r \in Runs, MaterializationStep(r) PROVE Moves
  BY <1>1 DEF MaterializationStep, PassPreflight, AcquireMaterializationLock,
              AcquireMaterializationSlot, WriteLockOwner, CleanupFailedOwnerWrite,
              RecoverStaleMaterializationLock, RemoveStaleLockDirectory,
              ReadReusableMaterialization, MaterializeGitCommit, MaterializeNpmRelease,
              Build, AssertOwnership, StageArtifacts, ReleaseOwnedDirectory, RenameReleased
<1>2. ASSUME NEW r \in Runs, MaterializationFails(r) PROVE Moves
  BY <1>2 DEF MaterializationFails, FailOwnerWrite, CleanupFailedOwnerWrite, InterruptStage,
              FailRelease
<1>3. ASSUME NEW r \in Runs,
             \/ Begin(r) \/ DescribeEnvironment(r) \/ FailMaterialization(r)
             \/ ValidateMaterializedCandidate(r) \/ VerificationStage(r)
             \/ CleanUp(r) \/ WriteReport(r) \/ PromoteRun(r) \/ Crash(r)
      PROVE  Moves
  BY <1>3, VerificationIsOwn
<1>4. ASSUME NEW r \in Runs, LockHeartbeat(r) PROVE Moves
  BY <1>4 DEF LockHeartbeat
<1>5. ASSUME Time PROVE Moves
  BY <1>5 DEF Time, GoStale, GoOverdue
<1>6. ASSUME UNCHANGED runVars PROVE Moves
  BY <1>6 DEF runVars, vars
<1> HIDE DEF Moves
<1>7. Moves
  BY Zenon, <1>1, <1>2, <1>3, <1>4, <1>5, <1>6 DEF Next, RunStep, Disturbance
<1> QED
  BY <1>7 DEF Moves

(* A run is about to commit a pointer only after its promotion. *)
LEMMA AfterPromotion ==
  ASSUME TypeOK, [Next]_runVars, NEW s \in Runs, pc'[s] \in {"point", "commit"}
  PROVE  /\ candidate' = candidate /\ build'[s] = build[s]
         /\ pc[s] \in {"point", "commit"} \/ PromoteArtifacts(s)
<1> DEFINE After == /\ candidate' = candidate /\ build'[s] = build[s]
                    /\ pc[s] \in {"point", "commit"} \/ PromoteArtifacts(s)
<1>0. ASSUME candidate' = candidate, Untouched(s) PROVE After
  BY <1>0 DEF Untouched
<1>1. ASSUME MaterializationStep(s) PROVE After
  <2>1. candidate' = candidate
    BY <1>1, MaterializationIsOwn
  <2>2. PromoteArtifacts(s) \/ AssertOwnership(s, "point", "commit")
    <3> USE DEF TypeOK, Go
    <3>1. ASSUME CleanupFailedOwnerWrite(s) PROVE FALSE
      BY <3>1 DEF CleanupFailedOwnerWrite
    <3>2. ASSUME PassPreflight(s) \/ AcquireMaterializationLock(s)
                 \/ AcquireMaterializationSlot(s) \/ WriteLockOwner(s) PROVE FALSE
      BY <3>1, <3>2 DEF PassPreflight, AcquireMaterializationLock, AcquireMaterializationSlot,
                        WriteLockOwner
    <3>3. ASSUME RecoverStaleMaterializationLock(s) \/ RemoveStaleLockDirectory(s) PROVE FALSE
      BY <3>3 DEF RecoverStaleMaterializationLock, RemoveStaleLockDirectory
    <3>4. ASSUME ReadReusableMaterialization(s) \/ Build(s) \/ CommitPointer(s) PROVE FALSE
      BY <3>4 DEF ReadReusableMaterialization, Build, CommitPointer
    <3>5. ASSUME AssertOwnership(s, "check", "stage") \/ StageArtifacts(s) PROVE FALSE
      BY <3>5 DEF AssertOwnership, StageArtifacts
    <3>6. ASSUME ReleaseOwnedDirectory(s) \/ RenameReleased(s) PROVE FALSE
      BY <3>6 DEF ReleaseOwnedDirectory, RenameReleased, Leave, AfterRelease
    <3> QED
      BY Zenon, <1>1, <3>2, <3>3, <3>4, <3>5, <3>6
         DEF MaterializationStep, MaterializeGitCommit, MaterializeNpmRelease
  <2> QED
    BY <2>1, <2>2 DEF PromoteArtifacts, AssertOwnership, Go, TypeOK
<1>2. ASSUME MaterializationFails(s) PROVE FALSE
  BY <1>2 DEF MaterializationFails, FailOwnerWrite, CleanupFailedOwnerWrite, InterruptStage,
              FailRelease, AfterRelease, Go, TypeOK
<1>3. ASSUME \/ Begin(s) \/ DescribeEnvironment(s) \/ FailMaterialization(s)
             \/ ValidateMaterializedCandidate(s) \/ VerificationStage(s)
             \/ CleanUp(s) \/ WriteReport(s) \/ PromoteRun(s) \/ Crash(s)
      PROVE  FALSE
  <2>1. ASSUME NEW at, NEW gate, NEW gates, NEW to, to \notin {"point", "commit"},
               Stage(s, at, gate, to, gates)
        PROVE  FALSE
    BY <2>1 DEF Stage, EndInFailure, Forget, Go, TypeOK
  <2>2. ASSUME \/ FailMaterialization(s) \/ ValidateMaterializedCandidate(s) \/ CleanUp(s)
               \/ PromoteRun(s) \/ Crash(s)
        PROVE  FALSE
    BY <2>2 DEF FailMaterialization, ValidateMaterializedCandidate, CleanUp, PromoteRun, Crash,
                EndInFailure, Forget, Go, TypeOK
  <2>3. ASSUME Begin(s) \/ DescribeEnvironment(s) \/ WriteReport(s) PROVE FALSE
    BY <2>1, <2>3 DEF Begin, DescribeEnvironment, WriteReport
  <2>4. ASSUME CheckPackageManager(s) \/ CopyChoiceMind(s) \/ InstallCandidate(s) PROVE FALSE
    BY <2>1, <2>4 DEF CheckPackageManager, CopyChoiceMind, InstallCandidate
  <2>5. ASSUME ResolveDependencies(s) \/ CheckInterface(s) \/ TestContract(s) PROVE FALSE
    BY <2>1, <2>5 DEF ResolveDependencies, CheckInterface, TestContract
  <2>6. ASSUME TestVertical(s) \/ VerifyRoot(s) \/ CheckPortsReleased(s) \/ SmokeLocalModel(s)
        PROVE  FALSE
    BY <2>1, <2>6 DEF TestVertical, VerifyRoot, CheckPortsReleased, SmokeLocalModel
  <2> QED
    BY <1>3, <2>2, <2>3, <2>4, <2>5, <2>6 DEF VerificationStage
<1>4. ASSUME NEW r \in Runs \ {s}, Begin(r) \/ RunStep(r) \/ Disturbance(r) PROVE After
  <2>1. ASSUME LockHeartbeat(r) PROVE After
    BY <1>0, <2>1 DEF LockHeartbeat, locals, Untouched
  <2> HIDE DEF After
  <2> QED
    BY <1>0, <1>4, <2>1, MaterializationIsOwn, VerificationIsOwn DEF RunStep, Disturbance
<1>5. ASSUME LockHeartbeat(s) \/ Time \/ UNCHANGED runVars PROVE After
  BY <1>0, <1>5 DEF LockHeartbeat, Time, GoStale, GoOverdue, runVars, vars, locals, Untouched
<1> HIDE DEF After
<1>6. After
  <2>1. CASE \E r \in Runs \ {s} : Begin(r) \/ RunStep(r) \/ Disturbance(r)
    BY <1>4, <2>1
  <2>2. CASE Begin(s) \/ RunStep(s) \/ Disturbance(s)
    BY Zenon, <1>1, <1>2, <1>3, <1>5, <2>2 DEF RunStep, Disturbance
  <2> QED
    BY Zenon, <1>5, <2>1, <2>2 DEF Next
<1> QED
  BY <1>6 DEF After

(* Every step keeps what has been promoted and what points to it. *)
LEMMA StoreKept == TypeOK /\ RunsInv /\ StoreInv /\ [Next]_runVars => StoreInv'
<1> SUFFICES ASSUME TypeOK, RunsInv, StoreInv, [Next]_runVars PROVE StoreInv'
  OBVIOUS
<1>1. \A k \in Candidates, b \in Builds : store[k][b] = "whole" => store'[k][b] = "whole"
  <2>1. CASE UNCHANGED shared
    BY <2>1 DEF shared
  <2>2. CASE \E r \in Runs : PromoteArtifacts(r) \/ CommitPointer(r)
    BY <2>2 DEF PromoteArtifacts, CommitPointer, TypeOK
  <2> QED
    BY <2>1, <2>2, StoreMoves
<1>2. PublishedIsWhole'
  <2>1. CASE UNCHANGED shared
    BY <2>1 DEF shared, StoreInv, PublishedIsWhole
  <2>2. CASE \E r \in Runs : PromoteArtifacts(r)
    <3>1. pointer' = pointer
      BY <2>2 DEF PromoteArtifacts
    <3> QED
      BY <1>1, <3>1 DEF StoreInv, PublishedIsWhole, TypeOK
  <2>3. ASSUME NEW r \in Runs, CommitPointer(r) PROVE PublishedIsWhole'
    <3>1. /\ store' = store /\ pointer' = [pointer EXCEPT ![candidate[r]] = build[r]]
          /\ store[candidate[r]][build[r]] = "whole" /\ candidate[r] \in Candidates
      BY <2>3 DEF CommitPointer, StoreInv, TypeOK
    <3> QED
      BY <3>1 DEF StoreInv, PublishedIsWhole, TypeOK
  <2> QED
    BY <2>1, <2>2, <2>3, StoreMoves
<1>3. ASSUME NEW s \in Runs, pc'[s] \in {"point", "commit"}
      PROVE  store'[candidate'[s]][build'[s]] = "whole"
  <2>1. /\ candidate' = candidate /\ build'[s] = build[s]
        /\ pc[s] \in {"point", "commit"} \/ PromoteArtifacts(s)
    BY <1>3, AfterPromotion
  <2>2. candidate[s] \in Candidates
        /\ (pc[s] \in {"promote", "point", "commit"} => build[s] \in Builds)
    BY DEF TypeOK, RunsInv, RunInv, HasBuild, Building
  <2>3. CASE pc[s] \in {"point", "commit"}
    BY <1>1, <2>1, <2>2, <2>3 DEF StoreInv
  <2>4. CASE PromoteArtifacts(s)
    BY <2>1, <2>2, <2>4 DEF PromoteArtifacts, TypeOK
  <2> QED
    BY <2>1, <2>3, <2>4
<1> QED
  BY <1>2, <1>3 DEF StoreInv

(* What the pointer of a candidate names has been promoted whole, wherever *)
(* the run that wrote it, or another, was stopped.                         *)
THEOREM PublishedIsWholeHolds == Spec => []PublishedIsWhole
<1>1. CompatibilityInit => StoreInv
  BY DEF CompatibilityInit, Init, StoreInv, PublishedIsWhole
<1>2. StoreInv => PublishedIsWhole
  BY DEF StoreInv
<1> QED
  BY <1>1, <1>2, RunsInvariant, StoreKept, PTL DEF Spec

-----------------------------------------------------------------------------
(* Who holds a lock.                                                       *)

(* Nobody but r may hold the lock. *)
Free(r, x) == \A s \in Runs \ {r} : ~Holds(s, x)

(* What a step of run r may do to the locks.                               *)
HeldStep(r) ==
  \A x \in Locks : Sound /\ Sound' =>
    /\ dirs'[x] = dirs[x] \/ Free(r, x)
    /\ Holds(r, x)' => HeldDir(r, x)' /\ (Holds(r, x) \/ Free(r, x))

(* A step that moves only free directories keeps what the holders have. *)
LEMMA HeldKept ==
  ASSUME TypeOK, HeldInv, NEW r \in Runs, HeldStep(r), Sound' => Sound,
         candidate' = candidate, \A s \in Runs \ {r} : Untouched(s)
  PROVE  HeldInv'
<1> SUFFICES ASSUME Sound'
             PROVE  /\ \A s \in Runs, x \in Locks : Holds(s, x)' => HeldDir(s, x)'
                    /\ Exclusive'
  BY DEF HeldInv
<1>1. \A s \in Runs, x \in Locks : Holds(s, x) => HeldDir(s, x)
  BY DEF HeldInv
<1>2. \A s, t \in Runs, x \in Locks : Holds(s, x) /\ Holds(t, x) => s = t
  BY DEF HeldInv, Exclusive
<1>3. \A s \in Runs \ {r}, x \in Locks : Holds(s, x)' <=> Holds(s, x)
  BY DEF Untouched, Holds
<1>4. ASSUME NEW s \in Runs \ {r}, NEW x \in Locks, Holds(s, x) PROVE HeldDir(s, x)'
  <2>1. dirs'[x] = dirs[x]
    BY <1>4 DEF HeldStep, Free
  <2>2. HeldDir(s, x)
    BY <1>1, <1>4
  <2> QED
    BY <2>1, <2>2 DEF HeldDir, Writing, Untouched
<1>5. ASSUME NEW s \in Runs, NEW x \in Locks, Holds(s, x)', Holds(r, x)' PROVE s = r
  <2> SUFFICES ASSUME s # r PROVE FALSE
    OBVIOUS
  <2>1. Holds(s, x)
    BY <1>3, <1>5
  <2>2. Holds(r, x) \/ Free(r, x)
    BY <1>5 DEF HeldStep
  <2> QED
    BY <1>2, <2>1, <2>2 DEF Free
<1>6. \A s \in Runs, x \in Locks : Holds(s, x)' => HeldDir(s, x)'
  BY <1>3, <1>4 DEF HeldStep
<1>7. Exclusive'
  <2> SUFFICES ASSUME NEW x \in Locks, NEW s \in Runs, NEW t \in Runs,
                      Holds(s, x)', Holds(t, x)'
               PROVE  s = t
    BY DEF Exclusive, Locks, Candidates
  <2>1. CASE s = r \/ t = r
    BY <1>5, <2>1
  <2>2. CASE s # r /\ t # r
    BY <1>2, <1>3, <2>2
  <2> QED
    BY <2>1, <2>2
<1> QED
  BY <1>6, <1>7

(* Of a lock that is made by nobody, held by r itself, or seen by a waiter. *)
LEMMA FreeLocks ==
  ASSUME TypeOK, LocksInv, Sound, NEW r \in Runs, NEW x \in Locks
  PROVE  /\ ~dirs[x].made => Free(r, x)
         /\ Holds(r, x) => Free(r, x)
         /\ pc[r] \in {"lockEvict", "slotEvict"} /\ dirs[x] = seen[r] => Free(r, x)
<1>1. \A s \in Runs : Holds(s, x) => HeldDir(s, x)
  BY DEF LocksInv, HeldInv
<1>2. Exclusive
  BY DEF LocksInv, HeldInv
<1>3. ASSUME ~dirs[x].made PROVE Free(r, x)
  BY <1>1, <1>3 DEF Free, HeldDir, Made, NoDir
<1>4. ASSUME Holds(r, x) PROVE Free(r, x)
  BY <1>2, <1>4 DEF Free, Exclusive
<1>5. ASSUME pc[r] \in {"lockEvict", "slotEvict"}, dirs[x] = seen[r] PROVE Free(r, x)
  <2> SUFFICES ASSUME NEW s \in Runs \ {r}, Holds(s, x) PROVE FALSE
    BY DEF Free
  <2>1. Evictable(dirs[x]) /\ ~dirs[x].overdue
    BY <1>5 DEF LocksInv, SeenInv, OwnerKnown, Sound
  <2>2. Alive(s)
    BY DEF Alive, Holds, WithLock, WithSlot
  <2>3. HeldDir(s, x)
    BY <1>1
  <2>4. CASE Writing(s, x)
    BY <2>1, <2>3, <2>4 DEF HeldDir, Evictable, Made, NoDir
  <2>5. CASE ~Writing(s, x)
    BY <2>1, <2>2, <2>3, <2>5, MaterializationAssumption DEF HeldDir, Evictable
  <2> QED
    BY <2>4, <2>5
<1> QED
  BY <1>3, <1>4, <1>5

(* A step that moves no directory and takes no lock. *)
LEMMA QuietStep ==
  ASSUME LocksInv, NEW r \in Runs, dirs' = dirs,
         \A x \in Locks : Holds(r, x)' => Holds(r, x) /\ (Writing(r, x)' <=> Writing(r, x))
  PROVE  HeldStep(r)
BY DEF HeldStep, LocksInv, HeldInv, HeldDir

(* A step of the materialization moves and takes free locks only. *)
LEMMA MaterializationHolds ==
  ASSUME TypeOK, RunsInv, LocksInv, NEW r \in Runs,
         MaterializationStep(r) \/ MaterializationFails(r)
  PROVE  HeldStep(r) /\ (Sound' => Sound)
<1> DEFINE Step == HeldStep(r) /\ (Sound' => Sound)
<1>0. ASSUME dirs' = dirs, pauses' = pauses, raced' = raced,
             \A x \in Locks : Holds(r, x)' => Holds(r, x) /\ (Writing(r, x)' <=> Writing(r, x))
      PROVE  Step
  BY <1>0, QuietStep DEF Sound
<1>a. /\ candidate[r] \in Candidates /\ candidate[r] \in Locks
      /\ pc[r] \in WithSlotName => slot[r] \in Slots /\ slot[r] \in Locks
      /\ Candidates \cap Slots = {} /\ None \notin Locks
  BY MaterializationAssumption DEF TypeOK, RunsInv, RunInv, HasSlot, Locks
<1> USE DEF Go, Fail, Holds, Writing, WithLock, WithSlot
<1>1. ASSUME PassPreflight(r) \/ ReadReusableMaterialization(r) \/ Build(r) PROVE Step
  BY <1>0, <1>1 DEF TypeOK, PassPreflight, ReadReusableMaterialization, Build
<1>2. ASSUME RecoverStaleMaterializationLock(r) PROVE Step
  BY <1>0, <1>2 DEF TypeOK, RecoverStaleMaterializationLock
<1>3. ASSUME NEW from \in {"check", "stage", "point"}, NEW to \in {"stage", "promote", "commit"},
             AssertOwnership(r, from, to)
      PROVE  Step
  BY <1>0, <1>3 DEF TypeOK, AssertOwnership
<1>4. ASSUME PromoteArtifacts(r) \/ CommitPointer(r) PROVE Step
  BY <1>0, <1>4 DEF TypeOK, PromoteArtifacts, CommitPointer
<1>5. ASSUME ReleaseOwnedDirectory(r) \/ FailRelease(r) PROVE Step
  BY <1>0, <1>5, <1>a DEF TypeOK, ReleaseOwnedDirectory, FailRelease, Leave, AfterRelease
<1>6. ASSUME InterruptStage(r) PROVE Step
  BY <1>0, <1>6, <1>a DEF TypeOK, InterruptStage
<1> HIDE DEF Holds, Writing
<1>7. ASSUME NEW x \in Locks, \A y \in Locks \ {x} : dirs'[y] = dirs[y],
             Sound' => Sound, Sound /\ Sound' => Free(r, x),
             \A y \in Locks : Holds(r, y)' =>
               IF y = x THEN HeldDir(r, x)'
               ELSE Holds(r, y) /\ (Writing(r, y)' <=> Writing(r, y))
      PROVE  Step
  <2>1. ASSUME NEW y \in Locks, Sound, Sound', y # x
        PROVE  /\ dirs'[y] = dirs[y]
               /\ Holds(r, y)' => HeldDir(r, y)' /\ Holds(r, y)
    BY <1>7, <2>1 DEF LocksInv, HeldInv, HeldDir
  <2> QED
    BY <1>7, <2>1 DEF HeldStep
<1>b. /\ Holds(r, candidate[r]) <=> pc[r] \in WithLock \cup {"lockOwner", "lockRelease", "lockRename"}
      /\ pc[r] \in WithSlot \cup {"slotOwner", "slotRelease", "slotRename"} => Holds(r, slot[r])
  BY <1>a DEF Holds, WithSlotName, WithSlot
<1> USE DEF Holds, Writing
<1>8. ASSUME AcquireMaterializationLock(r) PROVE Step
  <2>1. ~dirs[candidate[r]].made /\ Sound' = Sound
    BY <1>8 DEF AcquireMaterializationLock, Sound
  <2>2. Sound => Free(r, candidate[r])
    BY <1>a, <2>1, FreeLocks
  <2>3. HeldDir(r, candidate[r])'
    BY <1>8, <1>a DEF AcquireMaterializationLock, HeldDir, TypeOK
  <2> QED
    BY <1>7, <1>8, <1>a, <2>1, <2>2, <2>3 DEF AcquireMaterializationLock, TypeOK
<1>9. ASSUME AcquireMaterializationSlot(r) PROVE Step
  <2>1. PICK x \in Slots : /\ ~dirs[x].made
                           /\ dirs' = [dirs EXCEPT ![x] = Made]
                           /\ slot' = [slot EXCEPT ![r] = x]
    BY <1>9 DEF AcquireMaterializationSlot
  <2>2. x \in Locks /\ x # candidate[r] /\ Sound' = Sound
    BY <1>9, <1>a DEF AcquireMaterializationSlot, Sound, Locks
  <2>3. Sound => Free(r, x)
    BY <2>1, <2>2, FreeLocks
  <2>4. HeldDir(r, x)'
    BY <1>9, <2>1, <2>2 DEF AcquireMaterializationSlot, HeldDir, TypeOK
  <2>5. \A y \in Locks \ {x} : Holds(r, y)' => Holds(r, y) /\ (Writing(r, y)' <=> Writing(r, y))
    BY <1>9, <2>1, <2>2 DEF AcquireMaterializationSlot, TypeOK
  <2>6. \A y \in Locks \ {x} : dirs'[y] = dirs[y]
    BY <2>1 DEF TypeOK
  <2> HIDE DEF Holds, Writing
  <2> QED
    BY <1>7, <2>2, <2>3, <2>4, <2>5, <2>6
<1>10. ASSUME CleanupFailedOwnerWrite(r), pc[r] \in {"lockOwner", "slotOwner"} PROVE Step
  <2>0. PICK x : x = Wanted(r)
    OBVIOUS
  <2>1. x \in Locks /\ Holds(r, x) /\ x = (IF pc[r] = "slotOwner" THEN slot[r] ELSE candidate[r])
    BY <2>0, <1>10, <1>a, <1>b DEF Wanted, WithSlotName
  <2>2. (Sound' => Sound) /\ \A y \in Locks \ {x} : dirs'[y] = dirs[y]
    BY <2>0, <1>10 DEF CleanupFailedOwnerWrite, Remove, Sound, TypeOK
  <2>3. Sound => Free(r, x)
    BY <2>1, FreeLocks
  <2>4. ~Holds(r, x)'
    BY <1>10, <1>a, <2>1 DEF CleanupFailedOwnerWrite, TypeOK, WithSlotName
  <2>5. \A y \in Locks \ {x} : Holds(r, y)' => Holds(r, y) /\ (Writing(r, y)' <=> Writing(r, y))
    BY <1>10, <1>a, <2>1 DEF CleanupFailedOwnerWrite, TypeOK
  <2> HIDE DEF Holds, Writing
  <2> QED
    BY <1>7, <2>1, <2>2, <2>3, <2>4, <2>5
<1>11. ASSUME WriteLockOwner(r), dirs[Wanted(r)].made PROVE Step
  <2>0. PICK x : x = Wanted(r)
    OBVIOUS
  <2>1. x \in Locks /\ Holds(r, x) /\ pc[r] \in {"lockOwner", "slotOwner"}
        /\ x = (IF pc[r] = "slotOwner" THEN slot[r] ELSE candidate[r])
    BY <2>0, <1>11, <1>a, <1>b DEF Wanted, WriteLockOwner, WithSlotName
  <2>2. (Sound' => Sound) /\ dirs' = [dirs EXCEPT ![x] = OwnedBy(r)]
    BY <2>0, <1>11 DEF WriteLockOwner, Sound
  <2>3. Sound => Free(r, x)
    BY <2>1, FreeLocks
  <2>4. HeldDir(r, x)'
    BY <1>11, <1>a, <2>1, <2>2 DEF WriteLockOwner, HeldDir, OwnedBy, Made, NoDir, TypeOK,
                                   WithSlotName
  <2>5. \A y \in Locks \ {x} : Holds(r, y)' => Holds(r, y) /\ (Writing(r, y)' <=> Writing(r, y))
    BY <1>11, <1>a, <2>1 DEF WriteLockOwner, TypeOK
  <2>6. \A y \in Locks \ {x} : dirs'[y] = dirs[y]
    BY <2>2 DEF TypeOK
  <2> HIDE DEF Holds, Writing
  <2> QED
    BY <1>7, <2>1, <2>2, <2>3, <2>4, <2>5, <2>6
<1>12. ASSUME WriteLockOwner(r) PROVE Step
  <2>1. CASE dirs[Wanted(r)].made
    BY <1>11, <1>12, <2>1
  <2>2. CASE ~dirs[Wanted(r)].made
    BY <1>10, <1>12, <2>2 DEF WriteLockOwner
  <2> QED
    BY <2>1, <2>2
<1>13. ASSUME FailOwnerWrite(r) PROVE Step
  <2>1. CASE CleanupFailedOwnerWrite(r)
    BY <1>10, <1>13, <2>1 DEF FailOwnerWrite
  <2>2. CASE ~CleanupFailedOwnerWrite(r)
    BY <1>0, <1>13, <1>a, <2>2 DEF FailOwnerWrite, TypeOK
  <2> QED
    BY <2>1, <2>2
<1>14. ASSUME RemoveStaleLockDirectory(r) PROVE Step
  <2>0. PICK x : x = Wanted(r)
    OBVIOUS
  <2>1. x \in Locks /\ pc[r] \in {"lockEvict", "slotEvict"}
    BY <2>0, <1>14, <1>a DEF Wanted, RemoveStaleLockDirectory, WithSlotName
  <2>2. (Sound' => Sound) /\ \A y \in Locks \ {x} : dirs'[y] = dirs[y]
    BY <2>0, <1>14 DEF RemoveStaleLockDirectory, Remove, Sound, TypeOK
  <2>3. Sound /\ Sound' => dirs[x] = seen[r] \/ ~dirs[x].made
    BY <1>14, <2>0 DEF RemoveStaleLockDirectory, Remove, Sound
  <2>4. Sound /\ Sound' => Free(r, x)
    BY <2>1, <2>3, FreeLocks
  <2>5. \A y \in Locks : Holds(r, y)' => Holds(r, y) /\ (Writing(r, y)' <=> Writing(r, y))
    BY <1>14, <1>a DEF RemoveStaleLockDirectory, TypeOK
  <2>6. ~Holds(r, x)'
    BY <1>14, <1>a, <2>0, <2>1 DEF RemoveStaleLockDirectory, Wanted, TypeOK, WithSlotName
  <2> HIDE DEF Holds, Writing
  <2> QED
    BY <1>7, <2>1, <2>2, <2>4, <2>5, <2>6
<1>15. ASSUME RenameReleased(r) PROVE Step
  <2>0. PICK x : x = Wanted(r)
    OBVIOUS
  <2>1. x \in Locks /\ Holds(r, x) /\ pc[r] \in {"slotRename", "lockRename"}
        /\ x = (IF pc[r] = "slotRename" THEN slot[r] ELSE candidate[r])
    BY <2>0, <1>15, <1>a, <1>b DEF Wanted, RenameReleased, WithSlotName
  <2>2. (Sound' => Sound) /\ \A y \in Locks \ {x} : dirs'[y] = dirs[y]
    BY <2>0, <1>15 DEF RenameReleased, Remove, Sound, TypeOK
  <2>3. Sound => Free(r, x)
    BY <2>1, FreeLocks
  <2>4. ~Holds(r, x)'
    BY <1>15, <1>a, <2>1 DEF RenameReleased, Leave, AfterRelease, TypeOK, WithSlotName
  <2>5. \A y \in Locks \ {x} : Holds(r, y)' => Holds(r, y) /\ (Writing(r, y)' <=> Writing(r, y))
    BY <1>15, <1>a, <2>1 DEF RenameReleased, Leave, AfterRelease, TypeOK
  <2> HIDE DEF Holds, Writing
  <2> QED
    BY <1>7, <2>1, <2>2, <2>3, <2>4, <2>5
<1> HIDE DEF Step
<1>16. Step
  BY Zenon, <1>1, <1>2, <1>3, <1>4, <1>5, <1>6, <1>8, <1>9, <1>12, <1>13, <1>14, <1>15
     DEF MaterializationStep, MaterializationFails, MaterializeGitCommit,
         MaterializeNpmRelease, StageArtifacts
<1> QED
  BY <1>16 DEF Step

(* What a step of the verification does to the locks: it may drop what its *)
(* run holds.                                                              *)
LEMMA VerificationMoves ==
  ASSUME TypeOK, NEW r \in Runs,
         \/ Begin(r) \/ DescribeEnvironment(r) \/ FailMaterialization(r)
         \/ ValidateMaterializedCandidate(r) \/ VerificationStage(r)
         \/ CleanUp(r) \/ WriteReport(r) \/ PromoteRun(r) \/ Crash(r)
  PROVE  /\ pc[r] \notin {"done", "crashed"}
         /\ pc'[r] \in {"environment", "preflight", "done", "crashed"} \cup Verifying
         /\ seen'[r] = seen[r] \/ seen'[r] = NoDir
         /\ build'[r] = build[r] \/ build'[r] = None
<1> DEFINE Moves == /\ pc[r] \notin {"done", "crashed"}
                    /\ pc'[r] \in {"environment", "preflight", "done", "crashed"} \cup Verifying
                    /\ seen'[r] = seen[r] \/ seen'[r] = NoDir
                    /\ build'[r] = build[r] \/ build'[r] = None
<1>1. ASSUME NEW at \in {"done", "crashed"}, NEW gates, Forget(r, at, gates),
             pc[r] \notin {"done", "crashed"}
      PROVE  Moves
  BY <1>1 DEF Forget, Go, TypeOK
<1>2. ASSUME NEW to \in {"environment", "preflight"} \cup Verifying, Go(r, to),
             UNCHANGED storeVars, pc[r] \notin {"done", "crashed"}
      PROVE  Moves
  BY <1>2 DEF Go, storeVars, TypeOK
<1> HIDE DEF Moves
<1>3. ASSUME NEW at, at \notin {"done", "crashed"}, NEW gate, NEW gates,
             NEW to \in {"environment", "preflight"} \cup Verifying,
             Stage(r, at, gate, to, gates)
      PROVE  Moves
  BY <1>1, <1>2, <1>3 DEF Stage, EndInFailure
<1>4. ASSUME Begin(r) \/ DescribeEnvironment(r) \/ WriteReport(r) PROVE Moves
  BY <1>3, <1>4 DEF Begin, DescribeEnvironment, WriteReport, Verifying
<1>5. ASSUME FailMaterialization(r) \/ ValidateMaterializedCandidate(r) PROVE Moves
  BY <1>1, <1>2, <1>5 DEF FailMaterialization, ValidateMaterializedCandidate, EndInFailure, Verifying
<1>6. ASSUME CleanUp(r) PROVE Moves
  BY <1>1, <1>2, <1>6 DEF CleanUp, EndInFailure, Verifying
<1>7. ASSUME PromoteRun(r) \/ Crash(r) PROVE Moves
  BY <1>1, <1>7 DEF PromoteRun, EndInFailure, Crash, Alive
<1>8. ASSUME CheckPackageManager(r) \/ CopyChoiceMind(r) \/ InstallCandidate(r) PROVE Moves
  BY <1>3, <1>8 DEF CheckPackageManager, CopyChoiceMind, InstallCandidate, Verifying
<1>9. ASSUME ResolveDependencies(r) \/ CheckInterface(r) \/ TestContract(r) PROVE Moves
  BY <1>3, <1>9 DEF ResolveDependencies, CheckInterface, TestContract, Verifying
<1>10. ASSUME TestVertical(r) \/ VerifyRoot(r) PROVE Moves
  BY <1>3, <1>10 DEF TestVertical, VerifyRoot, Verifying
<1>11. ASSUME CheckPortsReleased(r) \/ SmokeLocalModel(r) PROVE Moves
  BY <1>3, <1>11 DEF CheckPortsReleased, SmokeLocalModel, Verifying
<1>12. Moves
  BY <1>4, <1>5, <1>6, <1>7, <1>8, <1>9, <1>10, <1>11 DEF VerificationStage
<1> QED
  BY <1>12 DEF Moves

(* What has ended stays so, and what has begun does not become idle again. *)
LEMMA EndedStays ==
  ASSUME TypeOK, RunsInv, [Next]_runVars, NEW s \in Runs
  PROVE  /\ pc[s] \in {"done", "crashed"} => pc'[s] = pc[s]
         /\ pc[s] # "idle" => pc'[s] # "idle"
<1> DEFINE Stays == /\ pc[s] \in {"done", "crashed"} => pc'[s] = pc[s]
                    /\ pc[s] # "idle" => pc'[s] # "idle"
<1>1. ASSUME NEW r \in Runs, MaterializationStep(r) \/ MaterializationFails(r) PROVE Stays
  <2>1. CASE r = s
    <3>1. pc[s] \in Materializing /\ pc'[s] \in Materializing \cup {"materialised", "failing"}
      BY <1>1, <2>1, MaterializationKeepsBuild DEF RunsInv, RunInv
    <3> QED
      BY <3>1 DEF Materializing, Building, Releasing
  <2>2. CASE r # s
    BY <1>1, <2>2, MaterializationIsOwn DEF Untouched
  <2> QED
    BY <2>1, <2>2
<1>2. ASSUME NEW r \in Runs,
             \/ Begin(r) \/ DescribeEnvironment(r) \/ FailMaterialization(r)
             \/ ValidateMaterializedCandidate(r) \/ VerificationStage(r)
             \/ CleanUp(r) \/ WriteReport(r) \/ PromoteRun(r) \/ Crash(r)
      PROVE  Stays
  <2>1. CASE r = s
    BY <1>2, <2>1, VerificationMoves DEF Verifying
  <2>2. CASE r # s
    BY <1>2, <2>2, VerificationIsOwn DEF Untouched
  <2> QED
    BY <2>1, <2>2
<1>3. ASSUME pc' = pc PROVE Stays
  BY <1>3
<1> HIDE DEF Stays
<1>4. ASSUME NEW r \in Runs, LockHeartbeat(r) PROVE Stays
  BY <1>3, <1>4 DEF LockHeartbeat, locals
<1>5. ASSUME Time \/ UNCHANGED runVars PROVE Stays
  BY <1>3, <1>5 DEF Time, GoStale, GoOverdue, runVars, vars, locals
<1>6. Stays
  BY Zenon, <1>1, <1>2, <1>4, <1>5 DEF Next, RunStep, Disturbance
<1> QED
  BY <1>6 DEF Stays

(* Every step keeps what the holders of the locks have. *)
LEMMA HeldInvKept == TypeOK /\ RunsInv /\ LocksInv /\ [Next]_runVars => HeldInv'
<1> SUFFICES ASSUME TypeOK, RunsInv, LocksInv, [Next]_runVars PROVE HeldInv'
  OBVIOUS
<1>0. HeldInv
  BY DEF LocksInv
<1>1. ASSUME NEW r \in Runs, MaterializationStep(r) \/ MaterializationFails(r) PROVE HeldInv'
  BY <1>0, <1>1, HeldKept, MaterializationHolds, MaterializationIsOwn
<1>2. ASSUME NEW r \in Runs,
             \/ Begin(r) \/ DescribeEnvironment(r) \/ FailMaterialization(r)
             \/ ValidateMaterializedCandidate(r) \/ VerificationStage(r)
             \/ CleanUp(r) \/ WriteReport(r) \/ PromoteRun(r) \/ Crash(r)
      PROVE  HeldInv'
  <2>1. /\ candidate' = candidate /\ UNCHANGED <<dirs, shared, pauses, raced>>
        /\ \A s \in Runs \ {r} : Untouched(s)
        /\ pc'[r] \in {"environment", "preflight", "done", "crashed"} \cup Verifying
    BY <1>2, VerificationIsOwn, VerificationMoves
  <2>2. \A x \in Locks : ~Holds(r, x)'
    BY <2>1 DEF Holds, WithLock, WithSlot, Verifying
  <2> QED
    BY <1>0, <2>1, <2>2, HeldKept, QuietStep DEF Sound
<1>3. ASSUME UNCHANGED <<locals, dirs, pauses, raced>> PROVE HeldInv'
  BY <1>0, <1>3 DEF HeldInv, HeldDir, Exclusive, Holds, Writing, Sound, locals
<1>4. ASSUME UNCHANGED <<locals, raced>>, pauses' \in Nat, pauses' = 0 => pauses = 0,
             NEW x \in Locks, NEW d, dirs' = [dirs EXCEPT ![x] = d],
             \A r \in Runs : Sound' /\ Holds(r, x) => HeldDir(r, x)'
      PROVE  HeldInv'
  <2> SUFFICES ASSUME Sound'
               PROVE  /\ \A r \in Runs, y \in Locks : Holds(r, y)' => HeldDir(r, y)'
                      /\ Exclusive'
    BY DEF HeldInv
  <2>1. Sound
    BY <1>4 DEF Sound
  <2>2. \A r \in Runs, y \in Locks : Holds(r, y)' <=> Holds(r, y)
    BY <1>4 DEF Holds, locals
  <2>3. Exclusive'
    BY <1>0, <1>4, <2>1 DEF HeldInv, Exclusive, Holds, locals
  <2>4. \A r \in Runs, y \in Locks \ {x} : Holds(r, y) => HeldDir(r, y)'
    BY <1>0, <1>4, <2>1 DEF HeldInv, HeldDir, Writing, locals, TypeOK
  <2> QED
    BY <1>4, <2>2, <2>3, <2>4
<1>5. ASSUME NEW r \in Runs, LockHeartbeat(r) PROVE HeldInv'
  <2>1. PICK x \in Locks : /\ dirs[x].by # None /\ dirs[x].stale
                           /\ dirs' = [dirs EXCEPT ![x].stale = FALSE]
    BY <1>5 DEF LockHeartbeat
  <2>2. \A s \in Runs : Sound /\ Holds(s, x) => HeldDir(s, x)'
    BY <1>0, <1>5, <2>1 DEF LockHeartbeat, HeldInv, HeldDir, Writing, Made, NoDir, locals,
                            TypeOK, Dir
  <2> QED
    BY <1>4, <1>5, <2>1, <2>2 DEF LockHeartbeat, Sound, TypeOK
<1>6. ASSUME NEW x \in Locks, GoOverdue(x) PROVE HeldInv'
  BY <1>6 DEF GoOverdue, HeldInv, Sound, TypeOK
<1>7. ASSUME NEW x \in Locks, GoStale(x) PROVE HeldInv'
  <2>1. Sound' => ~(dirs[x].by = None /\ MakerPaused(x)) /\ Sound
    BY <1>7 DEF GoStale, Sound, TypeOK
  <2>2. \A s \in Runs : Writing(s, x) => MakerPaused(x)
    BY DEF Writing, MakerPaused, Wanted
  <2>3. \A s \in Runs : Sound' /\ Holds(s, x) => ~Writing(s, x) /\ dirs[x].made /\ dirs[x].by = s
    BY <1>0, <2>1, <2>2 DEF HeldInv, HeldDir, Made, NoDir
  <2>4. \A s \in Runs : Sound' /\ Holds(s, x) => HeldDir(s, x)'
    BY <1>7, <2>3 DEF GoStale, HeldDir, Writing, locals, TypeOK, Dir
  <2>5. UNCHANGED <<locals, raced>> /\ pauses' \in Nat /\ (pauses' = 0 => pauses = 0)
    BY <1>7 DEF GoStale, TypeOK
  <2>6. PICK d : dirs' = [dirs EXCEPT ![x] = d]
    BY <1>7 DEF GoStale
  <2> QED
    BY <1>4, <2>4, <2>5, <2>6
<1>8. CASE UNCHANGED runVars
  BY <1>3, <1>8 DEF runVars, vars
<1> QED
  BY Zenon, <1>1, <1>2, <1>5, <1>6, <1>7, <1>8 DEF Next, RunStep, Disturbance, Time

(* A waiter's reading stays true of what it read. *)
LEMMA KnownKept ==
  ASSUME TypeOK, RunsInv, [Next]_runVars, pauses' = 0 => pauses = 0, NEW d, OwnerKnown(d)
  PROVE  OwnerKnown(d)' /\ (Evictable(d) => Evictable(d)')
<1>1. OwnerKnown(d)'
  BY EndedStays DEF OwnerKnown
<1>2. ASSUME Evictable(d) PROVE Evictable(d)'
  <2>1. ~Alive(d.by) => ~Alive(d.by)'
    BY EndedStays DEF Alive, OwnerKnown
  <2> QED
    BY <1>2, <2>1 DEF Evictable
<1> QED
  BY <1>1, <1>2

(* Who writes owner.json and who reads it. *)
LEMMA MaterializationMoves ==
  ASSUME TypeOK, NEW r \in Runs, MaterializationStep(r) \/ MaterializationFails(r)
  PROVE  /\ pauses' = pauses
         /\ \A x \in Locks : dirs'[x] \in {dirs[x], NoDir, Made, OwnedBy(r)}
         /\ \/ RecoverStaleMaterializationLock(r)
            \/ /\ pc'[r] \notin {"lockEvict", "slotEvict"}
               /\ seen'[r] \in {seen[r], NoDir}
<1> DEFINE Moves ==
      /\ pauses' = pauses
      /\ \A x \in Locks : dirs'[x] \in {dirs[x], NoDir, Made, OwnedBy(r)}
      /\ \/ RecoverStaleMaterializationLock(r)
         \/ /\ pc'[r] \notin {"lockEvict", "slotEvict"}
            /\ seen'[r] \in {seen[r], NoDir}
<1> USE DEF TypeOK, Go, Fail
<1>0. ASSUME CleanupFailedOwnerWrite(r) PROVE Moves
  BY <1>0 DEF CleanupFailedOwnerWrite, Remove
<1>1. ASSUME PassPreflight(r) \/ AcquireMaterializationLock(r) \/ AcquireMaterializationSlot(r)
      PROVE  Moves
  BY <1>1 DEF PassPreflight, AcquireMaterializationLock, AcquireMaterializationSlot
<1>2. ASSUME WriteLockOwner(r) PROVE Moves
  BY <1>0, <1>2 DEF WriteLockOwner
<1>3. ASSUME RecoverStaleMaterializationLock(r) PROVE Moves
  BY <1>3 DEF RecoverStaleMaterializationLock
<1>4. ASSUME RemoveStaleLockDirectory(r) PROVE Moves
  BY <1>4 DEF RemoveStaleLockDirectory, Remove
<1>5. ASSUME ReadReusableMaterialization(r) \/ Build(r) PROVE Moves
  BY <1>5 DEF ReadReusableMaterialization, Build
<1>6. ASSUME NEW from, NEW to \in {"stage", "promote", "commit"}, AssertOwnership(r, from, to)
      PROVE  Moves
  BY <1>6 DEF AssertOwnership
<1>7. ASSUME PromoteArtifacts(r) \/ CommitPointer(r) PROVE Moves
  BY <1>7 DEF PromoteArtifacts, CommitPointer
<1>8. ASSUME ReleaseOwnedDirectory(r) PROVE Moves
  BY <1>8 DEF ReleaseOwnedDirectory, Leave, AfterRelease
<1>9. ASSUME RenameReleased(r) PROVE Moves
  BY <1>9 DEF RenameReleased, Leave, AfterRelease, Remove
<1>10. ASSUME FailOwnerWrite(r) PROVE Moves
  BY <1>0, <1>10 DEF FailOwnerWrite
<1>11. ASSUME InterruptStage(r) \/ FailRelease(r) PROVE Moves
  BY <1>11 DEF InterruptStage, FailRelease, AfterRelease
<1> HIDE DEF Moves
<1>12. Moves
  BY Zenon, <1>1, <1>2, <1>3, <1>4, <1>5, <1>6, <1>7, <1>8, <1>9, <1>10, <1>11
     DEF MaterializationStep, MaterializationFails, MaterializeGitCommit,
         MaterializeNpmRelease, StageArtifacts
<1> QED
  BY <1>12 DEF Moves

(* Every step keeps what is known of the owners. *)
LEMMA SeenKept == TypeOK /\ RunsInv /\ LocksInv /\ [Next]_runVars => SeenInv'
<1> SUFFICES ASSUME TypeOK, RunsInv, LocksInv, [Next]_runVars PROVE SeenInv'
  OBVIOUS
<1> USE DEF LocksInv, SeenInv
<1>a. ASSUME pauses' = 0 => pauses = 0
      PROVE  /\ \A d : OwnerKnown(d) => OwnerKnown(d)' /\ (Evictable(d) => Evictable(d)')
             /\ \A d \in {NoDir, Made} : OwnerKnown(d)'
  <2>1. \A d \in {NoDir, Made} : OwnerKnown(d)
    BY MaterializationAssumption DEF OwnerKnown, NoDir, Made
  <2> QED
    BY <1>a, <2>1, KnownKept
<1>b. ASSUME \A x \in Locks : \E d : dirs'[x] = d /\ OwnerKnown(d)',
             \A s \in Runs : \E d : seen'[s] = d /\ OwnerKnown(d)'
                               /\ (pc'[s] \in {"lockEvict", "slotEvict"} => Evictable(d)')
      PROVE  SeenInv'
  BY <1>b DEF OwnerKnown, Evictable, Alive
(* What another run has seen, and what a run has seen before. *)
<1>c. ASSUME pauses' = 0 => pauses = 0, NEW s \in Runs, seen'[s] = seen[s],
             pc'[s] \in {"lockEvict", "slotEvict"} => pc[s] = pc'[s]
      PROVE  \E d : seen'[s] = d /\ OwnerKnown(d)'
                 /\ (pc'[s] \in {"lockEvict", "slotEvict"} => Evictable(d)')
  BY <1>a, <1>c
<1>1. ASSUME NEW r \in Runs, MaterializationStep(r) \/ MaterializationFails(r) PROVE SeenInv'
  <2>1. /\ pauses' = pauses
        /\ \A x \in Locks : dirs'[x] \in {dirs[x], NoDir, Made, OwnedBy(r)}
        /\ \/ RecoverStaleMaterializationLock(r)
           \/ pc'[r] \notin {"lockEvict", "slotEvict"} /\ seen'[r] \in {seen[r], NoDir}
    BY <1>1, MaterializationMoves
  <2>2. pc'[r] # "idle"
    <3>1. pc'[r] \in Materializing \cup {"materialised", "failing"}
      BY <1>1, MaterializationKeepsBuild DEF RunsInv, RunInv
    <3> QED
      BY <3>1 DEF Materializing, Building, Releasing
  <2>3. OwnerKnown(OwnedBy(r))'
    BY <2>2 DEF OwnerKnown, OwnedBy, Made, NoDir
  <2>4. \A x \in Locks : \E d : dirs'[x] = d /\ OwnerKnown(d)'
    BY <1>a, <2>1, <2>3
  <2>5. ASSUME NEW s \in Runs
        PROVE  \E d : seen'[s] = d /\ OwnerKnown(d)'
                   /\ (pc'[s] \in {"lockEvict", "slotEvict"} => Evictable(d)')
    <3>1. CASE s # r
      BY <1>1, <1>c, <2>1, <3>1, MaterializationIsOwn DEF Untouched
    <3>2. CASE s = r /\ RecoverStaleMaterializationLock(r)
      <4>1. PICK x \in Locks : Recoverable(dirs[x]) /\ seen'[r] = dirs[x]
        BY <3>2 DEF RecoverStaleMaterializationLock, TypeOK, Locks
      <4>2. OwnerKnown(dirs[x]) /\ Evictable(dirs[x])
        BY <4>1 DEF Recoverable, Evictable
      <4> QED
        BY <1>a, <2>1, <3>2, <4>1, <4>2
    <3>3. CASE s = r /\ pc'[r] \notin {"lockEvict", "slotEvict"} /\ seen'[r] \in {seen[r], NoDir}
      BY <1>a, <2>1, <3>3
    <3> QED
      BY <2>1, <3>1, <3>2, <3>3
  <2> QED
    BY <1>b, <2>4, <2>5
<1>2. ASSUME NEW r \in Runs,
             \/ Begin(r) \/ DescribeEnvironment(r) \/ FailMaterialization(r)
             \/ ValidateMaterializedCandidate(r) \/ VerificationStage(r)
             \/ CleanUp(r) \/ WriteReport(r) \/ PromoteRun(r) \/ Crash(r)
      PROVE  SeenInv'
  <2>1. /\ UNCHANGED <<dirs, pauses>> /\ \A s \in Runs \ {r} : Untouched(s)
        /\ pc'[r] \notin {"lockEvict", "slotEvict"} /\ seen'[r] \in {seen[r], NoDir}
    BY <1>2, VerificationIsOwn, VerificationMoves DEF Verifying
  <2>2. \A x \in Locks : \E d : dirs'[x] = d /\ OwnerKnown(d)'
    BY <1>a, <2>1
  <2>3. ASSUME NEW s \in Runs
        PROVE  \E d : seen'[s] = d /\ OwnerKnown(d)'
                   /\ (pc'[s] \in {"lockEvict", "slotEvict"} => Evictable(d)')
    <3>1. CASE s # r
      BY <1>c, <2>1, <3>1 DEF Untouched
    <3>2. CASE s = r
      BY <1>a, <2>1, <3>2
    <3> QED
      BY <3>1, <3>2
  <2> QED
    BY <1>b, <2>2, <2>3
<1>3. ASSUME UNCHANGED locals, pauses' = 0 => pauses = 0,
             \A x \in Locks : dirs'[x].by = dirs[x].by
                              /\ (pauses' = 0 => dirs'[x].overdue = dirs[x].overdue)
      PROVE  SeenInv'
  <2>1. \A x \in Locks : \E d : dirs'[x] = d /\ OwnerKnown(d)'
    BY <1>3 DEF locals, OwnerKnown
  <2>2. \A s \in Runs : \E d : seen'[s] = d /\ OwnerKnown(d)'
                             /\ (pc'[s] \in {"lockEvict", "slotEvict"} => Evictable(d)')
    BY <1>3, <1>c DEF locals
  <2> QED
    BY <1>b, <2>1, <2>2
<1>4. ASSUME NEW r \in Runs, LockHeartbeat(r) PROVE SeenInv'
  <2>1. PICK x \in Locks : dirs' = [dirs EXCEPT ![x].stale = FALSE]
    BY <1>4 DEF LockHeartbeat
  <2>2. \A y \in Locks : dirs'[y].by = dirs[y].by /\ dirs'[y].overdue = dirs[y].overdue
    BY <2>1 DEF TypeOK, Dir
  <2> QED
    BY <1>3, <1>4, <2>2 DEF LockHeartbeat
<1>5. ASSUME NEW x \in Locks, GoStale(x) PROVE SeenInv'
  <2>1. pauses' = 0 => pauses = 0
    BY <1>5 DEF GoStale, TypeOK
  <2> QED
    BY <1>3, <1>5, <2>1 DEF GoStale, TypeOK, Dir
<1>6. ASSUME NEW x \in Locks, GoOverdue(x) PROVE SeenInv'
  <2>1. pauses' # 0
    BY <1>6 DEF GoOverdue, TypeOK
  <2> QED
    BY <1>3, <1>6, <2>1 DEF GoOverdue, TypeOK, Dir
<1>7. CASE UNCHANGED runVars
  BY <1>3, <1>7 DEF runVars, vars
<1> HIDE DEF SeenInv
<1> QED
  BY Zenon, <1>1, <1>2, <1>4, <1>5, <1>6, <1>7 DEF Next, RunStep, Disturbance, Time

(* The locks that are left from before name no run. *)
LEMMA LocksStart == CompatibilityInit => LocksInv
<1> SUFFICES ASSUME CompatibilityInit PROVE LocksInv
  OBVIOUS
<1>1. pc = [r \in Runs |-> "idle"] /\ seen = [r \in Runs |-> NoDir]
  BY DEF CompatibilityInit, Init
<1>2. ASSUME NEW x \in Locks PROVE dirs[x].by \notin Runs /\ ~dirs[x].overdue
  BY MaterializationAssumption DEF CompatibilityInit, Init, OwnedBy, Made, NoDir
<1>3. SeenInv
  BY <1>1, <1>2, MaterializationAssumption DEF SeenInv, OwnerKnown, NoDir
<1>4. \A r \in Runs, x \in Locks : ~Holds(r, x)
  BY <1>1 DEF Holds, WithLock, WithSlot
<1> QED
  BY <1>3, <1>4 DEF LocksInv, HeldInv, Exclusive

(* While nothing has outlived its lock, the directory of a lock that a run *)
(* holds says so, and no other run holds the lock.                         *)
THEOREM LocksInvariant == Spec => []LocksInv
<1> QED
  BY LocksStart, SeenKept, HeldInvKept, RunsInvariant, PTL DEF Spec, LocksInv

-----------------------------------------------------------------------------
(* What is built under a lock is built once.                               *)

(* What is sound after a step was sound before it. *)
LEMMA SoundBefore ==
  ASSUME TypeOK, RunsInv, LocksInv, [Next]_runVars, Sound'
  PROVE  Sound
<1>1. ASSUME NEW r \in Runs, MaterializationStep(r) \/ MaterializationFails(r) PROVE Sound
  BY <1>1, MaterializationHolds
<1>2. ASSUME NEW r \in Runs,
             \/ Begin(r) \/ DescribeEnvironment(r) \/ FailMaterialization(r)
             \/ ValidateMaterializedCandidate(r) \/ VerificationStage(r)
             \/ CleanUp(r) \/ WriteReport(r) \/ PromoteRun(r) \/ Crash(r)
      PROVE  Sound
  BY <1>2, VerificationIsOwn DEF Sound
<1>3. ASSUME NEW r \in Runs, LockHeartbeat(r) PROVE Sound
  BY <1>3 DEF LockHeartbeat, Sound
<1>4. ASSUME Time PROVE Sound
  BY <1>4 DEF Time, GoStale, GoOverdue, Sound, TypeOK
<1>5. CASE UNCHANGED runVars
  BY <1>5 DEF runVars, vars, Sound
<1> QED
  BY Zenon, <1>1, <1>2, <1>3, <1>4, <1>5 DEF Next, RunStep, Disturbance

(* What run s has agrees with the pointer of its candidate. *)
Agrees(s) ==
  /\ pc[s] \in Unpublished => pointer[candidate[s]] = None
  /\ pc[s] \in Agreeing /\ build[s] # None => pointer[candidate[s]] = build[s]
  /\ report[s].directory = "candidate" => pointer[candidate[s]] = report[s].artifacts

(* A materializing run goes on with the pointer it found or none. *)
LEMMA MaterializationAgrees ==
  ASSUME TypeOK, NEW r \in Runs, Agrees(r), UNCHANGED outcome,
         MaterializationStep(r) \/ MaterializationFails(r), ~CommitPointer(r)
  PROVE  Agrees(r)' /\ pointer' = pointer
<1> DEFINE Own == Agrees(r)' /\ pointer' = pointer
<1> USE DEF TypeOK, Go, Fail, Agrees, Unpublished, Agreeing, Building, Releasing, Verifying,
            WithSlot, outcome, shared
<1>0. ASSUME CleanupFailedOwnerWrite(r) PROVE Own
  BY <1>0 DEF CleanupFailedOwnerWrite
<1>1. ASSUME PassPreflight(r) \/ AcquireMaterializationLock(r) PROVE Own
  BY <1>1 DEF PassPreflight, AcquireMaterializationLock
<1>2. ASSUME AcquireMaterializationSlot(r) PROVE Own
  BY <1>2 DEF AcquireMaterializationSlot
<1>3. ASSUME WriteLockOwner(r) PROVE Own
  BY <1>0, <1>3 DEF WriteLockOwner
<1>4. ASSUME RecoverStaleMaterializationLock(r) PROVE Own
  BY <1>4 DEF RecoverStaleMaterializationLock
<1>5. ASSUME RemoveStaleLockDirectory(r) PROVE Own
  BY <1>5 DEF RemoveStaleLockDirectory
<1>6. ASSUME ReadReusableMaterialization(r) PROVE Own
  BY <1>6 DEF ReadReusableMaterialization
<1>7. ASSUME Build(r) PROVE Own
  BY <1>7 DEF Build
<1>8. ASSUME NEW from \in {"check", "stage", "point"}, NEW to \in {"stage", "promote", "commit"},
             AssertOwnership(r, from, to)
      PROVE  Own
  BY <1>8 DEF AssertOwnership
<1>9. ASSUME PromoteArtifacts(r) PROVE Own
  BY <1>9 DEF PromoteArtifacts
<1>10. ASSUME ReleaseOwnedDirectory(r) PROVE Own
  BY <1>10 DEF ReleaseOwnedDirectory, Leave, AfterRelease
<1>11. ASSUME RenameReleased(r) PROVE Own
  BY <1>11 DEF RenameReleased, Leave, AfterRelease
<1>12. ASSUME FailOwnerWrite(r) PROVE Own
  BY <1>0, <1>12 DEF FailOwnerWrite
<1>13. ASSUME InterruptStage(r) PROVE Own
  BY <1>13 DEF InterruptStage
<1>14. ASSUME FailRelease(r) PROVE Own
  BY <1>14 DEF FailRelease, AfterRelease
<1> HIDE DEF Own
<1>15. Own
  BY Zenon, <1>1, <1>2, <1>3, <1>4, <1>5, <1>6, <1>7, <1>8, <1>9, <1>10, <1>11, <1>12, <1>13, <1>14
     DEF MaterializationStep, MaterializationFails, MaterializeGitCommit,
         MaterializeNpmRelease, StageArtifacts
<1> QED
  BY <1>15 DEF Own

(* A candidate's report names what its run has built. *)
LEMMA ReportMoves ==
  ASSUME TypeOK, NEW r \in Runs,
         \/ Begin(r) \/ DescribeEnvironment(r) \/ FailMaterialization(r)
         \/ ValidateMaterializedCandidate(r) \/ VerificationStage(r)
         \/ CleanUp(r) \/ WriteReport(r) \/ PromoteRun(r) \/ Crash(r)
  PROVE  report'[r].directory = "candidate" =>
           \/ report'[r] = report[r]
           \/ pc[r] = "promotion" /\ report'[r].artifacts = build[r]
<1> DEFINE Moves == report'[r].directory = "candidate" =>
                      \/ report'[r] = report[r]
                      \/ pc[r] = "promotion" /\ report'[r].artifacts = build[r]
<1>1. ASSUME NEW gate, NEW gates, EndInFailure(r, gate, gates) PROVE Moves
  BY <1>1, ZenonT(60) DEF EndInFailure, TypeOK, NoReport
<1>2. ASSUME PromoteRun(r) PROVE Moves
  <2>1. CASE EndInFailure(r, "F", passed[r])
    BY <1>1, <2>1
  <2>2. CASE ~EndInFailure(r, "F", passed[r])
    BY <1>2, <2>2 DEF PromoteRun, TypeOK
  <2> QED
    BY <2>1, <2>2
<1>3. ASSUME report' = report PROVE Moves
  BY <1>3
<1> HIDE DEF Moves
<1>4. ASSUME NEW at, NEW gate, NEW to, NEW gates, Stage(r, at, gate, to, gates) PROVE Moves
  BY <1>1, <1>3, <1>4 DEF Stage
<1>5. ASSUME FailMaterialization(r) \/ ValidateMaterializedCandidate(r) \/ CleanUp(r) PROVE Moves
  BY <1>1, <1>3, <1>5 DEF FailMaterialization, ValidateMaterializedCandidate, CleanUp
<1>6. ASSUME Crash(r) PROVE Moves
  BY <1>3, <1>6 DEF Crash
<1>7. Moves
  BY Zenon, <1>2, <1>4, <1>5, <1>6
     DEF Begin, DescribeEnvironment, VerificationStage, CheckPackageManager, CopyChoiceMind,
         InstallCandidate, ResolveDependencies, CheckInterface, TestContract, TestVertical,
         VerifyRoot, CheckPortsReleased, SmokeLocalModel, WriteReport
<1> QED
  BY <1>7 DEF Moves

(* The verification goes on with what was built. *)
LEMMA AgreeingBefore ==
  ASSUME TypeOK, NEW r \in Runs,
         \/ Begin(r) \/ DescribeEnvironment(r) \/ FailMaterialization(r)
         \/ ValidateMaterializedCandidate(r) \/ VerificationStage(r)
         \/ CleanUp(r) \/ WriteReport(r) \/ PromoteRun(r) \/ Crash(r),
         pc'[r] \in Verifying
  PROVE  pc[r] \in Verifying \cup {"materialised"}
<1>1. ASSUME NEW at \in {"done", "crashed"}, NEW gates, Forget(r, at, gates) PROVE FALSE
  BY <1>1 DEF Forget, Go, TypeOK, Verifying
<1>2. ASSUME NEW at, NEW gate, NEW to, NEW gates, Stage(r, at, gate, to, gates),
             at \in Verifying \/ to \notin Verifying
      PROVE  pc[r] \in Verifying
  BY <1>1, <1>2 DEF Stage, EndInFailure, Go, TypeOK
<1>3. ASSUME Begin(r) \/ DescribeEnvironment(r) \/ WriteReport(r) PROVE pc[r] \in Verifying
  BY <1>2, <1>3 DEF Begin, DescribeEnvironment, WriteReport, Verifying
<1>4. CASE FailMaterialization(r) \/ ValidateMaterializedCandidate(r) \/ CleanUp(r)
           \/ PromoteRun(r) \/ Crash(r)
  BY <1>1, <1>4 DEF FailMaterialization, ValidateMaterializedCandidate, CleanUp, PromoteRun,
                    Crash, EndInFailure, Verifying
<1>5. CASE VerificationStage(r)
  BY <1>5 DEF VerificationStage, CheckPackageManager, CopyChoiceMind, InstallCandidate,
              ResolveDependencies, CheckInterface, TestContract, TestVertical, VerifyRoot,
              CheckPortsReleased, SmokeLocalModel, Stage, Verifying
<1> QED
  BY <1>3, <1>4, <1>5

(* Every step keeps the builds and the pointers in agreement. *)
LEMMA BuildsKept == TypeOK /\ RunsInv /\ LocksInv /\ BuildsInv /\ [Next]_runVars => BuildsInv'
<1> SUFFICES ASSUME TypeOK, RunsInv, LocksInv, BuildsInv, [Next]_runVars, Sound',
                    NEW s \in Runs
             PROVE  Agrees(s)'
  BY DEF BuildsInv, Agrees
<1>0. Sound /\ \A r \in Runs : Agrees(r) /\ RunInv(r)
  BY SoundBefore DEF BuildsInv, Agrees, RunsInv
<1>1. ASSUME candidate' = candidate, pointer' = pointer, Untouched(s), OutcomeUntouched(s)
      PROVE  Agrees(s)'
  BY <1>0, <1>1 DEF Agrees, Untouched, OutcomeUntouched
<1>2. ASSUME NEW r \in Runs, CommitPointer(r), UNCHANGED outcome PROVE Agrees(s)'
  <2>1. /\ candidate' = candidate /\ pointer' = [pointer EXCEPT ![candidate[r]] = build[r]]
        /\ pc[r] = "commit" /\ pointer[candidate[r]] = None /\ build[r] \in Builds
    BY <1>0, <1>2 DEF CommitPointer, Agrees, Unpublished, Building, RunInv, HasBuild
  <2>2. CASE s = r
    <3>1. pc'[s] = "slotRelease" /\ build'[s] \in {build[s], None}
      BY <1>2, <2>2 DEF CommitPointer, Go, Fail, TypeOK
    <3>2. report'[s].directory # "candidate"
      BY <1>0, <1>2, <2>1, <2>2 DEF outcome, RunInv, HasPassed, NoReport
    <3> QED
      BY <2>1, <2>2, <3>1, <3>2 DEF Agrees, Unpublished, Building, TypeOK
  <2>3. CASE s # r /\ candidate[s] = candidate[r]
    <3>1. candidate[r] \in Locks /\ Holds(r, candidate[r])
      BY <2>1 DEF Holds, WithLock, Locks, TypeOK
    <3>2. ~Holds(s, candidate[s])
      BY <1>0, <2>3, <3>1 DEF LocksInv, HeldInv, Exclusive
    <3>3. pc[s] \notin Unpublished
      BY <3>2 DEF Holds, WithLock, Unpublished, Building
    <3>4. ~(pc[s] \in Agreeing /\ build[s] # None)
      BY <1>0, <2>1, <2>3 DEF Agrees
    <3>5. report[s].directory # "candidate"
      BY <1>0, <2>1, <2>3, MaterializationAssumption DEF Agrees, RunInv, HonestReport
    <3>6. Untouched(s) /\ report' = report
      BY <1>2, <2>3, MaterializationIsOwn DEF MaterializationStep, outcome
    <3> QED
      BY <3>3, <3>4, <3>5, <3>6 DEF Agrees, Untouched
  <2>4. CASE candidate[s] # candidate[r]
    <3>1. Untouched(s) /\ report' = report /\ pointer'[candidate[s]] = pointer[candidate[s]]
      BY <1>2, <2>1, <2>4, MaterializationIsOwn DEF MaterializationStep, outcome, TypeOK
    <3> QED
      BY <1>0, <2>1, <3>1 DEF Agrees, Untouched
  <2> QED
    BY <2>2, <2>3, <2>4
<1>3. ASSUME NEW r \in Runs, MaterializationStep(r) \/ MaterializationFails(r), ~CommitPointer(r),
             UNCHANGED outcome
      PROVE  Agrees(s)'
  <2>1. CASE s = r
    BY <1>0, <1>3, <2>1, MaterializationAgrees
  <2>2. CASE s # r
    <3>1. pointer' = pointer
      BY <1>0, <1>3, MaterializationAgrees
    <3> QED
      BY <1>1, <1>3, <2>2, <3>1, MaterializationIsOwn DEF outcome, OutcomeUntouched
  <2> QED
    BY <2>1, <2>2
<1>4. ASSUME NEW r \in Runs,
             \/ Begin(r) \/ DescribeEnvironment(r) \/ FailMaterialization(r)
             \/ ValidateMaterializedCandidate(r) \/ VerificationStage(r)
             \/ CleanUp(r) \/ WriteReport(r) \/ PromoteRun(r) \/ Crash(r)
      PROVE  Agrees(s)'
  <2>1. /\ candidate' = candidate /\ pointer' = pointer
        /\ \A q \in Runs \ {r} : Untouched(q) /\ OutcomeUntouched(q)
    BY <1>4, VerificationIsOwn DEF shared
  <2>2. CASE s # r
    BY <1>1, <2>1, <2>2
  <2>3. CASE s = r
    <3>1. /\ pc'[s] \in {"environment", "preflight", "done", "crashed"} \cup Verifying
          /\ build'[s] = build[s] \/ build'[s] = None
          /\ report'[s].directory = "candidate" =>
               \/ report'[s] = report[s]
               \/ pc[s] = "promotion" /\ report'[s].artifacts = build[s]
      BY <1>4, <2>3, VerificationMoves, ReportMoves
    <3>2. pc'[s] \in Agreeing /\ build'[s] # None =>
            pc[s] \in Agreeing /\ build'[s] = build[s]
      BY <1>4, <2>3, <3>1, AgreeingBefore DEF Agreeing, Releasing, Verifying
    <3>3. pc'[s] \notin Unpublished
      BY <3>1 DEF Unpublished, Building, Verifying
    <3>4. pc[s] = "promotion" => pc[s] \in Agreeing /\ build[s] # None
      BY <1>0, MaterializationAssumption DEF RunInv, HasBuild, Agreeing, Verifying
    <3> QED
      BY <1>0, <2>1, <3>1, <3>2, <3>3, <3>4 DEF Agrees
  <2> QED
    BY <2>2, <2>3
<1>5. ASSUME UNCHANGED <<locals, shared, outcome>> PROVE Agrees(s)'
  BY <1>1, <1>5 DEF locals, shared, outcome, Untouched, OutcomeUntouched
<1>6. ASSUME NEW r \in Runs, LockHeartbeat(r), UNCHANGED outcome PROVE Agrees(s)'
  BY <1>5, <1>6 DEF LockHeartbeat
<1>7. ASSUME Time, UNCHANGED outcome PROVE Agrees(s)'
  BY <1>5, <1>7 DEF Time, GoStale, GoOverdue
<1>8. CASE UNCHANGED runVars
  BY <1>5, <1>8 DEF runVars, vars, outcome
<1> QED
  BY Zenon, <1>2, <1>3, <1>4, <1>6, <1>7, <1>8 DEF Next, RunStep, Disturbance

(* They agree at the start, when there are none. *)
LEMMA BuildsStart == CompatibilityInit => BuildsInv
BY DEF CompatibilityInit, Init, BuildsInv, NoReport, Unpublished, Agreeing, Building, Releasing,
       Verifying

(* A candidate is built, and a slot held, by one run at a time, and the    *)
(* runs that pass with a candidate pass with the same artifacts, as long   *)
(* as no live process outlives its lock and no waiter removes another      *)
(* directory than the one it read.                                         *)
THEOREM BuiltOnceHolds == Spec => []BuiltOnce
<1>1. LocksInv /\ BuildsInv => BuiltOnce
  BY DEF LocksInv, HeldInv, Exclusive, BuildsInv, Sound, BuiltOnce
<1> QED
  BY <1>1, BuildsStart, BuildsKept, RunsInvariant, LocksInvariant, PTL DEF Spec
=============================================================================
