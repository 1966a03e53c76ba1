---------------------------- MODULE CompatibilityRun ----------------------------
(***************************************************************************)
(* pnpm coremind:compat (scripts/coremind-compat/cli.ts, index.ts,         *)
(* system.ts): a run takes a CoreMind candidate through the Gates A to F,  *)
(* and G when it is asked for the local model, and leaves one directory:   *)
(* candidate-<run> with the report of what passed, or failure-<run>.       *)
(*                                                                         *)
(* Gate A is the candidate, the environment and the packages, which        *)
(* Materialization builds or reuses; Gate B is that the eight packages are *)
(* of one version.  The other gates work on a copy of ChoiceMind of the    *)
(* run's own, stage after stage; a stage fails for what it finds or for    *)
(* its deadline, and the first that fails ends the run.                    *)
(***************************************************************************)
EXTENDS Materialization

CONSTANTS Mixed,       \* artifacts whose packages are not of one version
          ModelRuns    \* runs with --gate-g-local-qwen

ASSUME CompatibilityAssumption == Mixed \subseteq Builds /\ ModelRuns \subseteq Runs

VARIABLES passed,           \* how many gates, from A on, the run has passed
          passedGateStates, \* the gates of the report it has formed
          report            \* the directory it leaves and the gates it reports

runVars == <<vars, passed, passedGateStates, report>>
outcome == <<passed, passedGateStates, report>>
storeVars == <<failed, candidate, slot, build, seen, dirs, shared, pauses, raced>>

Gates == <<"A", "B", "C", "D", "E", "F", "G">>
Number(g) == CHOOSE n \in DOMAIN Gates : Gates[n] = g

NoStates == [n \in DOMAIN Gates |-> "NOT_RUN"]
NoReport == [directory |-> "none", gates |-> NoStates, artifacts |-> None]

CompatibilityInit ==
  /\ Init
  /\ passed = [r \in Runs |-> 0]
  /\ passedGateStates = [r \in Runs |-> NoStates]
  /\ report = [r \in Runs |-> NoReport]

-----------------------------------------------------------------------------
(* How a run ends. *)

(* What the process knew goes with it. *)
Forget(r, at, gates) ==
  /\ Go(r, at)
  /\ failed' = [failed EXCEPT ![r] = FALSE]
  /\ slot' = [slot EXCEPT ![r] = None]
  /\ build' = [build EXCEPT ![r] = None]
  /\ seen' = [seen EXCEPT ![r] = NoDir]
  /\ passed' = [passed EXCEPT ![r] = gates]
  /\ passedGateStates' = [passedGateStates EXCEPT ![r] = NoStates]
  /\ UNCHANGED <<candidate, dirs, shared, pauses, raced>>

(* Mutant: the gate that failed is among those before it. *)
FailureGateStatesThrough(gate) ==
  [n \in DOMAIN Gates |-> IF n <= Number(gate) THEN "PASSED" ELSE "NOT_RUN"]

FailureGateStates(gate) ==
  [n \in DOMAIN Gates |->
     IF n < Number(gate) THEN "PASSED"
     ELSE IF n = Number(gate) THEN "FAILED" ELSE "NOT_RUN"]

(* The staging directory is removed and the report of the failure written, *)
(* of the gates a report has already been formed of if Gate G is one; the  *)
(* report may itself not be written.                                       *)
EndInFailure(r, gate, gates) ==
  \/ /\ report' = [report EXCEPT ![r] =
            [NoReport EXCEPT
               !.directory = "failure",
               !.gates = IF passedGateStates[r][Number("G")] = "PASSED"
                           THEN passedGateStates[r] ELSE FailureGateStates(gate)]]
     /\ Forget(r, "done", gates)
  \/ Forget(r, "done", 0) /\ UNCHANGED report

-----------------------------------------------------------------------------
(* The gates, stage after stage. *)

(* atVerificationStage; the last stage of a gate passes it.  A stage that  *)
(* fails ends the run, and what the cleanup then meets changes neither the *)
(* gate nor the report's gates.                                            *)
Stage(r, at, gate, to, gates) ==
  /\ pc[r] = at
  /\ \/ /\ Go(r, to)
        /\ passed' = [passed EXCEPT ![r] = gates]
        /\ UNCHANGED <<passedGateStates, report, storeVars>>
     \/ EndInFailure(r, gate, passed[r])

(* The staging directory is made and the candidate read and parsed. *)
Begin(r) == Stage(r, "idle", "A", "environment", 0)

DescribeEnvironment(r) == Stage(r, "environment", "A", "preflight", 0)

FailMaterialization(r) == pc[r] = "failing" /\ EndInFailure(r, "A", 0)

(* Mixed artifacts are what Gate A asks for and fail Gate B. *)
ValidateMaterializedCandidate(r) ==
  /\ pc[r] = "materialised"
  /\ IF build[r] \in Mixed
       THEN EndInFailure(r, "B", 1)
       ELSE /\ Go(r, "setup")
            /\ passed' = [passed EXCEPT ![r] = 2]
            /\ UNCHANGED <<passedGateStates, report, storeVars>>

CheckPackageManager(r) == Stage(r, "setup", "C", "copy", 2)
CopyChoiceMind(r) == Stage(r, "copy", "C", "install", 2)
InstallCandidate(r) == Stage(r, "install", "C", "resolution", 2)
ResolveDependencies(r) == Stage(r, "resolution", "C", "typecheck", 2)
CheckInterface(r) == Stage(r, "typecheck", "C", "contract", 3)
TestContract(r) == Stage(r, "contract", "D", "vertical", 4)
TestVertical(r) == Stage(r, "vertical", "E", "root", 5)
VerifyRoot(r) == Stage(r, "root", "F", "ports", 5)
CheckPortsReleased(r) ==
  Stage(r, "ports", "F", IF r \in ModelRuns THEN "smoke" ELSE "cleanup", 6)
SmokeLocalModel(r) == Stage(r, "smoke", "G", "cleanup", 7)

VerificationStage(r) ==
  \/ CheckPackageManager(r) \/ CopyChoiceMind(r) \/ InstallCandidate(r)
  \/ ResolveDependencies(r) \/ CheckInterface(r) \/ TestContract(r)
  \/ TestVertical(r) \/ VerifyRoot(r) \/ CheckPortsReleased(r) \/ SmokeLocalModel(r)

(* What the report of a run says whose verification came back. *)
SuccessGateStates(r) ==
  [n \in DOMAIN Gates |->
     IF Gates[n] = "G" /\ r \notin ModelRuns THEN "NOT_RUN" ELSE "PASSED"]

(* The copy and the sandbox are removed after every stage has passed; a    *)
(* failure of that is one of Gate F, whether Gate G has passed or not.     *)
CleanUp(r) ==
  /\ pc[r] = "cleanup"
  /\ \/ /\ Go(r, "report")
        /\ passedGateStates' = [passedGateStates EXCEPT ![r] = SuccessGateStates(r)]
        /\ UNCHANGED <<passed, report, storeVars>>
     \/ EndInFailure(r, "F", passed[r])

WriteReport(r) == Stage(r, "report", "F", "promotion", passed[r])

PromoteRun(r) ==
  /\ pc[r] = "promotion"
  /\ \/ /\ report' = [report EXCEPT ![r] = [directory |-> "candidate",
                                            gates |-> passedGateStates[r],
                                            artifacts |-> build[r]]]
        /\ Forget(r, "done", passed[r])
     \/ EndInFailure(r, "F", passed[r])

(* The process ends at any point; what it holds and has staged stays. *)
Crash(r) ==
  /\ Alive(r)
  /\ Forget(r, "crashed", 0)
  /\ UNCHANGED report

-----------------------------------------------------------------------------
RunStep(r) ==
  \/ (MaterializationStep(r) /\ UNCHANGED outcome)
  \/ DescribeEnvironment(r) \/ FailMaterialization(r) \/ ValidateMaterializedCandidate(r) \/ VerificationStage(r)
  \/ CleanUp(r) \/ WriteReport(r) \/ PromoteRun(r)

Disturbance(r) ==
  \/ Crash(r)
  \/ (MaterializationFails(r) \/ LockHeartbeat(r)) /\ UNCHANGED outcome

Next ==
  \/ \E r \in Runs : Begin(r) \/ RunStep(r) \/ Disturbance(r)
  \/ Time /\ UNCHANGED outcome

(* Some process that can go on goes on, and what nobody's heartbeat        *)
(* reaches goes stale.  No deadline, cancellation or failure is relied on.  *)
Abandoned(x) == ~Alive(dirs[x].by) /\ ~MakerPaused(x) /\ \A r \in Runs : ~Beats(r, x)

Progress ==
  \/ \E r \in Runs : RunStep(r)
  \/ \E x \in Locks : Abandoned(x) /\ GoStale(x) /\ UNCHANGED outcome

Fairness == WF_runVars(Progress)

Spec == CompatibilityInit /\ [][Next]_runVars /\ Fairness

-----------------------------------------------------------------------------
(* What the pointer of a candidate names is whole, whichever run has put   *)
(* it there and wherever that run or another was stopped                   *)
(* (persistMaterialization, materialization.ts:791).                       *)
PublishedIsWhole ==
  \A k \in Candidates : pointer[k] # None => store[k][pointer[k]] = "whole"

(* While no live process outlives what its lock grants it, and no waiter   *)
(* has removed another directory than the one it read, a candidate is      *)
(* built and a slot held by one run at a time, and the runs that pass with *)
(* a candidate have passed with the same artifacts (materialization.ts:515).*)
BuiltOnce ==
  pauses = 0 /\ ~raced =>
    /\ \A x \in Locks : \A r, s \in Runs : Holds(r, x) /\ Holds(s, x) => r = s
    /\ \A r, s \in Runs :
         candidate[r] = candidate[s] /\ report[r].directory = "candidate"
                                     /\ report[s].directory = "candidate"
         => report[r].artifacts = report[s].artifacts

(* A report does not call a gate passed that the run has not passed, nor   *)
(* leaves a run among the candidates with a gate that failed or whose      *)
(* packages are not of one version (cli.ts:93).                            *)
ReportIsHonest ==
  \A r \in Runs :
    /\ \A n \in DOMAIN Gates : report[r].gates[n] = "PASSED" => n <= passed[r]
    /\ report[r].directory = "candidate" =>
         /\ passed[r] = IF r \in ModelRuns THEN 7 ELSE 6
         /\ report[r].artifacts \notin Mixed

(* A run that has begun ends, whatever became of those whose locks it      *)
(* waits for (materialization.ts:335).                                     *)
EveryRunEnds == <>[](\A r \in Runs : ~Alive(r))
=============================================================================
