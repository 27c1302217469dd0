--------------------------- MODULE CoreSwitchProofs ---------------------------
(***************************************************************************)
(* CoreSwitch.tla for every set of users, tasks and revisions: whichever   *)
(* path starts an instance, it serves the users of the durable floor, and  *)
(* between operations a serving instance admits exactly those users (the   *)
(* early return of PrepareCore apart) and is of the recorded revision.     *)
(*                                                                         *)
(* The properties are about the moments between operations; Locals says    *)
(* what an operation knows at each of its steps, which is what makes them  *)
(* inductive.                                                              *)
(***************************************************************************)
EXTENDS CoreSwitch, TLAPS

InApply == {"validate", "close", "start", "commit", "rollback", "restore",
            "recommit"}

\* What the locals of the operation in progress stand for.
Locals ==
    /\ pc \in InApply => config # None /\ previous = applied
    /\ pc \in {"close", "start", "commit"} => Acceptable
    /\ pc \in {"down", "start", "restore"} => active = None
    /\ pc = "commit" => active = [rev |-> config.rev, users |-> config.users]
    /\ pc = "recommit" => previous # None /\ active = Restored
    /\ pc = "recommitStart" =>
         applied # None /\ active = [rev |-> applied.rev, users |-> auth]

\* The two promises about the time between operations, extended to the step of
\* Apply that has persisted a policy and not yet decided what to do.
Serving ==
    /\ pc \in {"idle", "validate"} /\ active # None =>
         applied # None /\ active.rev = applied.rev
    /\ pc = "idle" /\ active # None /\ ~unswitched => active.users = auth
    /\ pc = "validate" /\ active # None /\ ~unswitched =>
         active.users = auth \/ applied.policy < floor

Inv == TypeOK /\ AppliedMatchesFloor /\ Locals /\ Serving

\* None is no configuration and no instance.
LEMMA NoneIsNoValue ==
  None \notin Configs /\ None \notin Applied /\ None \notin Instances
BY CoreAssumption DEF Configs, Applied, Instances, Policies

\* A new installation satisfies the invariant.
LEMMA InitInv == ASSUME Init PROVE Inv
<1>1. TypeOK
  <2>1. floor \in 0..MaxPolicy
    BY CoreAssumption DEF Init
  <2> QED  BY <2>1 DEF Init, TypeOK, Steps
<1>2. AppliedMatchesFloor /\ Locals /\ Serving
  BY DEF Init, AppliedMatchesFloor, Locals, Serving, InApply
<1> QED  BY <1>1, <1>2 DEF Inv

\* The floor rises, or stays with its users; Apply remembers what was applied.
LEMMA ApplyPersistsInv ==
  ASSUME Inv, NEW c \in Configs, NEW r \in Policies, NEW us \in SUBSET Users,
         ApplyPersists(c, r, us)
  PROVE  Inv'
<1>1. TypeOK'
  BY DEF ApplyPersists, Inv, TypeOK, Steps, Policies
<1>2. AppliedMatchesFloor'
  BY DEF ApplyPersists, Admits, Inv, TypeOK, AppliedMatchesFloor, Policies,
     Applied
<1>3. Locals'
  BY NoneIsNoValue DEF ApplyPersists, Locals
<1>4. Serving'
  BY DEF ApplyPersists, Admits, Inv, TypeOK, AppliedMatchesFloor, Serving,
     Policies, Applied
<1> QED  BY <1>1, <1>2, <1>3, <1>4 DEF Inv

\* With an applied policy below the floor the running instance is replaced.
LEMMA RejectInv == ASSUME Inv, Reject PROVE Inv'
<1>1. TypeOK'
  BY DEF Reject, Inv, TypeOK, Steps, row
<1>2. AppliedMatchesFloor'
  BY DEF Reject, Inv, AppliedMatchesFloor, row
<1>3. Locals'
  BY DEF Reject, Inv, Locals, InApply, row
<1>4. Serving'
  BY DEF Reject, MustRollBack, Inv, Locals, Serving, InApply, row
<1> QED  BY <1>1, <1>2, <1>3, <1>4 DEF Inv

\* What runs already is of the floor.
LEMMA AlreadyAppliedInv == ASSUME Inv, AlreadyApplied PROVE Inv'
<1>1. TypeOK'
  BY DEF AlreadyApplied, Inv, TypeOK, Steps, row, Return
<1>2. AppliedMatchesFloor'
  BY DEF AlreadyApplied, Inv, AppliedMatchesFloor, row
<1>3. Locals'
  BY DEF AlreadyApplied, Locals, InApply, Return
<1>4. Serving'
  BY DEF AlreadyApplied, Acceptable, SameAsRunning, Inv, TypeOK, Locals,
     Serving, InApply, row
<1> QED  BY <1>1, <1>2, <1>3, <1>4 DEF Inv

\* Only the stage changes.
LEMMA PrepareInv == ASSUME Inv, Prepare PROVE Inv'
<1>0. config \in Configs
  BY NoneIsNoValue, CoreAssumption DEF Inv, TypeOK, Locals, InApply, Prepare
<1>1. TypeOK'
  BY <1>0, NoneIsNoValue, CoreAssumption DEF Prepare, Inv, TypeOK, Steps,
     Configs
<1>2. AppliedMatchesFloor'
  BY DEF Prepare, Inv, AppliedMatchesFloor
<1>3. Locals'
  BY DEF Prepare, Acceptable, Inv, Locals, InApply
<1>4. Serving'
  BY DEF Prepare, Serving
<1> QED  BY <1>1, <1>2, <1>3, <1>4 DEF Inv

\* The one return that leaves an instance behind the floor, recorded in unswitched.
LEMMA PrepareFailsInv == ASSUME Inv, PrepareFails PROVE Inv'
<1>1. TypeOK'
  BY DEF PrepareFails, Inv, TypeOK, Steps, row, Return
<1>2. AppliedMatchesFloor'
  BY DEF PrepareFails, Inv, AppliedMatchesFloor, row
<1>3. Locals'
  BY DEF PrepareFails, Locals, InApply, Return
<1>4. Serving'
  BY DEF PrepareFails, Inv, Serving, row
<1> QED  BY <1>1, <1>2, <1>3, <1>4 DEF Inv

\* Nothing runs.
LEMMA CloseOldInv == ASSUME Inv, CloseOld PROVE Inv'
<1>1. TypeOK'
  BY DEF CloseOld, Inv, TypeOK, Steps, row
<1>2. AppliedMatchesFloor'
  BY DEF CloseOld, Inv, AppliedMatchesFloor, row
<1>3. Locals'
  BY DEF CloseOld, Acceptable, Inv, Locals, InApply, row
<1>4. Serving'
  BY DEF CloseOld, Serving
<1> QED  BY <1>1, <1>2, <1>3, <1>4 DEF Inv

\* A configuration that passed the checks has the users of the floor.
LEMMA StartCandidateInv == ASSUME Inv, StartCandidate PROVE Inv'
<1>0. config \in Configs
  BY NoneIsNoValue, CoreAssumption DEF Inv, TypeOK, Locals, InApply,
     StartCandidate
<1>1. TypeOK'
  BY <1>0 DEF StartCandidate, Inv, TypeOK, Steps, Configs, Instances, row
<1>2. AppliedMatchesFloor'
  BY DEF StartCandidate, Inv, AppliedMatchesFloor, row
<1>3. Locals'
  BY DEF StartCandidate, Acceptable, Inv, Locals, InApply, row
<1>4. Serving'
  BY DEF StartCandidate, Serving
<1> QED  BY <1>1, <1>2, <1>3, <1>4 DEF Inv

\* Nothing runs when rollback begins.
LEMMA StartFailsInv == ASSUME Inv, StartFails PROVE Inv'
<1>1. TypeOK'
  BY DEF StartFails, Inv, TypeOK, Steps, row
<1>2. AppliedMatchesFloor'
  BY DEF StartFails, Inv, AppliedMatchesFloor, row
<1>3. Locals'
  BY NoneIsNoValue, CoreAssumption DEF StartFails, Inv, Locals, InApply, row,
     Return
<1>4. Serving'
  BY DEF StartFails, Serving
<1> QED  BY <1>1, <1>2, <1>3, <1>4 DEF Inv

\* The row names the candidate that runs.
LEMMA CommitCandidateInv == ASSUME Inv, CommitCandidate PROVE Inv'
<1>0. config \in Configs /\ Acceptable
  BY NoneIsNoValue, CoreAssumption DEF Inv, TypeOK, Locals, InApply,
     CommitCandidate
<1> DEFINE new == [rev |-> config.rev, policy |-> config.policy,
                   users |-> config.users]
<1>5. new \in Applied /\ new.rev = config.rev /\ new.users = auth /\ new # None
  BY <1>0, NoneIsNoValue, CoreAssumption DEF Configs, Applied, Acceptable
<1>6. applied' = new
  BY NoneIsNoValue, CoreAssumption DEF CommitCandidate, Commit
<1> HIDE DEF new
<1>1. TypeOK'
  BY <1>5, <1>6 DEF CommitCandidate, Commit, Inv, TypeOK, Steps, Return
<1>2. AppliedMatchesFloor'
  BY DEF CommitCandidate, Commit, Acceptable, Inv, TypeOK, AppliedMatchesFloor,
     Locals
<1>3. Locals'
  BY DEF CommitCandidate, Locals, InApply, Return
<1>4. Serving'
  <2>1. active.rev = config.rev /\ active.users = auth
    BY DEF Inv, Locals, CommitCandidate, Acceptable
  <2> QED  BY <1>5, <1>6, <2>1 DEF CommitCandidate, Serving, Return
<1> QED  BY <1>1, <1>2, <1>3, <1>4 DEF Inv

\* The candidate still runs when rollback begins, under the old row.
LEMMA CommitFailsInv == ASSUME Inv, CommitFails PROVE Inv'
<1>1. TypeOK'
  BY DEF CommitFails, Inv, TypeOK, Steps, row
<1>2. AppliedMatchesFloor'
  BY DEF CommitFails, Inv, AppliedMatchesFloor, row
<1>3. Locals'
  BY NoneIsNoValue, CoreAssumption DEF CommitFails, Inv, Locals, InApply, row,
     Return
<1>4. Serving'
  BY DEF CommitFails, Serving
<1> QED  BY <1>1, <1>2, <1>3, <1>4 DEF Inv

\* Nothing runs.
LEMMA RollbackClosesInv == ASSUME Inv, RollbackCloses PROVE Inv'
<1>1. TypeOK'
  BY DEF RollbackCloses, Inv, TypeOK, Steps, row
<1>2. AppliedMatchesFloor'
  BY DEF RollbackCloses, Inv, AppliedMatchesFloor, row
<1>3. Locals'
  BY DEF RollbackCloses, Inv, Locals, InApply, row
<1>4. Serving'
  BY DEF RollbackCloses, Serving
<1> QED  BY <1>1, <1>2, <1>3, <1>4 DEF Inv

\* Nothing runs and nothing was applied.
LEMMA RollbackToNothingInv == ASSUME Inv, RollbackToNothing PROVE Inv'
<1>1. TypeOK'
  BY DEF RollbackToNothing, Inv, TypeOK, Steps, Return
<1>2. AppliedMatchesFloor'
  BY DEF RollbackToNothing, Inv, AppliedMatchesFloor
<1>3. Locals'
  BY DEF RollbackToNothing, Locals, InApply, Return
<1>4. Serving'
  BY DEF RollbackToNothing, Inv, Locals, Serving
<1> QED  BY <1>1, <1>2, <1>3, <1>4 DEF Inv

\* The restored instance has the users of the floor.
LEMMA RollbackStartsInv == ASSUME Inv, RollbackStarts PROVE Inv'
<1>1. TypeOK'
  BY DEF RollbackStarts, Restored, Inv, TypeOK, Steps, Applied, Instances, row
<1>2. AppliedMatchesFloor'
  BY DEF RollbackStarts, Inv, AppliedMatchesFloor, row
<1>3. Locals'
  BY DEF RollbackStarts, Restored, Inv, Locals, InApply, row
<1>4. Serving'
  BY DEF RollbackStarts, Serving
<1> QED  BY <1>1, <1>2, <1>3, <1>4 DEF Inv

\* Nothing runs.
LEMMA RollbackFailsInv == ASSUME Inv, RollbackFails PROVE Inv'
<1>1. TypeOK'
  BY DEF RollbackFails, Inv, TypeOK, Steps, row, Return
<1>2. AppliedMatchesFloor'
  BY DEF RollbackFails, Inv, AppliedMatchesFloor, row
<1>3. Locals'
  BY DEF RollbackFails, Locals, InApply, Return
<1>4. Serving'
  BY DEF RollbackFails, Inv, Locals, Serving
<1> QED  BY <1>1, <1>2, <1>3, <1>4 DEF Inv

\* Committed or not, the row names the restored revision.
LEMMA RollbackCommitsInv == ASSUME Inv, RollbackCommits PROVE Inv'
<1>0. previous \in Applied /\ floor \in Policies
  <2>1. previous \in Applied /\ previous = applied /\ floor \in 0..MaxPolicy
    BY DEF Inv, TypeOK, Locals, InApply, RollbackCommits
  <2>2. previous.policy \in Policies /\ previous.policy <= floor
    BY <2>1, NoneIsNoValue, CoreAssumption DEF Inv, AppliedMatchesFloor, Applied
  <2> QED  BY <2>1, <2>2 DEF Policies
<1>1. TypeOK'
  BY <1>0, NoneIsNoValue, CoreAssumption DEF RollbackCommits, RecommitRestored,
     Commit, Inv, TypeOK, Steps, Applied,
              Return
<1>2. AppliedMatchesFloor'
  BY DEF RollbackCommits, RecommitRestored, Commit, Inv, TypeOK,
     AppliedMatchesFloor
<1>3. Locals'
  BY DEF RollbackCommits, Locals, InApply, Return
<1>4. Serving'
  BY CoreAssumption DEF RollbackCommits, RecommitRestored, Commit, Restored,
     Inv, TypeOK, AppliedMatchesFloor, Locals, Serving, InApply, Policies,
     Applied
<1> QED  BY <1>1, <1>2, <1>3, <1>4 DEF Inv

\* Nothing was applied.
LEMMA RecoverNothingInv == ASSUME Inv, RecoverNothing PROVE Inv'
<1>1. TypeOK'
  BY DEF RecoverNothing, Inv, TypeOK, Steps, Return
<1>2. AppliedMatchesFloor'
  BY DEF RecoverNothing, AppliedMatchesFloor
<1>3. Locals'
  BY DEF RecoverNothing, Locals, InApply, Return
<1>4. Serving'
  BY DEF RecoverNothing, Inv, Locals, Serving
<1> QED  BY <1>1, <1>2, <1>3, <1>4 DEF Inv

\* A clean row has the users of the floor, any other is merged.
LEMMA RecoverStartsInv == ASSUME Inv, RecoverStarts PROVE Inv'
<1>1. TypeOK'
  BY DEF RecoverStarts, Recovered, Inv, TypeOK, Steps, Applied, Instances, row
<1>2. AppliedMatchesFloor'
  BY DEF RecoverStarts, Inv, AppliedMatchesFloor, row
<1>3. Locals'
  BY DEF RecoverStarts, Recovered, Locals, InApply, row
<1>4. Serving'
  BY DEF RecoverStarts, Recovered, Clean, Inv, AppliedMatchesFloor, Serving, row
<1> QED  BY <1>1, <1>2, <1>3, <1>4 DEF Inv

\* The row names the recovered revision under the floor.
LEMMA RecoverCommitsInv == ASSUME Inv, RecoverCommits PROVE Inv'
<1>0. applied \in Applied /\ active.users = auth /\ floor \in Policies
  <2>1. applied \in Applied /\ active.users = auth /\ floor \in 0..MaxPolicy
    BY NoneIsNoValue, CoreAssumption DEF Inv, TypeOK, Locals, RecoverCommits
  <2>2. applied.policy \in Policies /\ applied.policy <= floor
    BY <2>1, NoneIsNoValue, CoreAssumption DEF Inv, AppliedMatchesFloor, Applied
  <2> QED  BY <2>1, <2>2 DEF Policies
<1>1. TypeOK'
  BY <1>0 DEF RecoverCommits, Commit, Inv, TypeOK, Steps, Applied, Return
<1>2. AppliedMatchesFloor'
  BY DEF RecoverCommits, Commit, Inv, TypeOK, AppliedMatchesFloor, Locals
<1>3. Locals'
  BY DEF RecoverCommits, Locals, InApply, Return
<1>4. Serving'
  BY CoreAssumption DEF RecoverCommits, Commit, Inv, TypeOK,
     AppliedMatchesFloor, Locals, Serving, Policies, Applied
<1> QED  BY <1>1, <1>2, <1>3, <1>4 DEF Inv

\* Nothing runs.
LEMMA StopInv == ASSUME Inv, Stop PROVE Inv'
<1>1. TypeOK'
  BY DEF Stop, Inv, TypeOK, Steps, row
<1>2. AppliedMatchesFloor'
  BY DEF Stop, Inv, AppliedMatchesFloor, row
<1>3. Locals'
  BY NoneIsNoValue, CoreAssumption DEF Stop, Inv, Locals, InApply, row, Return
<1>4. Serving'
  BY DEF Stop, Serving
<1> QED  BY <1>1, <1>2, <1>3, <1>4 DEF Inv

\* Nothing changes.
LEMMA StutterInv == ASSUME Inv, UNCHANGED vars PROVE Inv'
BY DEF vars, row, Inv, TypeOK, AppliedMatchesFloor, Locals, Serving, Acceptable,
   Restored

\* Every step keeps the invariant.
LEMMA StepInv == ASSUME Inv, [Next]_vars PROVE Inv'
<1>1. CASE Apply
  BY <1>1, ApplyPersistsInv, RejectInv, AlreadyAppliedInv, PrepareInv,
     PrepareFailsInv, CloseOldInv, StartCandidateInv, StartFailsInv,
     CommitCandidateInv, CommitFailsInv DEF Apply
<1>2. CASE Rollback
  BY <1>2, RollbackClosesInv, RollbackToNothingInv, RollbackStartsInv,
     RollbackFailsInv, RollbackCommitsInv DEF Rollback
<1>3. CASE Recover
  BY <1>3, RecoverNothingInv, RecoverStartsInv, RecoverCommitsInv DEF Recover
<1>4. CASE Stop
  BY <1>4, StopInv
<1>5. CASE UNCHANGED vars
  BY <1>5, StutterInv
<1> QED  BY <1>1, <1>2, <1>3, <1>4, <1>5 DEF Next

\* The invariant holds throughout.
LEMMA SpecInv == Spec => []Inv
BY InitInv, StepInv, PTL DEF Spec

--------------------------------------------------------------------------------
\* The row, the instance and the locals of Apply keep their types.
THEOREM TypeCorrect == Spec => []TypeOK
<1>1. Inv => TypeOK
  BY DEF Inv
<1> QED  BY <1>1, SpecInv, PTL

\* A configuration recorded under the number of the floor has its users, so
\* that Recover may start it unmerged (adapter.go Recover).
THEOREM AppliedAlwaysMatchesFloor == Spec => []AppliedMatchesFloor
<1>1. Inv => AppliedMatchesFloor
  BY DEF Inv
<1> QED  BY <1>1, SpecInv, PTL

\* Between operations Health names the revision that is serving, whatever
\* failed or crashed before (adapter.go Health, Apply, rollback).
THEOREM HealthAlwaysNamesRunning == Spec => []HealthNamesRunning
<1>1. Inv => HealthNamesRunning
  BY DEF Inv, Serving, HealthNamesRunning
<1> QED  BY <1>1, SpecInv, PTL

\* Between operations a serving instance admits the users of the floor, unless
\* the last Apply gave up in PrepareCore (adapter.go Apply, rollback).
THEOREM RevokedAlwaysCutOff == Spec => []RevokedAreCutOff
<1>1. Inv => RevokedAreCutOff
  BY DEF Inv, Serving, RevokedAreCutOff
<1> QED  BY <1>1, SpecInv, PTL

\* Every instance that starts, on every path and after every crash, serves the
\* users of the durable floor (adapter.go Apply, rollback, Recover).
THEOREM EveryStartUsesFloor == Spec => StartsWithFloor
<1> DEFINE Good == active' # active /\ active' # None => active'.users = auth'
<1>1. ASSUME Inv, [Next]_vars PROVE [Good]_vars
  <2>1. CASE StartCandidate
    BY <1>1, <2>1 DEF StartCandidate, Inv, Locals, Acceptable, row
  <2>2. CASE RollbackStarts
    BY <1>1, <2>2 DEF RollbackStarts, Restored, row
  <2>3. CASE RecoverStarts
    <3>1. applied # None /\ applied.policy = floor => applied.users = auth
      BY <1>1 DEF Inv, AppliedMatchesFloor
    <3> QED  BY <2>3, <3>1 DEF RecoverStarts, Recovered, Clean, row
  <2>4. CASE active' = active \/ active' = None
    BY <2>4
  <2> QED
    BY <1>1, <2>1, <2>2, <2>3, <2>4
       DEF Next, Apply, Rollback, Recover, Stop, ApplyPersists, Reject,
           AlreadyApplied, Prepare, PrepareFails, CloseOld, StartFails,
           CommitCandidate, CommitFails, RollbackCloses, RollbackToNothing,
           RollbackFails, RollbackCommits, RecoverNothing, RecoverCommits, vars
<1> QED  BY <1>1, SpecInv, PTL DEF Spec, StartsWithFloor
================================================================================
