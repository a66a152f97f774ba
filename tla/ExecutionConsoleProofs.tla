----------------------- MODULE ExecutionConsoleProofs -----------------------
(***************************************************************************)
(* Proofs about the execution controller and the page that drives it, for  *)
(* any planners, robots, patrols and paths: the controller stays           *)
(* consistent in every slot, the page implements VelocityOwnership, the    *)
(* runtime follows the controller, no robot moves without an owner, a      *)
(* stopped one is still, and every run is counted once.                    *)
(***************************************************************************)
EXTENDS ExecutionConsole, TLAPS

-----------------------------------------------------------------------------
(***************************************************************************)
(* Every method of the controller keeps ControllerInv, one lemma for each, *)
(* so that whoever composes the methods, in whatever order, keeps it too.  *)
(***************************************************************************)

\* A controller that was just built owns nothing.
LEMMA NewIsConsistent == ControllerInv(NewController)
  BY NoOwnerAssumption
  DEF ControllerInv, OwnershipConsistent, ErrorShownInErrorOnly, Controllers,
      NewController, States, Executing

\* load, unload: the fields are overwritten, whatever they were.
LEMMA LoadKeepsInv ==
    ASSUME NEW c, NEW planners \in Inputs
    PROVE  ControllerInv(Load(c, planners)) /\ ControllerInv(Unload(c))
  BY NoOwnerAssumption
  DEF ControllerInv, OwnershipConsistent, ErrorShownInErrorOnly, Controllers,
      Load, Unload, NewController, States, Executing

\* begin_apply, confirm_apply, fail_apply.
LEMMA ApplyKeepsInv ==
    ASSUME NEW c, ControllerInv(c)
    PROVE  /\ CanBeginApply(c) => ControllerInv(BeginApply(c))
           /\ CanSettleApply(c) => /\ ControllerInv(ConfirmApply(c))
                                   /\ ControllerInv(FailApply(c))
  BY DEF ControllerInv, OwnershipConsistent, ErrorShownInErrorOnly, Controllers,
         CanBeginApply, BeginApply, CanSettleApply, ConfirmApply, FailApply,
         Confirming, States, Executing

\* run: a planner with a path in the input becomes the owner.
LEMMA RunKeepsInv ==
    ASSUME NEW c, ControllerInv(c), NEW p \in Planners, CanRun(c, p)
    PROVE  ControllerInv(Run(c, p))
  BY NoOwnerAssumption
  DEF ControllerInv, OwnershipConsistent, ErrorShownInErrorOnly, Controllers,
      CanRun, Run, States, Executing

\* pause, continue_run, complete.
LEMMA ExecutionKeepsInv ==
    ASSUME NEW c, ControllerInv(c)
    PROVE  /\ CanPause(c) => ControllerInv(Pause(c))
           /\ CanContinueRun(c) => ControllerInv(ContinueRun(c))
           /\ CanComplete(c) => ControllerInv(Complete(c))
  BY DEF ControllerInv, OwnershipConsistent, ErrorShownInErrorOnly, Controllers,
         CanPause, Pause, CanContinueRun, ContinueRun, CanComplete, Complete,
         States, Executing

\* stop, in any state and with or without an error.
LEMMA StopKeepsInv ==
    ASSUME NEW c, ControllerInv(c), NEW error \in BOOLEAN
    PROVE  ControllerInv(Stop(c, error))
  BY DEF ControllerInv, OwnershipConsistent, ErrorShownInErrorOnly, Controllers,
         Stop, States, Executing

\* begin_reset and reset_without_apply, which release the owner.
LEMMA ResetKeepsInv ==
    ASSUME NEW c, ControllerInv(c)
    PROVE  /\ ControllerInv(BeginReset(c))
           /\ ControllerInv(ResetWithoutApply(c))
  BY NoOwnerAssumption
  DEF ControllerInv, OwnershipConsistent, ErrorShownInErrorOnly, Controllers,
      BeginReset, ResetWithoutApply, Released, States, Executing

\* Called in any order whatever, the methods keep the controller consistent:
\* the lock, the owner, the state and the error text never disagree.
THEOREM ControllerConsistent == ControllerSpec => []ControllerInv(ctl)
<1>1. ControllerInit => ControllerInv(ctl)
  BY NewIsConsistent DEF ControllerInit
<1>2. ControllerInv(ctl) /\ [ControllerNext]_ctl => ControllerInv(ctl)'
  <2> SUFFICES ASSUME ControllerInv(ctl), [ControllerNext]_ctl
               PROVE  ControllerInv(ctl')
    BY DEF ControllerInv, OwnershipConsistent, ErrorShownInErrorOnly, Controllers,
           CanRun
  <2>1. ASSUME NEW planners \in Inputs, ctl' = Load(ctl, planners)
        PROVE  ControllerInv(ctl')
    BY <2>1, LoadKeepsInv
  <2>2. ASSUME ctl' = Unload(ctl)
        PROVE  ControllerInv(ctl')
    BY <2>2, NewIsConsistent DEF Unload
  <2>3. CASE CanBeginApply(ctl) /\ ctl' = BeginApply(ctl)
    BY <2>3, ApplyKeepsInv
  <2>4. CASE CanSettleApply(ctl) /\ ctl' \in {ConfirmApply(ctl), FailApply(ctl)}
    BY <2>4, ApplyKeepsInv
  <2>5. ASSUME NEW p \in Planners, CanRun(ctl, p), ctl' = Run(ctl, p)
        PROVE  ControllerInv(ctl')
    BY <2>5, RunKeepsInv
  <2>6. CASE \/ CanPause(ctl) /\ ctl' = Pause(ctl)
             \/ CanContinueRun(ctl) /\ ctl' = ContinueRun(ctl)
             \/ CanComplete(ctl) /\ ctl' = Complete(ctl)
    BY <2>6, ExecutionKeepsInv
  <2>7. ASSUME NEW error \in BOOLEAN, ctl' = Stop(ctl, error)
        PROVE  ControllerInv(ctl')
    BY <2>7, StopKeepsInv
  <2>8. CASE \/ CanBeginReset(ctl) /\ ctl' = BeginReset(ctl)
             \/ ctl' = ResetWithoutApply(ctl)
    BY <2>8, ResetKeepsInv
  <2>9. CASE UNCHANGED ctl
    BY <2>9
  <2> QED
    BY <2>1, <2>2, <2>3, <2>4, <2>5, <2>6, <2>7, <2>8, <2>9 DEF ControllerNext
<1> QED
  BY <1>1, <1>2, PTL DEF ControllerSpec

-----------------------------------------------------------------------------
(***************************************************************************)
(* What a slot does to the controller.  Most slots leave it alone, call    *)
(* one of its methods, or end in Fail; only a reset calls two of them.     *)
(***************************************************************************)

Stopped(c) == ctl' \in {Stop(c, error) : error \in BOOLEAN}

Reapplied(c) == ctl' = BeginReset(c) \/ Stopped(BeginReset(c))

ControllerStep ==
    \/ UNCHANGED ctl
    \/ Stopped(ctl)
    \/ CanReplaceInput(ctl) /\ \E planners \in Inputs : ctl' = Load(ctl, planners)
    \/ CanReplaceInput(ctl) /\ ctl' = Unload(ctl)
    \/ CanBeginApply(ctl) /\ (ctl' = BeginApply(ctl) \/ Stopped(BeginApply(ctl)))
    \/ CanSettleApply(ctl) /\ ctl' = ConfirmApply(ctl)
    \/ \E p \in Planners : CanRun(ctl, p) /\ (ctl' = Run(ctl, p) \/ Stopped(Run(ctl, p)))
    \/ CanPause(ctl) /\ ctl' = Pause(ctl)
    \/ CanContinueRun(ctl) /\ ctl' = ContinueRun(ctl)
    \/ CanComplete(ctl) /\ (ctl' = Complete(ctl) \/ Stopped(Complete(ctl)))
    \/ \E error \in BOOLEAN : \/ Stopped(Stop(ctl, error))
                              \/ Reapplied(Stop(ctl, error))

\* A failure inside a slot stops the controller it had got to.
LEMMA FailStops ==
    ASSUME NEW c, NEW l, NEW w, Fail(c, l, w)
    PROVE  Stopped(c)
  BY DEF Fail, EmergencyStop, Stopped

LEMMA EveryStepIsAControllerStep == [Next]_vars => ControllerStep
<1> SUFFICES ASSUME [Next]_vars PROVE ControllerStep
  OBVIOUS
<1>1. CASE \/ EmergencyButton \/ VisionThreadFails \/ WatchdogTick
           \/ RunRefused \/ TickRaises
  BY <1>1, FailStops
  DEF EmergencyButton, VisionThreadFails, WatchdogTick, RunRefused, TickRaises,
      EmergencyStop, Stopped, ControllerStep
<1>2. CASE LoadScenario \/ UnloadScenario
  BY <1>2 DEF LoadScenario, UnloadScenario, ControllerStep
<1>3. CASE ApplyClicked
  BY <1>3, FailStops DEF ApplyClicked, ControllerStep
<1>4. CASE ConfirmingSnapshot
  BY <1>4, FailStops
  DEF ConfirmingSnapshot, ControllerStep, CanSettleApply
<1>5. CASE RunClicked
  BY <1>5 DEF RunClicked, ClaimOwnership, ControllerStep
<1>6. CASE RunRaises
  <2> PICK p \in Planners : CanRun(ctl, p) /\ \E l : Fail(Run(ctl, p), l, wire)
    BY <1>6 DEF RunRaises
  <2> QED
    BY FailStops DEF ControllerStep
<1>7. CASE PauseClicked
  BY <1>7, FailStops DEF PauseClicked, ControllerStep
<1>8. CASE ContinueClicked
  BY <1>8 DEF ContinueClicked, ControllerStep
<1>9. CASE StepClicked
  BY <1>9, FailStops DEF StepClicked, ControllerStep
<1>10. CASE CompletingTick
  <2>1. CanComplete(ctl)
    BY <1>10 DEF CompletingTick, TickDue, CanComplete, Executing
  <2>2. ctl' = Complete(ctl) \/ \E l, w : Fail(Complete(ctl), l, w)
    BY <1>10 DEF CompletingTick
  <2> QED
    BY <2>1, <2>2, FailStops DEF ControllerStep
<1>11. CASE ResetClicked
  <2>1. PICK error \in BOOLEAN :
            \/ \E l, w : Fail(Stop(ctl, error), l, w)
            \/ ctl' = BeginReset(Stop(ctl, error))
            \/ \E l, w : Fail(BeginReset(Stop(ctl, error)), l, w)
    BY <1>11 DEF ResetClicked
  <2> QED
    BY <2>1, FailStops DEF ControllerStep, Reapplied
<1>12. CASE Close
  BY <1>12 DEF Close, EmergencyStop, Stopped, ControllerStep
<1>13. CASE \/ PlannerTabPlan \/ VerifierExpires \/ RunningSnapshot
            \/ IdleSnapshot \/ VisionGoesStale \/ ExecutionTick \/ HeldTick
            \/ WorkerStep \/ MotionTestClicked \/ MotionTestTick \/ MotionTestEnds
  BY <1>13
  DEF PlannerTabPlan, VerifierExpires, RunningSnapshot, IdleSnapshot,
      VisionGoesStale, ExecutionTick, HeldTick, WorkerStep, WorkerCopies,
      WorkerSends, OrphanSends, OrphanWakes, CommandExpires, MotionTestClicked,
      MotionTestTick, MotionTestEnds, ControllerStep
<1>14. CASE UNCHANGED vars
  BY <1>14 DEF vars, ControllerStep
<1> QED
  BY <1>1, <1>2, <1>3, <1>4, <1>5, <1>6, <1>7, <1>8, <1>9, <1>10, <1>11, <1>12,
     <1>13, <1>14
  DEF Next, UserStep, TimerStep, VisionStep, WorkerStep

-----------------------------------------------------------------------------
LEMMA StoppedKeepsInv ==
    ASSUME NEW c, ControllerInv(c), Stopped(c)
    PROVE  ControllerInv(ctl')
  BY StopKeepsInv DEF Stopped

LEMMA ControllerStepKeepsInv ==
    ASSUME ControllerInv(ctl), ControllerStep
    PROVE  ControllerInv(ctl')
<1>1. CASE UNCHANGED ctl \/ Stopped(ctl)
  BY <1>1, StoppedKeepsInv
<1>2. CASE \/ \E planners \in Inputs : ctl' = Load(ctl, planners)
           \/ ctl' = Unload(ctl)
  BY <1>2, LoadKeepsInv, NewIsConsistent DEF Unload
<1>3. CASE CanBeginApply(ctl) /\ (ctl' = BeginApply(ctl) \/ Stopped(BeginApply(ctl)))
  BY <1>3, ApplyKeepsInv, StoppedKeepsInv
<1>4. CASE CanSettleApply(ctl) /\ ctl' = ConfirmApply(ctl)
  BY <1>4, ApplyKeepsInv
<1>5. CASE \E p \in Planners :
              CanRun(ctl, p) /\ (ctl' = Run(ctl, p) \/ Stopped(Run(ctl, p)))
  BY <1>5, RunKeepsInv, StoppedKeepsInv
<1>6. CASE \/ CanPause(ctl) /\ ctl' = Pause(ctl)
           \/ CanContinueRun(ctl) /\ ctl' = ContinueRun(ctl)
           \/ CanComplete(ctl) /\ (ctl' = Complete(ctl) \/ Stopped(Complete(ctl)))
  BY <1>6, ExecutionKeepsInv, StoppedKeepsInv
<1>7. ASSUME NEW error \in BOOLEAN,
             Stopped(Stop(ctl, error)) \/ Reapplied(Stop(ctl, error))
      PROVE  ControllerInv(ctl')
  BY <1>7, StopKeepsInv, ResetKeepsInv, StoppedKeepsInv DEF Reapplied
<1> QED
  BY <1>1, <1>2, <1>3, <1>4, <1>5, <1>6, <1>7 DEF ControllerStep

\* Exactly one planner may own velocity output, and it keeps the lock and the
\* state that go with it, through every slot and every failure inside one.
THEOREM PageKeepsOwnership == Spec => []OwnershipHeld
<1>1. Init => ControllerInv(ctl)
  BY NewIsConsistent DEF Init
<1>2. ControllerInv(ctl) /\ [Next]_vars => ControllerInv(ctl)'
  <2> SUFFICES ASSUME ControllerInv(ctl), [Next]_vars PROVE ControllerInv(ctl')
    BY DEF ControllerInv, OwnershipConsistent, ErrorShownInErrorOnly
  <2> QED
    BY EveryStepIsAControllerStep, ControllerStepKeepsInv
<1>3. ControllerInv(ctl) => OwnershipHeld
  BY DEF ControllerInv, OwnershipHeld
<1> QED
  BY <1>1, <1>2, <1>3, PTL DEF Spec

-----------------------------------------------------------------------------
(***************************************************************************)
(* The page implements VelocityOwnership.                                  *)
(***************************************************************************)

\* A stop latches, whatever else the slot had done to the controller.
LEMMA StoppedLatches ==
    ASSUME NEW c \in Controllers, Stopped(c)
    PROVE  ctl'.owner = c.owner /\ Phase(ctl'.state) = "latched"
  BY DEF Stopped, Stop, Controllers, Phase

LEMMA ControllerStepImplements ==
    ASSUME ControllerInv(ctl), ControllerStep
    PROVE  [Ownership!Next]_<<ctl.owner, Phase(ctl.state)>>
<1> DEFINE Latches == ctl'.owner = ctl.owner /\ Phase(ctl'.state) = "latched"
<1> USE DEF Ownership!Next
<1>0. ctl \in Controllers
  BY DEF ControllerInv
<1>a. Latches => Ownership!Next
  BY DEF Ownership!Latch
<1>b. ctl'.owner = NoOwner /\ Phase(ctl'.state) \in {"idle", "latched"}
        => Ownership!Next
  BY DEF Ownership!Release
<1>1. CASE UNCHANGED ctl
  BY <1>1
<1>2. CASE Stopped(ctl)
  BY <1>0, <1>2, <1>a, StoppedLatches
<1>3. CASE \/ \E planners \in Inputs : ctl' = Load(ctl, planners)
           \/ ctl' = Unload(ctl)
  <2>0. \A planners : /\ Load(ctl, planners).owner = NoOwner
                       /\ Load(ctl, planners).state = "SCENARIO_LOADED"
                       /\ Unload(ctl).owner = NoOwner
                       /\ Unload(ctl).state = "NO_SCENARIO"
    BY DEF Load, Unload, NewController
  <2>1. ctl'.owner = NoOwner /\ ctl'.state \in {"NO_SCENARIO", "SCENARIO_LOADED"}
    BY <1>3, <2>0
  <2>2. Phase(ctl'.state) = "idle"
    BY <2>1 DEF Phase
  <2> QED
    BY <2>1, <2>2, <1>b
<1>4. CASE CanBeginApply(ctl) /\ ctl' = BeginApply(ctl)
  <2>1. ctl'.owner = ctl.owner /\ Phase(ctl'.state) = Phase(ctl.state)
    BY <1>0, <1>4 DEF Controllers, CanBeginApply, BeginApply, Phase
  <2> QED
    BY <2>1
<1>5. CASE Stopped(BeginApply(ctl))
  <2>1. BeginApply(ctl) \in Controllers /\ BeginApply(ctl).owner = ctl.owner
    BY <1>0 DEF Controllers, BeginApply, States
  <2> QED
    BY <1>5, <2>1, <1>a, StoppedLatches
<1>6. CASE CanSettleApply(ctl) /\ ctl' = ConfirmApply(ctl)
  BY <1>0, <1>6
  DEF Controllers, CanSettleApply, Confirming, ConfirmApply, Phase, Ownership!Arm
<1>7. ASSUME NEW p \in Planners, CanRun(ctl, p), ctl' = Run(ctl, p)
      PROVE  Ownership!Next
  BY <1>0, <1>7 DEF Controllers, CanRun, Run, Phase, Ownership!Claim
<1>8. ASSUME NEW p \in Planners, CanRun(ctl, p), Stopped(Run(ctl, p))
      PROVE  Ownership!Next
  <2>1. Run(ctl, p) \in Controllers /\ Run(ctl, p).owner = p
    BY <1>0 DEF Controllers, Run, States
  <2>2. Phase(ctl.state) = "armed" /\ ctl.owner = NoOwner
    BY <1>8 DEF CanRun, Phase
  <2>3. ctl'.owner = p /\ Phase(ctl'.state) = "latched"
    BY <1>8, <2>1, StoppedLatches
  <2> QED
    BY <2>2, <2>3 DEF Ownership!Latch
<1>9. CASE CanPause(ctl) /\ ctl' = Pause(ctl)
  BY <1>0, <1>9 DEF Controllers, CanPause, Pause, Phase, Ownership!Hold
<1>10. CASE CanContinueRun(ctl) /\ ctl' = ContinueRun(ctl)
  BY <1>0, <1>10
  DEF Controllers, CanContinueRun, ContinueRun, Phase, Ownership!Resume
<1>11. CASE CanComplete(ctl) /\ (ctl' = Complete(ctl) \/ Stopped(Complete(ctl)))
  <2>1. /\ Complete(ctl) \in Controllers
        /\ Complete(ctl).owner = ctl.owner
        /\ Phase(Complete(ctl).state) = "latched"
    BY <1>0 DEF Controllers, Complete, States, Phase
  <2> QED
    BY <1>11, <2>1, <1>a, StoppedLatches
<1>12. ASSUME NEW error \in BOOLEAN,
              Stopped(Stop(ctl, error)) \/ Reapplied(Stop(ctl, error))
       PROVE  Ownership!Next
  <2> DEFINE c == Stop(ctl, error)
  <2>1. c \in Controllers /\ c.owner = ctl.owner
    BY <1>0 DEF Controllers, Stop, States
  <2>2. CASE Stopped(c)
    BY <2>1, <2>2, <1>a, StoppedLatches
  <2>3. BeginReset(c) \in Controllers /\ BeginReset(c).owner = NoOwner
        /\ Phase(BeginReset(c).state) = "idle"
    BY <2>1 DEF Controllers, BeginReset, Released, States, Phase
  <2>4. CASE Reapplied(c)
    BY <2>3, <2>4, <1>b, StoppedLatches DEF Reapplied
  <2> QED
    BY <1>12, <2>2, <2>4
<1> QED
  BY <1>1, <1>2, <1>3, <1>4, <1>5, <1>6, <1>7, <1>8, <1>9, <1>10, <1>11, <1>12
  DEF ControllerStep

\* Ownership is claimed from READY only and changes through a release only:
\* no slot, and no failure inside one, hands the robots from one planner to
\* another or lets anyone drive unarmed.
THEOREM PageImplementsOwnership == Spec => ImplementsOwnership
<1>1. Init => Ownership!Init
  BY DEF Init, NewController, Ownership!Init, Phase
<1>2. ControllerInv(ctl) /\ [Next]_vars
        => [Ownership!Next]_<<ctl.owner, Phase(ctl.state)>>
  BY EveryStepIsAControllerStep, ControllerStepImplements
<1>3. Init => ControllerInv(ctl)
  BY NewIsConsistent DEF Init
<1>4. ControllerInv(ctl) /\ [Next]_vars => ControllerInv(ctl)'
  <2> SUFFICES ASSUME ControllerInv(ctl), [Next]_vars PROVE ControllerInv(ctl')
    BY DEF ControllerInv, OwnershipConsistent, ErrorShownInErrorOnly
  <2> QED
    BY EveryStepIsAControllerStep, ControllerStepKeepsInv
<1> QED
  BY <1>1, <1>2, <1>3, <1>4, PTL DEF Spec, ImplementsOwnership, Ownership!Spec

-----------------------------------------------------------------------------
(***************************************************************************)
(* Types.                                                                  *)
(***************************************************************************)

\* The runtime's methods return runtimes.
LEMMA RuntimeTypes ==
    ASSUME rt \in Runtimes
    PROVE  /\ IdleRuntime \in Runtimes
           /\ PauseExecution(rt) \in Runtimes
           /\ ContinueExecution(rt) \in Runtimes
           /\ StepExecution(rt) \in Runtimes
           /\ \A lens \in PathLengths, failures \in SUBSET Robots :
                  StartExecution(lens, failures) \in Runtimes
           /\ \A rerouted \in SUBSET Robots, lens \in PathLengths :
                  Replanned(rt, rerouted, lens) \in Runtimes
           /\ \A seen : \A n \in Indices : Ticked(rt, seen, n) \in Runtimes
<1> USE PathBoundAssumption
<1>1. AtStart \in Indices /\ IdleRuntime \in Runtimes
  BY DEF AtStart, Indices, IdleRuntime, Runtimes
<1>2. /\ PauseExecution(rt) \in Runtimes
      /\ ContinueExecution(rt) \in Runtimes
      /\ StepExecution(rt) \in Runtimes
  BY <1>1 DEF Runtimes, PauseExecution, ContinueExecution, StepExecution
<1>3. ASSUME NEW lens \in PathLengths, NEW failures \in SUBSET Robots
      PROVE  StartExecution(lens, failures) \in Runtimes
  <2>1. lens \in Indices /\ [r \in Robots |-> 1] \in Indices
    BY DEF PathLengths, Indices
  <2> QED
    BY <1>1, <2>1 DEF StartExecution, Runtimes, IdleRuntime
<1>4. ASSUME NEW rerouted \in SUBSET Robots, NEW lens \in PathLengths
      PROVE  Replanned(rt, rerouted, lens) \in Runtimes
  <2>1. /\ [r \in Robots |-> IF r \in rerouted THEN lens[r] ELSE rt.len[r]] \in Indices
        /\ [r \in Robots |-> IF r \in rerouted THEN 1 ELSE rt.idx[r]] \in Indices
    BY DEF PathLengths, Indices, Runtimes
  <2> QED
    BY <2>1 DEF Replanned, Runtimes
<1>5. ASSUME NEW seen, NEW n \in Indices
      PROVE  Ticked(rt, seen, n) \in Runtimes
  BY DEF Ticked, Runtimes
<1> QED
  BY <1>1, <1>2, <1>3, <1>4, <1>5

\* So do the controller's.
LEMMA ControllerTypes ==
    ASSUME NEW c \in Controllers
    PROVE  /\ \A planners \in Inputs : Load(c, planners) \in Controllers
           /\ Unload(c) \in Controllers
           /\ BeginApply(c) \in Controllers
           /\ ConfirmApply(c) \in Controllers
           /\ \A p \in Planners : Run(c, p) \in Controllers
           /\ Pause(c) \in Controllers
           /\ ContinueRun(c) \in Controllers
           /\ Complete(c) \in Controllers
           /\ \A error \in BOOLEAN : Stop(c, error) \in Controllers
           /\ BeginReset(c) \in Controllers
<1>1. \A planners \in Inputs : Load(c, planners) \in Controllers
  BY DEF Controllers, States, Load, NewController
<1>2. Unload(c) \in Controllers
  BY DEF Controllers, States, Unload, NewController
<1>3. /\ BeginApply(c) \in Controllers
      /\ ConfirmApply(c) \in Controllers
      /\ \A p \in Planners : Run(c, p) \in Controllers
      /\ Pause(c) \in Controllers
      /\ ContinueRun(c) \in Controllers
      /\ Complete(c) \in Controllers
  BY DEF Controllers, States, BeginApply, ConfirmApply, Run, Pause, ContinueRun,
         Complete
<1>4. \A error \in BOOLEAN : Stop(c, error) \in Controllers
  BY DEF Controllers, States, Stop
<1>5. BeginReset(c) \in Controllers
  BY DEF Controllers, States, BeginReset, Released
<1> QED
  BY <1>1, <1>2, <1>3, <1>4, <1>5

\* The accounts of a run that starts or ends.
LEMMA LogTypes ==
    ASSUME NEW l \in Logs
    PROVE  /\ \A owner, writable : Finalized(l, owner, writable) \in Logs
           /\ l.started < MaxRuns =>
                \A recorded \in BOOLEAN : NewRun(l, recorded) \in Logs
<1> USE ConsoleAssumption
<1>1. l.id # 0 => WithRow(l) \in Logs /\ WithRow(l).id = l.id
  BY DEF Logs, WithRow
<1>2. ASSUME NEW owner, NEW writable, l.id # 0
      PROVE  Finalized(l, owner, writable) \in Logs
  <2> DEFINE counted == IF owner = NoOwner THEN l ELSE WithRow(l)
  <2>1. counted \in Logs /\ l.id \in Runs
    BY <1>1, <1>2 DEF Logs
  <2>2. [counted EXCEPT !.faulty = @ \cup {l.id}] \in Logs
    BY <2>1 DEF Logs
  <2>3. [counted EXCEPT !.id = 0, !.open = FALSE] \in Logs
    BY <2>1 DEF Logs
  <2> QED
    BY <1>2, <2>2, <2>3 DEF Finalized
<1>3. l.id = 0 => \A owner, writable : Finalized(l, owner, writable) \in Logs
  BY DEF Finalized
<1>4. l.started < MaxRuns =>
        \A recorded \in BOOLEAN : NewRun(l, recorded) \in Logs
  <2> SUFFICES ASSUME l.started < MaxRuns, NEW recorded \in BOOLEAN
               PROVE  NewRun(l, recorded) \in Logs
    OBVIOUS
  <2>1. l.started + 1 \in Runs
    BY DEF Logs, Runs
  <2>2. (l.open \/ recorded) \in BOOLEAN
    BY DEF Logs
  <2> QED
    BY <2>1, <2>2 DEF Logs, NewRun
<1> QED
  BY <1>2, <1>3, <1>4

LEMMA ButtonTypes ==
    ASSUME NEW c \in Controllers, NEW steps \in BOOLEAN
    PROVE  Buttons(c, steps) \in ButtonStates
  BY DEF Controllers, Buttons, ButtonStates

LEMMA ZeroedTypes ==
    ASSUME NEW w \in Wires
    PROVE  \A keys, lost : Zeroed(w, keys, lost) \in Wires
  BY DEF Wires, Zeroed

LEMMA SentTypes ==
    ASSUME held \in Caches, NEW w \in Wires, NEW sent \in SUBSET Unsent
    PROVE  Sent(w, sent) \in Wires /\ Without(held, sent) \in Caches
<1>1. \A k \in sent : held[k] \in {"zero", "move"}
  BY DEF Unsent, Caches
<1> QED
  BY <1>1 DEF Sent, Without, Caches, Wires

LEMMA NothingHeldTypes == NoCommands \in Caches /\ NoOrphan \in Orphans
  BY DEF NoCommands, NoOrphan, Caches, Orphans

\* The runtime's stop, with or without its worker joined.
LEMMA RuntimeStopTypes ==
    ASSUME TypeOK, NEW w \in Wires, NEW keys, NEW lost, StopRuntime(w, keys, lost)
    PROVE  /\ rt' \in Runtimes
           /\ dispatching' \in BOOLEAN
           /\ cache' \in Caches /\ held' \in Caches
           /\ wire' \in Wires
           /\ orphan' \in Orphans
<1>1. PICK sent \in SUBSET Unsent :
         /\ wire' = Zeroed(Sent(w, sent), keys, lost)
         /\ StopDispatcher(sent)
  BY DEF StopRuntime
<1>2. Sent(w, sent) \in Wires /\ Without(held, sent) \in Caches
  BY SentTypes DEF TypeOK
<1>3. orphan' = orphan \/ orphan' = [on |-> TRUE, held |-> Without(held, sent)]
  BY <1>1 DEF StopDispatcher
<1>4. orphan' \in Orphans
  <2>1. [on |-> TRUE, held |-> Without(held, sent)] \in Orphans
    BY <1>2 DEF Orphans
  <2> QED
    BY <1>3, <2>1 DEF TypeOK
<1> QED
  BY <1>1, <1>2, <1>4, ZeroedTypes, NothingHeldTypes, RuntimeTypes
  DEF StopRuntime, StopDispatcher, TypeOK

\* What a stop leaves typed, and what it leaves to the slot that called it.
StopTyped ==
    /\ ctl' \in Controllers
    /\ rt' \in Runtimes
    /\ dispatching' \in BOOLEAN
    /\ cache' \in Caches
    /\ wire' \in Wires
    /\ held' \in Caches
    /\ orphan' \in Orphans
    /\ ticking' \in BOOLEAN
    /\ shown' \in ButtonStates
    /\ log' \in Logs

LEMMA StopTypes ==
    ASSUME TypeOK, NEW c \in Controllers, NEW l \in Logs, NEW w \in Wires,
           NEW error \in BOOLEAN, NEW lost, NEW writable,
           EmergencyStop(c, l, w, error, lost, writable)
    PROVE  StopTyped
<1>1. ctl' \in Controllers
  BY ControllerTypes DEF EmergencyStop
<1>2. log' \in Logs
  BY LogTypes DEF EmergencyStop
<1>3. /\ rt' \in Runtimes /\ dispatching' \in BOOLEAN
      /\ cache' \in Caches /\ held' \in Caches
      /\ wire' \in Wires /\ orphan' \in Orphans
  BY RuntimeStopTypes DEF EmergencyStop
<1>4. shown' \in ButtonStates
  BY <1>1, ButtonTypes DEF EmergencyStop, TypeOK
<1> QED
  BY <1>1, <1>2, <1>3, <1>4 DEF EmergencyStop, StopTyped

LEMMA FailTypes ==
    ASSUME TypeOK, NEW c \in Controllers, NEW l \in Logs, NEW w \in Wires,
           Fail(c, l, w)
    PROVE  StopTyped
  BY StopTypes DEF Fail

\* The rest of the page's state, for a slot that ends in a stop.
PageTyped ==
    /\ installed' \in Planners \cup {NoOwner}
    /\ verifier' \in Verifiers
    /\ stepping' \in BOOLEAN
    /\ testing' \in BOOLEAN
    /\ fresh' \in BOOLEAN
    /\ closed' \in BOOLEAN

LEMMA TypedTogether == StopTyped /\ PageTyped => TypeOK'
  BY DEF StopTyped, PageTyped, TypeOK

LEMMA TickTypes ==
    ASSUME TypeOK
    PROVE  \A driven, patrolling :
               /\ TickCommands(wire, driven, patrolling) \in Wires
               /\ TickCommands(cache, driven, patrolling) \in Caches
  BY DEF TypeOK, TickCommands, Wires, Caches

LEMMA SnapshotsKeepTypes ==
    ASSUME TypeOK, ConfirmingSnapshot \/ RunningSnapshot \/ IdleSnapshot \/ VisionGoesStale
           \/ VerifierExpires
    PROVE  TypeOK'
<1> USE ConsoleAssumption DEF TypeOK, workers
<1>1. CASE ConfirmingSnapshot
  <2> PICK match \in BOOLEAN :
        LET v == Observed(verifier, match) IN
        \/ /\ ctl' = ConfirmApply(ctl)
           /\ verifier' = NoVerifier
           /\ shown' = Buttons(ctl', stepping)
           /\ UNCHANGED <<rt, dispatching, cache, wire, workers, ticking, log>>
        \/ /\ verifier' = v
           /\ UNCHANGED <<ctl, rt, dispatching, cache, wire, workers, ticking, shown, log>>
        \/ /\ verifier' = v
           /\ Fail(ctl, log, wire)
    BY <1>1 DEF ConfirmingSnapshot
  <2>1. Observed(verifier, match) \in Verifiers /\ NoVerifier \in Verifiers
    BY DEF Observed, Verifiers, NoVerifier
  <2>2. PageTyped
    BY <1>1, <2>1 DEF ConfirmingSnapshot, PageTyped
  <2>3. StopTyped
    BY <1>1, FailTypes, ControllerTypes, ButtonTypes DEF ConfirmingSnapshot, StopTyped
  <2> QED
    BY <2>2, <2>3, TypedTogether
<1>2. CASE RunningSnapshot
  <2>1. PICK rerouted \in SUBSET Robots, lens \in [Robots -> 2..MaxPoints] :
           rt' = Replanned(rt, rerouted, lens)
    BY <1>2 DEF RunningSnapshot
  <2>2. lens \in PathLengths
    BY PathBoundAssumption DEF PathLengths
  <2>3. rt' \in Runtimes
    BY <2>1, <2>2, RuntimeTypes
  <2> QED
    BY <1>2, <2>3 DEF RunningSnapshot
<1>3. CASE IdleSnapshot \/ VisionGoesStale
  BY <1>3 DEF IdleSnapshot, VisionGoesStale, runtimeVars
<1>4. CASE VerifierExpires
  BY <1>4 DEF VerifierExpires, runtimeVars, Verifiers
<1> QED
  BY <1>1, <1>2, <1>3, <1>4

LEMMA LoadingKeepsTypes ==
    ASSUME TypeOK, LoadScenario \/ UnloadScenario \/ PlannerTabPlan \/ ApplyClicked
    PROVE  TypeOK'
<1> USE ConsoleAssumption DEF TypeOK, workers
<1>1. CASE LoadScenario
  BY <1>1, ControllerTypes, ButtonTypes DEF LoadScenario
<1>2. CASE UnloadScenario
  <2>1. NoVerifier \in Verifiers
    BY DEF NoVerifier, Verifiers
  <2> QED
    BY <1>2, <2>1, ControllerTypes, ButtonTypes DEF UnloadScenario, runtimeVars
<1>3. CASE PlannerTabPlan
  BY <1>3 DEF PlannerTabPlan, pageVars
<1>4. CASE ApplyClicked
  <2>1. NewVerifier \in Verifiers
    BY DEF NewVerifier, Verifiers
  <2>2. PageTyped
    BY <1>4, <2>1 DEF ApplyClicked, PageTyped
  <2>3. StopTyped
    BY <1>4, FailTypes, ControllerTypes, ButtonTypes DEF ApplyClicked, StopTyped
  <2> QED
    BY <2>2, <2>3, TypedTogether
<1> QED
  BY <1>1, <1>2, <1>3, <1>4

LEMMA RunningKeepsTypes ==
    ASSUME TypeOK, RunClicked \/ RunRaises \/ PauseClicked \/ ContinueClicked \/ StepClicked
    PROVE  TypeOK'
<1> USE ConsoleAssumption DEF TypeOK, workers
<1>1. CASE RunClicked
  <2>1. PICK p \in Planners : ctl' = Run(ctl, p) /\ installed' = p
    BY <1>1 DEF RunClicked, ClaimOwnership
  <2>2. rt' \in Runtimes
    BY <1>1, RuntimeTypes DEF RunClicked
  <2>3. log' \in Logs
    BY <1>1, LogTypes DEF RunClicked
  <2> QED
    BY <1>1, <2>1, <2>2, <2>3, ControllerTypes, ButtonTypes DEF RunClicked
<1>2. CASE RunRaises
  <2>1. PICK p \in Planners :
           \/ /\ installed' \in {installed, p}
              /\ Fail(Run(ctl, p), log, wire)
           \/ /\ installed' = p
              /\ \E recorded \in BOOLEAN : Fail(Run(ctl, p), NewRun(log, recorded), wire)
    BY <1>2 DEF RunRaises
  <2>2. PageTyped
    BY <1>2, <2>1 DEF RunRaises, PageTyped
  <2>3. StopTyped
    BY <1>2, <2>1, FailTypes, ControllerTypes, LogTypes DEF RunRaises
  <2> QED
    BY <2>2, <2>3, TypedTogether
<1>3. CASE PauseClicked
  <2>1. PageTyped
    BY <1>3 DEF PauseClicked, PageTyped
  <2>2. [k \in Keys |-> IF k \in Robots THEN "zero" ELSE cache[k]] \in Caches
    BY DEF Caches
  <2>3. StopTyped
    BY <1>3, <2>2, FailTypes, ControllerTypes, ButtonTypes, RuntimeTypes, ZeroedTypes
    DEF PauseClicked, StopTyped
  <2> QED
    BY <2>1, <2>3, TypedTogether
<1>4. CASE ContinueClicked
  BY <1>4, ControllerTypes, ButtonTypes, RuntimeTypes DEF ContinueClicked
<1>5. CASE StepClicked
  <2>1. PageTyped
    BY <1>5 DEF StepClicked, PageTyped
  <2>2. StopTyped
    BY <1>5, FailTypes, ButtonTypes, RuntimeTypes DEF StepClicked, StopTyped
  <2> QED
    BY <2>1, <2>2, TypedTogether
<1> QED
  BY <1>1, <1>2, <1>3, <1>4, <1>5

LEMMA TicksKeepTypes ==
    ASSUME TypeOK, ExecutionTick \/ CompletingTick \/ TickRaises \/ HeldTick
    PROVE  TypeOK'
<1> USE ConsoleAssumption DEF TypeOK, workers
<1>1. CASE ExecutionTick
  <2>1. PICK seen, patrolling, n :
           /\ n \in TickIndices(rt, seen)
           /\ rt' = Ticked(rt, seen, n)
           /\ cache' = TickCommands(cache, Driven(rt, seen, n), patrolling)
           /\ wire' = TickCommands(wire, Driven(rt, seen, n), patrolling)
    BY <1>1 DEF ExecutionTick
  <2>2. n \in Indices
    BY <2>1 DEF TickIndices
  <2>3. rt' \in Runtimes
    BY <2>1, <2>2, RuntimeTypes
  <2>4. rt'.done \in BOOLEAN
    BY <2>3 DEF Runtimes
  <2>5. stepping' \in BOOLEAN
    BY <1>1, <2>4 DEF ExecutionTick
  <2>6. shown' \in ButtonStates
    BY <1>1, <2>5, ButtonTypes DEF ExecutionTick
  <2> QED
    BY <1>1, <2>1, <2>3, <2>5, <2>6, TickTypes DEF ExecutionTick
<1>2. CASE CompletingTick
  <2>1. PICK seen, patrolling, writable, n :
          /\ n \in TickIndices(rt, seen)
          /\ stepping' = (stepping /\ ~Ticked(rt, seen, n).done)
          /\ LET w == TickCommands(wire, {}, patrolling)
                 counted == Finalized(log, ctl.owner, writable)
             IN \/ /\ ctl' = Complete(ctl)
                   /\ \E lost : StopRuntime(w, Robots, lost)
                   /\ ticking' = FALSE
                   /\ log' = counted
                   /\ shown' = Buttons(ctl', stepping')
                \/ Fail(Complete(ctl), counted, w)
    BY <1>2 DEF CompletingTick
  <2>2. n \in Indices
    BY <2>1 DEF TickIndices
  <2>3. Ticked(rt, seen, n).done \in BOOLEAN
    BY <2>2, RuntimeTypes DEF Runtimes
  <2>4. stepping' \in BOOLEAN
    BY <2>1, <2>3
  <2>5. PageTyped
    BY <1>2, <2>4 DEF CompletingTick, PageTyped
  <2>6. /\ TickCommands(wire, {}, patrolling) \in Wires
        /\ Finalized(log, ctl.owner, writable) \in Logs
        /\ Complete(ctl) \in Controllers
        /\ Buttons(Complete(ctl), stepping') \in ButtonStates
    BY <2>4, ControllerTypes, ButtonTypes, LogTypes, TickTypes
  <2>7. StopTyped
    BY <2>1, <2>6, FailTypes, RuntimeStopTypes DEF StopTyped
  <2> QED
    BY <2>5, <2>7, TypedTogether
<1>3. CASE TickRaises
  <2>1. PICK moved \in SUBSET (Robots \cup Patrols) :
           Fail(ctl, log, [k \in Keys |-> IF k \in moved THEN "move" ELSE wire[k]])
    BY <1>3 DEF TickRaises
  <2>2. [k \in Keys |-> IF k \in moved THEN "move" ELSE wire[k]] \in Wires
    BY DEF Wires
  <2>3. StopTyped
    BY <2>1, <2>2, FailTypes
  <2> QED
    BY <1>3, <2>3, TypedTogether DEF TickRaises, PageTyped
<1>4. CASE HeldTick
  <2>1. rt.done \in BOOLEAN
    BY DEF Runtimes
  <2>2. stepping' \in BOOLEAN
    BY <1>4, <2>1 DEF HeldTick
  <2>3. shown' \in ButtonStates
    BY <1>4, <2>2, ButtonTypes DEF HeldTick
  <2> QED
    BY <1>4, <2>2, <2>3 DEF HeldTick, runtimeVars
<1> QED
  BY <1>1, <1>2, <1>3, <1>4

LEMMA StoppingKeepsTypes ==
    ASSUME TypeOK,
           \/ EmergencyButton \/ VisionThreadFails \/ WatchdogTick \/ RunRefused
           \/ ResetClicked \/ Close
    PROVE  TypeOK'
<1> USE DEF TypeOK, workers
<1>1. CASE EmergencyButton \/ VisionThreadFails \/ WatchdogTick \/ RunRefused
  <2>1. StopTyped
    BY <1>1, FailTypes, StopTypes
    DEF EmergencyButton, VisionThreadFails, WatchdogTick, RunRefused
  <2> QED
    BY <1>1, <2>1, TypedTogether
    DEF EmergencyButton, VisionThreadFails, WatchdogTick, RunRefused, PageTyped
<1>2. CASE ResetClicked
  <2>1. NewVerifier \in Verifiers
    BY ConsoleAssumption DEF NewVerifier, Verifiers
  <2>2. PageTyped
    BY <1>2, <2>1 DEF ResetClicked, PageTyped
  <2>3. PICK error \in BOOLEAN, lost \in SUBSET Robots, writable \in Writability(log) :
          LET stopped == Stop(ctl, error)
              counted == Finalized(log, ctl.owner, writable)
              w == Zeroed(wire, Robots, lost)
          IN \/ Fail(stopped, counted, w)
             \/ /\ ctl' = BeginReset(stopped)
                /\ StopRuntime(wire, Robots, lost)
                /\ ticking' = FALSE
                /\ log' = counted
                /\ shown' = Buttons(ctl', stepping)
             \/ Fail(BeginReset(stopped), counted, w)
    BY <1>2 DEF ResetClicked
  <2>4. Stop(ctl, error) \in Controllers /\ BeginReset(Stop(ctl, error)) \in Controllers
    BY ControllerTypes
  <2>5. StopTyped
    BY <2>3, <2>4, FailTypes, ButtonTypes, RuntimeStopTypes, LogTypes, ZeroedTypes
    DEF StopTyped
  <2> QED
    BY <2>2, <2>5, TypedTogether
<1>3. CASE Close
  <2>1. PICK w \in Wires :
           \/ \E lost, writable : EmergencyStop(ctl, log, w, TRUE, lost, writable)
           \/ wire' = w /\ UNCHANGED <<ctl, rt, dispatching, cache, workers, ticking, log, shown>>
    BY <1>3, ZeroedTypes DEF Close
  <2>2. StopTyped
    BY <2>1, StopTypes DEF StopTyped
  <2> QED
    BY <1>3, <2>2, TypedTogether DEF Close, PageTyped
<1> QED
  BY <1>1, <1>2, <1>3

LEMMA StreamsKeepTypes ==
    ASSUME TypeOK,
           WorkerStep \/ MotionTestClicked \/ MotionTestTick \/ MotionTestEnds
    PROVE  TypeOK'
<1> USE DEF TypeOK, workers
<1>1. CASE WorkerCopies \/ WorkerSends
  <2>1. wire' \in Wires /\ held' \in Caches
    BY <1>1 DEF WorkerCopies, WorkerSends, Unsent, Wires, Caches
  <2> QED
    BY <1>1, <2>1 DEF WorkerCopies, WorkerSends, pageVars
<1>2. CASE CommandExpires
  <2>1. cache' \in Caches
    BY <1>2 DEF CommandExpires, Caches
  <2> QED
    BY <1>2, <2>1 DEF CommandExpires, pageVars
<1>4. CASE OrphanSends
  <2>1. PICK k \in Keys : orphan' = [orphan EXCEPT !.held[k] = "none"]
    BY <1>4 DEF OrphanSends
  <2>2. wire' \in Wires
    BY <1>4 DEF OrphanSends, Wires
  <2>3. orphan' \in Orphans
    BY <2>1 DEF Orphans, Caches
  <2> QED
    BY <1>4, <2>2, <2>3 DEF OrphanSends, pageVars
<1>5. CASE OrphanWakes
  <2>1. orphan' \in Orphans
    BY <1>5, NothingHeldTypes DEF OrphanWakes, Orphans
  <2> QED
    BY <1>5, <2>1 DEF OrphanWakes, pageVars
<1>3. CASE MotionTestClicked \/ MotionTestTick \/ MotionTestEnds
  <2>1. \A sent : StopTestRobot(sent) => cache' \in Caches /\ wire' \in Wires
    BY ZeroedTypes DEF StopTestRobot, Caches
  <2>2. SendTestCommand => cache' \in Caches /\ wire' \in Wires /\ testing' \in BOOLEAN
    BY <2>1 DEF SendTestCommand, Wires
  <2> QED
    BY <1>3, <2>1, <2>2 DEF MotionTestClicked, MotionTestTick, MotionTestEnds
<1> QED
  BY <1>1, <1>2, <1>3, <1>4, <1>5 DEF WorkerStep

\* Every variable keeps its type, whichever slot or failure comes next.
THEOREM TypeCorrect == Spec => []TypeOK
<1>1. Init => TypeOK
  <2> SUFFICES ASSUME Init PROVE TypeOK
    OBVIOUS
  <2>1. ctl \in Controllers
    BY NewIsConsistent DEF Init, ControllerInv
  <2>2. AtStart \in Indices /\ rt \in Runtimes
    BY PathBoundAssumption
    DEF Init, AtStart, Indices, Runtimes, IdleRuntime
  <2>3. cache \in Caches /\ held \in Caches /\ orphan \in Orphans /\ wire \in Wires
    BY NothingHeldTypes DEF Init, Wires
  <2>4. verifier \in Verifiers /\ shown \in ButtonStates /\ log \in Logs
    BY ConsoleAssumption
    DEF Init, NoVerifier, Verifiers, ButtonStates, States, Logs, Runs
  <2> QED
    BY <2>1, <2>2, <2>3, <2>4 DEF Init, TypeOK
<1>2. TypeOK /\ [Next]_vars => TypeOK'
  <2> SUFFICES ASSUME TypeOK, [Next]_vars PROVE TypeOK'
    OBVIOUS
  <2>1. CASE UNCHANGED vars
    BY <2>1 DEF vars, runtimeVars, pageVars, workers, TypeOK
  <2> QED
    BY <2>1, SnapshotsKeepTypes, LoadingKeepsTypes, RunningKeepsTypes,
       TicksKeepTypes, StoppingKeepsTypes, StreamsKeepTypes
    DEF Next, UserStep, TimerStep, VisionStep
<1> QED
  BY <1>1, <1>2, PTL DEF Spec

-----------------------------------------------------------------------------
(***************************************************************************)
(* The runtime follows the controller.                                     *)
(***************************************************************************)

\* The runtime's stop leaves it without paths, worker and commands.
LEMMA RuntimeStopIdles ==
    ASSUME NEW w, NEW keys, NEW lost, StopRuntime(w, keys, lost)
    PROVE  /\ rt' = IdleRuntime
           /\ ~dispatching'
           /\ cache' = NoCommands /\ held' = NoCommands
  BY DEF StopRuntime, StopDispatcher

\* A slot that ends in a stop leaves no run behind, whatever it failed in.
LEMMA StopFollows ==
    ASSUME NEW c \in Controllers, NEW l, NEW w, NEW error \in BOOLEAN,
           NEW lost, NEW writable,
           EmergencyStop(c, l, w, error, lost, writable)
    PROVE  RuntimeFollowsController'
<1>1. ctl'.state \notin Executing
  BY DEF EmergencyStop, Stop, Controllers, Executing
<1>2. ~rt'.active /\ ~dispatching' /\ ~ticking' /\ cache' = NoCommands /\ held' = NoCommands
  BY RuntimeStopIdles DEF EmergencyStop, IdleRuntime
<1> QED
  BY <1>1, <1>2 DEF RuntimeFollowsController, Executing

LEMMA FailFollows ==
    ASSUME NEW c \in Controllers, NEW l, NEW w, Fail(c, l, w)
    PROVE  RuntimeFollowsController'
  BY StopFollows DEF Fail

\* A slot that leaves the runtime alone, and moves the controller between
\* states in which there is no run.
LEMMA IdleFollows ==
    ASSUME TypeOK, RuntimeFollowsController,
           UNCHANGED <<rt, dispatching, cache, workers, ticking, stepping>>,
           \/ UNCHANGED ctl
           \/ ctl.state \notin Executing /\ ctl'.state \notin Executing
    PROVE  RuntimeFollowsController'
  BY DEF RuntimeFollowsController, Executing, TypeOK, workers

LEMMA StoppingFollows ==
    ASSUME TypeOK, RuntimeFollowsController,
           \/ EmergencyButton \/ VisionThreadFails \/ WatchdogTick \/ RunRefused
           \/ TickRaises \/ RunRaises \/ ResetClicked \/ Close
    PROVE  RuntimeFollowsController'
<1>0. ctl \in Controllers
  BY DEF TypeOK
<1>1. CASE \/ EmergencyButton \/ VisionThreadFails \/ WatchdogTick \/ RunRefused
           \/ TickRaises
  BY <1>0, <1>1, StopFollows, FailFollows
  DEF EmergencyButton, VisionThreadFails, WatchdogTick, RunRefused, TickRaises
<1>2. CASE RunRaises
  <2> PICK p \in Planners : \E l : Fail(Run(ctl, p), l, wire)
    BY <1>2 DEF RunRaises
  <2> QED
    BY <1>0, ControllerTypes, FailFollows
<1>3. CASE ResetClicked
  <2>1. PICK error \in BOOLEAN :
           \/ \E l, w : Fail(Stop(ctl, error), l, w)
           \/ \E l, w : Fail(BeginReset(Stop(ctl, error)), l, w)
           \/ /\ ctl' = BeginReset(Stop(ctl, error))
              /\ \E lost : StopRuntime(wire, Robots, lost)
              /\ ticking' = FALSE
    BY <1>3 DEF ResetClicked
  <2>2. Stop(ctl, error) \in Controllers /\ BeginReset(Stop(ctl, error)) \in Controllers
    BY <1>0, ControllerTypes
  <2>3. BeginReset(Stop(ctl, error)).state = "RESETTING"
    BY <2>2 DEF BeginReset, Released, Controllers
  <2>4. ~IdleRuntime.active
    BY DEF IdleRuntime
  <2> QED
    BY <2>1, <2>2, <2>3, <2>4, FailFollows, RuntimeStopIdles
    DEF RuntimeFollowsController, Executing
<1>4. CASE Close
  <2>1. PICK w :
           \/ \E lost, writable : EmergencyStop(ctl, log, w, TRUE, lost, writable)
           \/ UNCHANGED <<ctl, rt, dispatching, cache, workers, ticking>>
    BY <1>4 DEF Close
  <2>2. UNCHANGED stepping
    BY <1>4 DEF Close
  <2> QED
    BY <1>0, <2>1, <2>2, StopFollows, IdleFollows
<1> QED
  BY <1>1, <1>2, <1>3, <1>4

LEMMA PreparingFollows ==
    ASSUME TypeOK, RuntimeFollowsController,
           \/ LoadScenario \/ UnloadScenario \/ PlannerTabPlan \/ ApplyClicked
           \/ ConfirmingSnapshot \/ IdleSnapshot \/ VisionGoesStale
           \/ VerifierExpires
    PROVE  RuntimeFollowsController'
<1>0. ctl \in Controllers
  BY DEF TypeOK
<1>1. CASE LoadScenario
  <2>1. \A planners : Load(ctl, planners).state = "SCENARIO_LOADED"
    BY DEF Load, NewController
  <2> QED
    BY <1>1, <2>1, IdleFollows DEF LoadScenario, CanReplaceInput, Busy, Executing
<1>2. CASE UnloadScenario
  <2>1. Unload(ctl).state = "NO_SCENARIO"
    BY DEF Unload, NewController
  <2> QED
    BY <1>2, <2>1, IdleFollows
    DEF UnloadScenario, runtimeVars, CanReplaceInput, Busy, Executing
<1>3. CASE ApplyClicked
  <2>1. BeginApply(ctl) \in Controllers /\ BeginApply(ctl).state = "APPLYING"
    BY <1>0, ControllerTypes DEF BeginApply, Controllers
  <2>2. CASE /\ CanBeginApply(ctl)
             /\ ctl' = BeginApply(ctl)
             /\ UNCHANGED <<rt, dispatching, cache, workers, ticking, stepping>>
    BY <2>1, <2>2, IdleFollows DEF CanBeginApply, Executing
  <2> QED
    BY <1>0, <1>3, <2>1, <2>2, FailFollows DEF ApplyClicked
<1>4. CASE ConfirmingSnapshot
  <2>1. ConfirmApply(ctl).state = "READY"
    BY <1>0 DEF ConfirmApply, Controllers
  <2>2. PICK v :
           \/ /\ ctl' = ConfirmApply(ctl)
              /\ UNCHANGED <<rt, dispatching, cache, workers, ticking, stepping>>
           \/ UNCHANGED <<ctl, rt, dispatching, cache, workers, ticking, stepping>>
           \/ Fail(ctl, log, wire)
    BY <1>4 DEF ConfirmingSnapshot
  <2> QED
    BY <1>0, <1>4, <2>1, <2>2, FailFollows, IdleFollows
    DEF ConfirmingSnapshot, Confirming, Executing
<1>5. CASE PlannerTabPlan \/ IdleSnapshot \/ VisionGoesStale \/ VerifierExpires
  BY <1>5, IdleFollows
  DEF PlannerTabPlan, IdleSnapshot, VisionGoesStale, VerifierExpires, pageVars,
      runtimeVars
<1> QED
  BY <1>1, <1>2, <1>3, <1>4, <1>5

LEMMA RunningFollows ==
    ASSUME TypeOK, RuntimeFollowsController,
           \/ RunClicked \/ PauseClicked \/ ContinueClicked \/ StepClicked
           \/ RunningSnapshot
    PROVE  RuntimeFollowsController'
<1>0. ctl \in Controllers /\ rt \in Runtimes
  BY DEF TypeOK
<1>1. CASE RunClicked
  <2>1. ctl.state = "READY" /\ ctl'.state = "RUNNING"
    BY <1>0, <1>1 DEF RunClicked, ClaimOwnership, CanRun, Run, Controllers
  <2>2. rt'.active /\ ~rt'.paused /\ ~rt'.step
    BY <1>1 DEF RunClicked, StartExecution, IdleRuntime
  <2> QED
    BY <1>1, <2>1, <2>2 DEF RunClicked, RuntimeFollowsController, Executing
<1>2. CASE PauseClicked
  <2>1. CASE Fail(ctl, log, wire)
    BY <1>0, <2>1, FailFollows
  <2>2. CASE /\ rt.active /\ CanPause(ctl)
             /\ rt' = PauseExecution(rt)
             /\ ctl' = Pause(ctl)
             /\ UNCHANGED dispatching
    <3>1. ctl.state = "RUNNING" /\ ctl'.state = "PAUSED"
      BY <1>0, <2>2 DEF CanPause, Pause, Controllers
    <3>2. rt'.active /\ rt'.paused /\ ~rt'.step
      BY <1>0, <2>2 DEF PauseExecution, Runtimes
    <3> QED
      BY <2>2, <3>1, <3>2 DEF RuntimeFollowsController, Executing
  <2> QED
    BY <1>2, <2>1, <2>2 DEF PauseClicked
<1>3. CASE ContinueClicked
  <2>1. ctl.state = "PAUSED" /\ ctl'.state = "RUNNING"
    BY <1>0, <1>3 DEF ContinueClicked, CanContinueRun, ContinueRun, Controllers
  <2>2. rt'.active /\ ~rt'.paused /\ ~rt'.step
    BY <1>0, <1>3 DEF ContinueClicked, ContinueExecution, Runtimes
  <2> QED
    BY <1>3, <2>1, <2>2 DEF ContinueClicked, RuntimeFollowsController, Executing
<1>4. CASE StepClicked
  <2>1. CASE Fail(ctl, log, wire)
    BY <1>0, <2>1, FailFollows
  <2>2. CASE /\ CanStepExecution(rt)
             /\ rt' = StepExecution(rt)
             /\ stepping' = TRUE
             /\ ticking' = TRUE
             /\ UNCHANGED <<ctl, dispatching, cache>>
    <3>1. ctl.state = "PAUSED"
      BY <2>2 DEF CanStepExecution, RuntimeFollowsController, Executing
    <3>2. rt'.active /\ ~rt'.paused /\ rt'.step /\ ~rt'.done
      BY <1>0, <2>2 DEF CanStepExecution, StepExecution, Runtimes
    <3> QED
      BY <2>2, <3>1, <3>2 DEF RuntimeFollowsController, Executing
  <2> QED
    BY <1>4, <2>1, <2>2 DEF StepClicked
<1>5. CASE RunningSnapshot
  <2>1. /\ rt'.active = rt.active
        /\ rt'.paused = rt.paused
        /\ rt'.step = rt.step
        /\ rt'.done = rt.done
    BY <1>0, <1>5 DEF RunningSnapshot, Replanned, Runtimes
  <2> QED
    BY <1>5, <2>1 DEF RunningSnapshot, RuntimeFollowsController, Executing
<1> QED
  BY <1>1, <1>2, <1>3, <1>4, <1>5

LEMMA TicksFollow ==
    ASSUME TypeOK, RuntimeFollowsController,
           ExecutionTick \/ CompletingTick \/ HeldTick
    PROVE  RuntimeFollowsController'
<1>0. ctl \in Controllers /\ rt \in Runtimes
  BY DEF TypeOK
<1>1. CASE ExecutionTick
  <2>1. PICK seen, n : rt' = Ticked(rt, seen, n)
    BY <1>1 DEF ExecutionTick
  <2>2. /\ rt.active /\ dispatching /\ ticking
        /\ ctl.state \in {"RUNNING", "PAUSED"}
        /\ ctl.state = "RUNNING" => ~rt.step /\ ~rt.paused
        /\ ctl.state = "PAUSED" => rt.step /\ ~rt.done /\ stepping
    BY <1>1 DEF ExecutionTick, TickDue, RuntimeFollowsController
  <2>3. CASE StepFinished(rt, seen, n)
    <3>1. rt'.active /\ rt'.paused /\ ~rt'.step
      BY <1>0, <2>1, <2>2, <2>3 DEF Ticked, Runtimes
    <3>2. ctl.state = "PAUSED"
      BY <2>2, <2>3 DEF StepFinished
    <3> QED
      BY <1>1, <2>2, <3>1, <3>2 DEF ExecutionTick, RuntimeFollowsController, Executing
  <2>4. CASE ~StepFinished(rt, seen, n)
    <3>1. /\ rt'.active = rt.active
          /\ rt'.paused = rt.paused
          /\ rt'.step = rt.step
          /\ rt'.done = rt.done
      BY <1>0, <2>1, <2>4 DEF Ticked, Runtimes
    <3>2. ctl.state = "PAUSED" => stepping'
      BY <1>1, <2>2, <3>1 DEF ExecutionTick
    <3> QED
      BY <1>1, <2>2, <3>1, <3>2 DEF ExecutionTick, RuntimeFollowsController, Executing
  <2> QED
    BY <2>3, <2>4
<1>2. CASE CompletingTick
  <2>1. Complete(ctl) \in Controllers /\ Complete(ctl).state = "COMPLETED"
    BY <1>0, ControllerTypes DEF Complete, Controllers
  <2>2. \/ \E l, w : Fail(Complete(ctl), l, w)
        \/ /\ ctl' = Complete(ctl)
           /\ \E w, lost : StopRuntime(w, Robots, lost)
           /\ ticking' = FALSE
    BY <1>2 DEF CompletingTick
  <2>3. ~IdleRuntime.active
    BY DEF IdleRuntime
  <2> QED
    BY <2>1, <2>2, <2>3, FailFollows, RuntimeStopIdles DEF RuntimeFollowsController, Executing
<1>3. CASE HeldTick
  <2>1. ctl.state = "PAUSED" /\ ~rt.step
    BY <1>3 DEF HeldTick, TickDue, RuntimeFollowsController
  <2> QED
    BY <1>3, <2>1 DEF HeldTick, runtimeVars, RuntimeFollowsController, Executing
<1> QED
  BY <1>1, <1>2, <1>3

LEMMA StreamsFollow ==
    ASSUME TypeOK, RuntimeFollowsController,
           WorkerStep \/ MotionTestClicked \/ MotionTestTick \/ MotionTestEnds
    PROVE  RuntimeFollowsController'
<1>1. /\ UNCHANGED <<ctl, rt, dispatching, ticking, stepping>>
      /\ ~dispatching => UNCHANGED cache
  BY DEF WorkerStep, WorkerCopies, WorkerSends, OrphanSends, OrphanWakes,
         CommandExpires, MotionTestClicked, MotionTestTick, MotionTestEnds,
         SendTestCommand, StopTestRobot, pageVars
<1>2. held = NoCommands /\ ~dispatching => UNCHANGED held
  BY DEF WorkerStep, WorkerCopies, WorkerSends, Unsent, NoCommands, OrphanSends,
         OrphanWakes, CommandExpires, MotionTestClicked, MotionTestTick,
         MotionTestEnds, workers
<1> QED
  BY <1>1, <1>2 DEF RuntimeFollowsController, Executing

\* Through every slot and every failure inside one, there are paths, a worker
\* and cached commands exactly while a run is on, and the pause and step flags
\* of the runtime are those of the page.
THEOREM RuntimeFollows == Spec => []RuntimeFollowsController
<1>1. Init => RuntimeFollowsController
  BY DEF Init, NewController, IdleRuntime, RuntimeFollowsController, Executing
<1>2. TypeOK /\ RuntimeFollowsController /\ [Next]_vars => RuntimeFollowsController'
  <2> SUFFICES ASSUME TypeOK, RuntimeFollowsController, [Next]_vars
               PROVE  RuntimeFollowsController'
    OBVIOUS
  <2>1. CASE UNCHANGED vars
    BY <2>1, IdleFollows DEF vars, runtimeVars, pageVars
  <2> QED
    BY <2>1, StoppingFollows, PreparingFollows, RunningFollows, TicksFollow,
       StreamsFollow
    DEF Next, UserStep, TimerStep, VisionStep
<1> QED
  BY <1>1, <1>2, TypeCorrect, PTL DEF Spec

-----------------------------------------------------------------------------
(***************************************************************************)
(* Motion.  An invariant of its own is needed because the worker turns the *)
(* table into a copy and the copy into what is sent, in steps of its own:  *)
(* what it still holds must be excused before it leaves.  A copied motion  *)
(* is the run's, or the table has a zero for the robot by now.  And the    *)
(* step flag excuses motion, so it must not outlive its paused run.        *)
(***************************************************************************)

Driving == ctl.state = "RUNNING" \/ rt.step

\* The table's zero is what the worker repeats next.
Replaced(r) == dispatching /\ cache[r] = "zero"

Excused(r) == \/ r \in Robots /\ (Driving \/ Replaced(r))
              \/ r = TestRobot /\ testing

MotionInv ==
    /\ rt.step => ctl.state = "PAUSED"
    /\ \A r \in Robots \cup {TestRobot} :
          /\ wire[r] = "move" => Excused(r)
          /\ held[r] = "move" => r \in Robots /\ dispatching /\ (Driving \/ Replaced(r))
          /\ cache[r] = "move" => r \in Robots /\ Driving

\* Where a run is on, and wherever a scenario is loaded, a stop zeroes every
\* robot of it.
LEMMA StopReachesRobots ==
    ASSUME TypeOK, RuntimeFollowsController,
           ctl.state \in Executing \/ ctl.input # NoInput
    PROVE  StopKeys = Robots
  BY DEF RuntimeFollowsController, Executing, StopKeys

LEMMA ZeroedMoves ==
    ASSUME NEW w, NEW keys, NEW lost, NEW k \in Keys
    PROVE  /\ Zeroed(w, keys, lost)[k] = "move" => k \notin keys /\ w[k] = "move"
           /\ k \in keys /\ k \notin lost => Zeroed(w, keys, lost)[k] = "zero"
           /\ k \notin keys => Zeroed(w, keys, lost)[k] = w[k]
  BY DEF Zeroed

\* Wires a stop can be called with: a robot moves for the run, or for a motion
\* test that the slot leaves on.
Stoppable(w) ==
    \A r \in Robots \cup {TestRobot} :
        w[r] = "move" => \/ r \in Robots /\ ctl.state \in Executing
                         \/ r = TestRobot /\ testing'

LEMMA WiresAreStoppable ==
    ASSUME RuntimeFollowsController, MotionInv,
           NEW r \in Robots \cup {TestRobot}, wire[r] = "move"
    PROVE  \/ r \in Robots /\ ctl.state \in Executing
           \/ r = TestRobot /\ testing
  BY DEF RuntimeFollowsController, MotionInv, Excused, Driving, Replaced, Executing

\* The runtime's stop: what the worker sends while it is joined is the run's,
\* and the zeroes follow it.
LEMMA RuntimeStopHalts ==
    ASSUME TypeOK, RuntimeFollowsController, MotionInv,
           NEW w, NEW keys, NEW lost, StopRuntime(w, keys, lost), Stoppable(w),
           ctl.state \in Executing => keys = Robots
    PROVE  MotionInv'
<1>1. /\ ~rt'.step
      /\ \A r \in Robots \cup {TestRobot} : cache'[r] # "move" /\ held'[r] # "move"
  BY RuntimeStopIdles DEF IdleRuntime, NoCommands, Keys
<1>2. ASSUME NEW r \in Robots \cup {TestRobot}, wire'[r] = "move"
      PROVE  r = TestRobot /\ testing'
  <2>1. PICK sent \in SUBSET Unsent : wire' = Zeroed(Sent(w, sent), keys, lost)
    BY DEF StopRuntime
  <2>2. r \in Keys
    BY DEF Keys
  <2>3. r \notin keys /\ Sent(w, sent)[r] = "move"
    BY <1>2, <2>1, <2>2, ZeroedMoves
  <2>4. w[r] = "move" \/ held[r] = "move"
    BY <2>2, <2>3 DEF Sent
  <2>5. held[r] = "move" => r \in Robots /\ ctl.state \in Executing
    BY DEF MotionInv, RuntimeFollowsController
  <2> QED
    BY <2>3, <2>4, <2>5 DEF Stoppable
<1> QED
  BY <1>1, <1>2 DEF MotionInv, Excused

LEMMA StopHalts ==
    ASSUME TypeOK, RuntimeFollowsController, MotionInv,
           NEW c, NEW l, NEW w, NEW error, NEW lost, NEW writable,
           EmergencyStop(c, l, w, error, lost, writable), Stoppable(w)
    PROVE  MotionInv'
  BY RuntimeStopHalts, StopReachesRobots DEF EmergencyStop

LEMMA FailHalts ==
    ASSUME TypeOK, RuntimeFollowsController, MotionInv,
           NEW c, NEW l, NEW w, Fail(c, l, w), UNCHANGED testing,
           \A r \in Robots \cup {TestRobot} :
               w[r] = "move" => wire[r] = "move" \/ (r \in Robots /\ ctl.state \in Executing)
    PROVE  MotionInv'
<1>1. Stoppable(w)
  BY WiresAreStoppable DEF Stoppable
<1> QED
  BY <1>1, StopHalts DEF Fail

\* Nothing moves more than before, and whoever was driving still is.
LEMMA NothingNewMoves ==
    ASSUME MotionInv,
           UNCHANGED <<testing, cache, wire, workers>>,
           Driving => Driving',
           dispatching => dispatching',
           rt'.step => ctl'.state = "PAUSED"
    PROVE  MotionInv'
  BY DEF MotionInv, Excused, Replaced, workers

LEMMA StoppingHalts ==
    ASSUME TypeOK, RuntimeFollowsController, MotionInv,
           \/ EmergencyButton \/ VisionThreadFails \/ WatchdogTick \/ RunRefused
           \/ TickRaises \/ RunRaises \/ ResetClicked \/ Close
    PROVE  MotionInv'
<1>1. CASE VisionThreadFails \/ WatchdogTick \/ RunRefused
  BY <1>1, FailHalts DEF VisionThreadFails, WatchdogTick, RunRefused
<1>2. CASE EmergencyButton
  <2>1. Stoppable(wire)
    BY <1>2, WiresAreStoppable DEF Stoppable, EmergencyButton
  <2> QED
    BY <1>2, <2>1, StopHalts DEF EmergencyButton
<1>3. CASE TickRaises
  <2>1. PICK moved \in SUBSET (Robots \cup Patrols) :
           Fail(ctl, log, [k \in Keys |-> IF k \in moved THEN "move" ELSE wire[k]])
    BY <1>3 DEF TickRaises
  <2> DEFINE w == [k \in Keys |-> IF k \in moved THEN "move" ELSE wire[k]]
  <2>2. ctl.state \in Executing /\ UNCHANGED testing
    BY <1>3 DEF TickRaises, TickDue, Executing
  <2>3. \A r \in Robots \cup {TestRobot} :
           w[r] = "move" => wire[r] = "move" \/ r \in Robots
    BY ConsoleAssumption DEF Keys
  <2> HIDE DEF w
  <2>4. Fail(ctl, log, w)
    BY <2>1 DEF w
  <2> QED
    BY <2>2, <2>3, <2>4, FailHalts
<1>4. CASE RunRaises
  <2> PICK p \in Planners : \E l : Fail(Run(ctl, p), l, wire)
    BY <1>4 DEF RunRaises
  <2>1. UNCHANGED testing
    BY <1>4 DEF RunRaises
  <2> QED
    BY <2>1, FailHalts
<1>5. CASE ResetClicked
  <2>1. PICK error \in BOOLEAN, lost \in SUBSET Robots :
           \/ \E l : Fail(Stop(ctl, error), l, Zeroed(wire, Robots, lost))
           \/ \E l : Fail(BeginReset(Stop(ctl, error)), l, Zeroed(wire, Robots, lost))
           \/ StopRuntime(wire, Robots, lost)
    BY <1>5 DEF ResetClicked
  <2>2. UNCHANGED testing
    BY <1>5 DEF ResetClicked
  <2>3. \A r \in Robots \cup {TestRobot} :
           Zeroed(wire, Robots, lost)[r] = "move" => wire[r] = "move"
    BY ZeroedMoves DEF Keys
  <2>4. Stoppable(wire)
    BY <2>2, WiresAreStoppable DEF Stoppable
  <2> QED
    BY <2>1, <2>2, <2>3, <2>4, FailHalts, RuntimeStopHalts
<1>6. CASE Close
  <2> DEFINE W(sent) == IF testing
                        THEN Zeroed(wire, {TestRobot}, IF sent THEN {} ELSE {TestRobot})
                        ELSE wire
  <2>1. PICK sent \in BOOLEAN :
           \/ \E lost, writable : EmergencyStop(ctl, log, W(sent), TRUE, lost, writable)
           \/ /\ wire' = W(sent) /\ ctl.state \notin Busy
              /\ UNCHANGED <<ctl, rt, dispatching, cache, workers>>
    BY <1>6 DEF Close
  <2>2. ~testing'
    BY <1>6 DEF Close
  <2>3. \A r \in Robots \cup {TestRobot} :
           W(sent)[r] = "move" => wire[r] = "move" /\ (r = TestRobot => ~testing)
    BY ZeroedMoves DEF Keys
  <2> HIDE DEF W
  <2>4. Stoppable(W(sent))
    BY <2>3, WiresAreStoppable DEF Stoppable
  <2>5. CASE \E lost, writable : EmergencyStop(ctl, log, W(sent), TRUE, lost, writable)
    BY <2>4, <2>5, StopHalts
  <2>6. CASE /\ wire' = W(sent) /\ ctl.state \notin Busy
             /\ UNCHANGED <<ctl, rt, dispatching, cache, workers>>
    <3>1. \A r \in Robots \cup {TestRobot} : wire'[r] # "move"
      BY <2>2, <2>4, <2>6 DEF Stoppable, Busy, Executing
    <3> QED
      BY <2>6, <3>1 DEF MotionInv, Driving, Replaced, workers
  <2> QED
    BY <2>1, <2>5, <2>6
<1> QED
  BY <1>1, <1>2, <1>3, <1>4, <1>5, <1>6

LEMMA PreparingHalts ==
    ASSUME TypeOK, RuntimeFollowsController, MotionInv,
           \/ LoadScenario \/ UnloadScenario \/ PlannerTabPlan \/ ApplyClicked
           \/ ConfirmingSnapshot \/ IdleSnapshot \/ VisionGoesStale
           \/ VerifierExpires
    PROVE  MotionInv'
<1>0. ctl \in Controllers
  BY DEF TypeOK
<1>1. CASE LoadScenario \/ UnloadScenario
  <2>1. UNCHANGED <<rt, dispatching, cache, wire, workers, testing>>
    BY <1>1 DEF LoadScenario, UnloadScenario, runtimeVars
  <2>2. UNCHANGED ctl \/ ctl.state \notin Busy
    BY <1>1 DEF LoadScenario, UnloadScenario, CanReplaceInput
  <2>3. CASE UNCHANGED ctl
    BY <2>1, <2>3, NothingNewMoves DEF MotionInv, Driving
  <2>4. CASE ctl.state \notin Busy
    BY <2>1, <2>4, NothingNewMoves DEF MotionInv, Driving, Busy
  <2> QED
    BY <2>2, <2>3, <2>4
<1>2. CASE ApplyClicked
  <2>1. BeginApply(ctl) \in Controllers
    BY <1>0, ControllerTypes
  <2>2. CASE CanBeginApply(ctl) /\ UNCHANGED <<rt, dispatching, cache, wire, workers, testing>>
    BY <2>2, NothingNewMoves DEF CanBeginApply, MotionInv, Driving
  <2> QED
    BY <1>0, <1>2, <2>1, <2>2, FailHalts DEF ApplyClicked
<1>3. CASE ConfirmingSnapshot
  <2>1. CASE Fail(ctl, log, wire)
    BY <1>0, <1>3, <2>1, FailHalts DEF ConfirmingSnapshot
  <2>2. CASE UNCHANGED <<rt, dispatching, cache, wire, workers, testing>>
    <3>1. ~Driving
      BY <1>3 DEF ConfirmingSnapshot, Confirming, MotionInv, Driving
    <3> QED
      BY <2>2, <3>1, NothingNewMoves DEF MotionInv, Driving
  <2> QED
    BY <1>3, <2>1, <2>2 DEF ConfirmingSnapshot
<1>4. CASE PlannerTabPlan \/ IdleSnapshot \/ VisionGoesStale \/ VerifierExpires
  BY <1>4, NothingNewMoves
  DEF PlannerTabPlan, IdleSnapshot, VisionGoesStale, VerifierExpires, pageVars,
      runtimeVars, MotionInv, Driving
<1> QED
  BY <1>1, <1>2, <1>3, <1>4

LEMMA RunningHalts ==
    ASSUME TypeOK, RuntimeFollowsController, MotionInv,
           \/ RunClicked \/ PauseClicked \/ ContinueClicked \/ StepClicked
           \/ RunningSnapshot
    PROVE  MotionInv'
<1>0. ctl \in Controllers /\ rt \in Runtimes
  BY DEF TypeOK
<1>1. CASE RunClicked
  <2>1. ctl'.state = "RUNNING"
    BY <1>0, <1>1 DEF RunClicked, ClaimOwnership, Run, Controllers
  <2>2. ~rt'.step
    BY <1>1 DEF RunClicked, StartExecution, IdleRuntime
  <2> QED
    BY <1>1, <2>1, <2>2, NothingNewMoves DEF RunClicked, Driving
<1>2. CASE PauseClicked
  <2>1. CASE Fail(ctl, log, wire)
    BY <1>0, <1>2, <2>1, FailHalts DEF PauseClicked
  <2>2. CASE /\ rt' = PauseExecution(rt)
             /\ cache' = [k \in Keys |-> IF k \in Robots THEN "zero" ELSE cache[k]]
             /\ wire' = Zeroed(wire, Robots, {})
             /\ CanPause(ctl) /\ UNCHANGED <<dispatching, workers, testing>>
    <3>1. ~rt'.step
      BY <1>0, <2>2 DEF PauseExecution, Runtimes
    <3>2. ctl.state = "RUNNING" /\ UNCHANGED <<dispatching, workers, testing>> /\ dispatching
      BY <2>2 DEF CanPause, RuntimeFollowsController
    <3>3. \A r \in Robots \cup {TestRobot} :
             /\ wire'[r] = "move" => r \notin Robots /\ wire[r] = "move"
             /\ cache'[r] = IF r \in Robots THEN "zero" ELSE cache[r]
      BY <2>2, ZeroedMoves DEF Keys
    <3> QED
      BY <3>1, <3>2, <3>3 DEF MotionInv, Excused, Replaced, workers
  <2> QED
    BY <1>2, <2>1, <2>2 DEF PauseClicked
<1>3. CASE ContinueClicked
  <2>1. ctl'.state = "RUNNING" /\ ~rt'.step
    BY <1>0, <1>3
    DEF ContinueClicked, ContinueRun, ContinueExecution, Controllers, Runtimes
  <2> QED
    BY <1>3, <2>1, NothingNewMoves DEF ContinueClicked, Driving
<1>4. CASE StepClicked
  <2>1. CASE Fail(ctl, log, wire)
    BY <1>0, <1>4, <2>1, FailHalts DEF StepClicked
  <2>2. CASE /\ CanStepExecution(rt)
             /\ rt' = StepExecution(rt)
             /\ UNCHANGED <<ctl, dispatching, cache, wire, workers>>
    <3>1. ctl.state = "PAUSED" /\ rt'.step
      BY <1>0, <2>2
      DEF CanStepExecution, StepExecution, Runtimes, RuntimeFollowsController, Executing
    <3> QED
      BY <1>4, <2>2, <3>1, NothingNewMoves DEF StepClicked, Driving
  <2> QED
    BY <1>4, <2>1, <2>2 DEF StepClicked
<1>5. CASE RunningSnapshot
  <2>1. rt'.step = rt.step
    BY <1>0, <1>5 DEF RunningSnapshot, Replanned, Runtimes
  <2> QED
    BY <1>5, <2>1, NothingNewMoves DEF RunningSnapshot, MotionInv, Driving
<1> QED
  BY <1>1, <1>2, <1>3, <1>4, <1>5

\* A tick commands the robots it drives and zeroes the others; a step that is
\* over drives none.
LEMMA TicksHalt ==
    ASSUME TypeOK, RuntimeFollowsController, MotionInv,
           ExecutionTick \/ CompletingTick \/ HeldTick
    PROVE  MotionInv'
<1>0. ctl \in Controllers /\ rt \in Runtimes
  BY DEF TypeOK
<1>a. ASSUME NEW driven \in SUBSET Robots, NEW patrolling \in SUBSET Patrols, NEW base,
             NEW r \in Robots \cup {TestRobot},
             TickCommands(base, driven, patrolling)[r] = "move"
      PROVE  r \in driven \/ (r \notin Robots /\ base[r] = "move")
  BY <1>a, ConsoleAssumption DEF TickCommands, Keys
<1>1. CASE ExecutionTick
  <2>1. PICK seen \in SUBSET Robots, patrolling \in SUBSET Patrols, n \in Indices :
           /\ rt' = Ticked(rt, seen, n)
           /\ cache' = TickCommands(cache, Driven(rt, seen, n), patrolling)
           /\ wire' = TickCommands(wire, Driven(rt, seen, n), patrolling)
    BY <1>1 DEF ExecutionTick, TickIndices
  <2>2. (ctl.state = "RUNNING" /\ ~rt.step) \/ (ctl.state = "PAUSED" /\ rt.step)
    BY <1>1 DEF ExecutionTick, TickDue, RuntimeFollowsController, Executing
  <2>3. UNCHANGED <<ctl, dispatching, workers, testing>> /\ dispatching
    BY <1>1, <2>2 DEF ExecutionTick, TickIndices, RuntimeFollowsController
  <2>4. Driven(rt, seen, n) \in SUBSET Robots
    BY DEF Driven
  <2>5. /\ rt'.step => rt.step
        /\ Driven(rt, seen, n) # {} => rt'.step = rt.step
    BY <1>0, <2>1 DEF Ticked, StepFinished, Runtimes
  <2>6. ASSUME NEW r \in Robots \cup {TestRobot}
        PROVE  /\ wire'[r] = "move" => Excused(r)'
               /\ held'[r] = "move" => r \in Robots /\ dispatching' /\ (Driving' \/ Replaced(r)')
               /\ cache'[r] = "move" => r \in Robots /\ Driving'
    <3>1. r \in Driven(rt, seen, n) => r \in Robots /\ Driving'
      BY <2>2, <2>3, <2>4, <2>5 DEF Driving
    <3>2. /\ wire'[r] = "move" => r \in Driven(rt, seen, n) \/ (r \notin Robots /\ wire[r] = "move")
          /\ cache'[r] = "move" => r \in Driven(rt, seen, n) \/ (r \notin Robots /\ cache[r] = "move")
      BY <1>a, <2>1, <2>4
    <3>3. r \in Robots => r \in Driven(rt, seen, n) \/ cache'[r] = "zero"
      BY <2>1, ConsoleAssumption DEF TickCommands, Keys
    <3>4. held'[r] = held[r] /\ (held[r] = "move" => r \in Robots)
      BY <2>3 DEF MotionInv, workers
    <3> QED
      BY <2>3, <3>1, <3>2, <3>3, <3>4 DEF MotionInv, Excused, Replaced
  <2> QED
    BY <2>2, <2>3, <2>5, <2>6 DEF MotionInv
<1>2. CASE CompletingTick
  <2>1. PICK patrolling \in SUBSET Patrols :
           LET w == TickCommands(wire, {}, patrolling)
           IN  \/ \E lost : StopRuntime(w, Robots, lost)
               \/ \E l : Fail(Complete(ctl), l, w)
    BY <1>2 DEF CompletingTick
  <2> DEFINE w == TickCommands(wire, {}, patrolling)
  <2>2. \A r \in Robots \cup {TestRobot} : w[r] = "move" => wire[r] = "move"
    BY <1>a
  <2>3. UNCHANGED testing
    BY <1>2 DEF CompletingTick
  <2> HIDE DEF w
  <2>4. Stoppable(w)
    BY <2>2, <2>3, WiresAreStoppable DEF Stoppable
  <2>5. (\E lost : StopRuntime(w, Robots, lost)) \/ \E l : Fail(Complete(ctl), l, w)
    BY <2>1 DEF w
  <2> QED
    BY <2>2, <2>3, <2>4, <2>5, FailHalts, RuntimeStopHalts
<1>3. CASE HeldTick
  BY <1>3, NothingNewMoves DEF HeldTick, runtimeVars, MotionInv, Driving
<1> QED
  BY <1>1, <1>2, <1>3

LEMMA StreamsHalt ==
    ASSUME TypeOK, RuntimeFollowsController, MotionInv,
           WorkerStep \/ MotionTestClicked \/ MotionTestTick \/ MotionTestEnds
    PROVE  MotionInv'
<1>1. UNCHANGED <<ctl, rt, dispatching>> /\ UNCHANGED Driving
  BY DEF WorkerStep, WorkerCopies, WorkerSends, OrphanSends, OrphanWakes,
         CommandExpires, MotionTestClicked, MotionTestTick, MotionTestEnds, Driving
<1>a. Robots \cup {TestRobot} \subseteq Keys
  BY DEF Keys
<1>2. CASE WorkerCopies
  BY <1>1, <1>2 DEF WorkerCopies, pageVars, MotionInv, Excused, Replaced
<1>3. CASE WorkerSends
  <2>1. PICK k \in Unsent :
           /\ wire' \in {wire, [wire EXCEPT ![k] = held[k]]}
           /\ held' = [held EXCEPT ![k] = "none"]
    BY <1>3 DEF WorkerSends
  <2>2. UNCHANGED <<cache, testing>>
    BY <1>3 DEF WorkerSends, pageVars
  <2>3. \A r \in Robots \cup {TestRobot} :
           /\ wire'[r] = "move" => wire[r] = "move" \/ held[r] = "move"
           /\ held'[r] = "move" => held[r] = "move"
    BY <1>a, <2>1 DEF TypeOK, Wires, Caches, Unsent
  <2> QED
    BY <1>1, <2>2, <2>3 DEF MotionInv, Excused, Replaced
<1>4. CASE OrphanSends \/ OrphanWakes
  <2>1. \A r \in Robots \cup {TestRobot} : wire'[r] = "move" => wire[r] = "move"
    BY <1>a, <1>4 DEF OrphanSends, OrphanWakes, TypeOK, Wires
  <2>2. UNCHANGED <<cache, held, testing>>
    BY <1>4 DEF OrphanSends, OrphanWakes, pageVars
  <2> QED
    BY <1>1, <2>1, <2>2 DEF MotionInv, Excused, Replaced
<1>5. CASE CommandExpires
  <2>1. PICK k \in Keys : cache' = [cache EXCEPT ![k] = "zero"]
    BY <1>5 DEF CommandExpires
  <2>2. \A r \in Robots \cup {TestRobot} :
           /\ cache'[r] = "move" => cache[r] = "move"
           /\ cache[r] = "zero" => cache'[r] = "zero"
    BY <1>a, <2>1 DEF TypeOK, Caches
  <2>3. UNCHANGED <<wire, workers, testing>>
    BY <1>5 DEF CommandExpires, pageVars
  <2> QED
    BY <1>1, <2>2, <2>3 DEF MotionInv, Excused, Replaced, workers
<1>6. CASE MotionTestClicked \/ MotionTestTick \/ MotionTestEnds
  <2>0. UNCHANGED workers
    BY <1>6 DEF MotionTestClicked, MotionTestTick, MotionTestEnds
  <2>1. CASE /\ \E sent \in BOOLEAN : StopTestRobot(sent)
             /\ testing' = FALSE
    <3>1. ASSUME NEW r \in Robots \cup {TestRobot}
          PROVE  /\ wire'[r] = "move" => wire[r] = "move" /\ r # TestRobot
                 /\ cache'[r] = "move" => cache[r] = "move"
                 /\ cache[r] = "zero" => cache'[r] = "zero"
      BY <1>a, <2>1, ZeroedMoves DEF StopTestRobot, TypeOK, Caches
    <3> QED
      BY <1>1, <2>0, <3>1 DEF MotionInv, Excused, Replaced, workers
  <2>2. CASE /\ wire' = [wire EXCEPT ![TestRobot] = "move"]
             /\ testing' = TRUE
             /\ UNCHANGED cache
    BY <1>1, <2>0, <2>2 DEF MotionInv, Excused, Replaced, workers, TypeOK, Wires, Keys
  <2> QED
    BY <1>6, <2>1, <2>2
    DEF MotionTestClicked, MotionTestTick, MotionTestEnds, SendTestCommand
<1> QED
  BY <1>2, <1>3, <1>4, <1>5, <1>6 DEF WorkerStep

\* No robot of the scenario is left with a command to move once the run, the
\* step or the motion test that may move it is over, whatever failed in the
\* slot that ended it and however late the worker sends what it copied: then
\* the table it repeats next has the robot's zero.  What is left otherwise is
\* a zero that could not be sent or a worker that was given up on.
THEOREM MotionIsOwned == Spec => []MotionNeedsOwner
<1>1. Init => MotionInv
  BY DEF Init, IdleRuntime, NoCommands, Keys, MotionInv
<1>2. TypeOK /\ RuntimeFollowsController /\ MotionInv /\ [Next]_vars => MotionInv'
  <2> SUFFICES ASSUME TypeOK, RuntimeFollowsController, MotionInv, [Next]_vars
               PROVE  MotionInv'
    OBVIOUS
  <2>1. CASE UNCHANGED vars
    BY <2>1, NothingNewMoves DEF vars, runtimeVars, pageVars, MotionInv, Driving
  <2> QED
    BY <2>1, StoppingHalts, PreparingHalts, RunningHalts, TicksHalt, StreamsHalt
    DEF Next, UserStep, TimerStep, VisionStep
<1>3. MotionInv => MotionNeedsOwner
  BY DEF MotionInv, MotionNeedsOwner, Excused, Driving, Replaced
<1> QED
  BY <1>1, <1>2, <1>3, TypeCorrect, RuntimeFollows, PTL DEF Spec

-----------------------------------------------------------------------------
(***************************************************************************)
(* STOPPED is still.                                                       *)
(***************************************************************************)

\* A slot that cannot leave the page STOPPED.
LEMMA FailEndsInError ==
    ASSUME NEW c \in Controllers, NEW l, NEW w, Fail(c, l, w)
    PROVE  ctl'.state = "ERROR"
  BY DEF Fail, EmergencyStop, Stop, Controllers

\* Of a stop that ends in STOPPED no zero was lost.
LEMMA StopEndsStill ==
    ASSUME TypeOK, RuntimeFollowsController,
           NEW l, NEW error \in BOOLEAN, NEW lost, NEW writable,
           EmergencyStop(ctl, l, wire, error, lost, writable)
    PROVE  StoppedIsStill'
<1>1. ctl' = Stop(ctl, error \/ lost \cap StopKeys # {})
  BY DEF EmergencyStop
<1>2. CASE error \/ lost \cap StopKeys # {}
  <2>1. ctl'.state = "ERROR"
    BY <1>1, <1>2 DEF Stop, TypeOK, Controllers
  <2> QED
    BY <2>1 DEF StoppedIsStill
<1>3. CASE ~(error \/ lost \cap StopKeys # {}) /\ ctl.input # NoInput
  <2>1. StopKeys = Robots
    BY <1>3, StopReachesRobots
  <2>2. \A r \in Robots : r \in Keys /\ r \notin lost
    BY <1>3, <2>1 DEF Keys
  <2>3. \A r \in Robots : wire'[r] = "zero"
    BY <2>1, <2>2, ZeroedMoves DEF EmergencyStop, StopRuntime
  <2> QED
    BY <2>3 DEF StoppedIsStill
<1>4. CASE ctl.input = NoInput
  <2>1. ctl'.input = NoInput
    BY <1>1, <1>4 DEF Stop, TypeOK, Controllers
  <2> QED
    BY <2>1 DEF StoppedIsStill
<1> QED
  BY <1>2, <1>3, <1>4

\* A slot after which the page is not STOPPED, or was already, with the same
\* robots still or moved by a worker that was given up on.
LEMMA StillStays ==
    ASSUME StoppedIsStill,
           \/ ctl'.state # "STOPPED"
           \/ /\ UNCHANGED ctl
              /\ \A r \in Robots \ {TestRobot} : wire'[r] \in {wire[r], "zero", "stray"}
    PROVE  StoppedIsStill'
  BY DEF StoppedIsStill

LEMMA SlotsKeepStill ==
    ASSUME TypeOK, RuntimeFollowsController, StoppedIsStill, [Next]_vars
    PROVE  StoppedIsStill'
<1>0. ctl \in Controllers
  BY DEF TypeOK
<1>a. \A c \in Controllers : \A l, w : Fail(c, l, w) => StoppedIsStill'
  BY FailEndsInError, StillStays
<1>b. \A keys, lost : keys \subseteq {TestRobot} =>
         \A r \in Robots \ {TestRobot} : Zeroed(wire, keys, lost)[r] = wire[r]
  BY ZeroedMoves DEF Keys
<1>1. CASE \/ VisionThreadFails \/ WatchdogTick \/ RunRefused \/ TickRaises
  BY <1>0, <1>1, <1>a DEF VisionThreadFails, WatchdogTick, RunRefused, TickRaises
<1>2. CASE EmergencyButton
  BY <1>2, StopEndsStill DEF EmergencyButton
<1>3. CASE RunRaises
  <2>1. PICK p \in Planners : \E l : Fail(Run(ctl, p), l, wire)
    BY <1>3 DEF RunRaises
  <2> QED
    BY <1>0, <1>a, <2>1, ControllerTypes
<1>4. CASE ResetClicked
  <2>1. PICK error \in BOOLEAN :
           \/ \E l, w : Fail(Stop(ctl, error), l, w)
           \/ \E l, w : Fail(BeginReset(Stop(ctl, error)), l, w)
           \/ ctl' = BeginReset(Stop(ctl, error))
    BY <1>4 DEF ResetClicked
  <2>2. /\ Stop(ctl, error) \in Controllers
        /\ BeginReset(Stop(ctl, error)) \in Controllers
        /\ BeginReset(Stop(ctl, error)).state = "RESETTING"
    <3>1. Stop(ctl, error) \in Controllers
      BY <1>0, ControllerTypes
    <3>2. BeginReset(Stop(ctl, error)) \in Controllers
      BY <3>1, ControllerTypes
    <3>3. BeginReset(Stop(ctl, error)).state = "RESETTING"
      BY <3>1 DEF BeginReset, Released, Controllers
    <3> QED
      BY <3>1, <3>2, <3>3
  <2> QED
    BY <1>a, <2>1, <2>2, StillStays
<1>5. CASE Close
  <2>1. PICK sent \in BOOLEAN :
          LET w == IF testing
                   THEN Zeroed(wire, {TestRobot}, IF sent THEN {} ELSE {TestRobot})
                   ELSE wire
          IN \/ \E lost, writable : EmergencyStop(ctl, log, w, TRUE, lost, writable)
             \/ wire' = w /\ UNCHANGED ctl
    BY <1>5 DEF Close
  <2>2. CASE \E w, lost, writable : EmergencyStop(ctl, log, w, TRUE, lost, writable)
    <3>1. ctl'.state = "ERROR"
      BY <1>0, <2>2 DEF EmergencyStop, Stop, Controllers
    <3> QED
      BY <3>1, StillStays
  <2>3. CASE /\ \/ wire' = wire
                \/ \E lost : wire' = Zeroed(wire, {TestRobot}, lost)
             /\ UNCHANGED ctl
    <3>1. \A r \in Robots \ {TestRobot} : wire'[r] = wire[r]
      BY <1>b, <2>3
    <3> QED
      BY <2>3, <3>1, StillStays
  <2> QED
    BY <2>1, <2>2, <2>3
<1>6. CASE LoadScenario \/ UnloadScenario
  <2>1. UNCHANGED wire
    BY <1>6 DEF LoadScenario, UnloadScenario, runtimeVars
  <2>2. UNCHANGED ctl \/ ctl'.state \in {"SCENARIO_LOADED", "NO_SCENARIO"}
    <3>1. /\ \A planners : Load(ctl, planners).state = "SCENARIO_LOADED"
          /\ Unload(ctl).state = "NO_SCENARIO"
      BY DEF Load, Unload, NewController
    <3> QED
      BY <1>6, <3>1 DEF LoadScenario, UnloadScenario
  <2> QED
    BY <2>1, <2>2, StillStays
<1>7. CASE ApplyClicked
  <2>1. BeginApply(ctl) \in Controllers /\ BeginApply(ctl).state = "APPLYING"
    BY <1>0, ControllerTypes DEF BeginApply, Controllers
  <2> QED
    BY <1>0, <1>7, <1>a, <2>1, StillStays DEF ApplyClicked
<1>8. CASE ConfirmingSnapshot
  <2>1. ConfirmApply(ctl).state = "READY"
    BY <1>0 DEF ConfirmApply, Controllers
  <2> QED
    BY <1>0, <1>8, <1>a, <2>1, StillStays DEF ConfirmingSnapshot
<1>9. CASE RunClicked
  <2>1. ctl'.state = "RUNNING"
    BY <1>0, <1>9 DEF RunClicked, ClaimOwnership, Run, Controllers
  <2> QED
    BY <2>1, StillStays
<1>10. CASE PauseClicked \/ ContinueClicked
  <2>1. Pause(ctl).state = "PAUSED" /\ ContinueRun(ctl).state = "RUNNING"
    BY <1>0 DEF Pause, ContinueRun, Controllers
  <2> QED
    BY <1>0, <1>10, <1>a, <2>1, StillStays DEF PauseClicked, ContinueClicked
<1>11. CASE StepClicked
  BY <1>0, <1>11, <1>a, StillStays DEF StepClicked
<1>12. CASE ExecutionTick
  BY <1>12, StillStays DEF ExecutionTick, TickDue
<1>13. CASE CompletingTick
  <2>1. Complete(ctl) \in Controllers /\ Complete(ctl).state = "COMPLETED"
    BY <1>0, ControllerTypes DEF Complete, Controllers
  <2> QED
    BY <1>13, <1>a, <2>1, StillStays DEF CompletingTick
<1>14. CASE WorkerSends
  <2>1. ctl.state \in Executing /\ UNCHANGED ctl
    BY <1>14 DEF WorkerSends, Unsent, NoCommands, RuntimeFollowsController
  <2> QED
    BY <2>1, StillStays DEF Executing
<1>17. CASE OrphanSends
  <2>1. \A r \in Robots \ {TestRobot} : wire'[r] \in {wire[r], "zero", "stray"}
    BY <1>17 DEF OrphanSends, TypeOK, Wires, Keys
  <2> QED
    BY <1>17, <2>1, StillStays DEF OrphanSends
<1>15. CASE MotionTestClicked \/ MotionTestTick \/ MotionTestEnds
  <2>1. UNCHANGED ctl
    BY <1>15 DEF MotionTestClicked, MotionTestTick, MotionTestEnds
  <2>2. \/ wire' = [wire EXCEPT ![TestRobot] = "move"]
        \/ \E lost : wire' = Zeroed(wire, {TestRobot}, lost)
    BY <1>15
    DEF MotionTestClicked, MotionTestTick, MotionTestEnds, SendTestCommand, StopTestRobot
  <2>3. \A r \in Robots \ {TestRobot} : wire'[r] = wire[r]
    BY <1>b, <2>2 DEF TypeOK, Wires, Keys
  <2> QED
    BY <2>1, <2>3, StillStays
<1>16. CASE \/ PlannerTabPlan \/ VerifierExpires \/ RunningSnapshot \/ IdleSnapshot
            \/ VisionGoesStale \/ HeldTick \/ WorkerCopies \/ OrphanWakes
            \/ CommandExpires \/ UNCHANGED vars
  BY <1>16, StillStays
  DEF PlannerTabPlan, VerifierExpires, RunningSnapshot, IdleSnapshot, VisionGoesStale,
      HeldTick, WorkerCopies, OrphanWakes, CommandExpires, runtimeVars, vars
<1> QED
  BY <1>1, <1>2, <1>3, <1>4, <1>5, <1>6, <1>7, <1>8, <1>9, <1>10, <1>11, <1>12,
     <1>13, <1>14, <1>15, <1>16, <1>17
  DEF Next, UserStep, TimerStep, VisionStep, WorkerStep

\* While the page says STOPPED and a scenario is loaded, every robot of it was
\* sent its zero after the last motion of the run's worker, however the run
\* ended: a zero that was lost shows as ERROR, and only a worker that the stop
\* gave up on can have moved a robot since.
THEOREM StoppedRobotsAreStill == Spec => []StoppedIsStill
<1>1. Init => StoppedIsStill
  BY DEF Init, NewController, StoppedIsStill
<1> QED
  BY <1>1, SlotsKeepStill, TypeCorrect, RuntimeFollows, PTL DEF Spec

-----------------------------------------------------------------------------
(***************************************************************************)
(* The accounts of the runs.  The id of a run outlives it only when its    *)
(* recorder raised, and until then the run has no row.                     *)
(***************************************************************************)

Accounts(l) ==
    /\ l.id \in {0, l.started}
    /\ l.faulty \subseteq 1..l.started
    /\ \A i \in Runs : i > l.started => l.rows[i] = 0
    /\ \A i \in 1..l.started :
          i \notin l.faulty => l.rows[i] = IF i = l.id THEN 0 ELSE 1

\* No run is open but one whose recorder raised.
Settled(l) == l.id = 0 \/ l.id \in l.faulty

AccountInv == Accounts(log) /\ (ctl.state \notin Executing => Settled(log))

\* A run that is finalized by its owner is settled.
LEMMA FinalizedSettles ==
    ASSUME NEW l \in Logs, NEW owner, NEW writable, Accounts(l),
           Settled(l) \/ owner # NoOwner
    PROVE  Accounts(Finalized(l, owner, writable)) /\ Settled(Finalized(l, owner, writable))
<1> USE ConsoleAssumption
<1>1. CASE l.id = 0
  BY <1>1 DEF Finalized, Settled
<1>2. CASE l.id # 0
  <2> DEFINE counted == IF owner = NoOwner THEN l ELSE WithRow(l)
             m == Finalized(l, owner, writable)
  <2>1. l.id = l.started /\ l.id \in Runs /\ l.started \in Nat
    BY <1>2 DEF Accounts, Logs, Runs
  <2>2. /\ counted \in Logs
        /\ counted.id = l.id /\ counted.started = l.started
        /\ counted.faulty = l.faulty
        /\ \A i \in Runs : i # l.id => counted.rows[i] = l.rows[i]
    BY <2>1 DEF WithRow, Logs
  <2>3. l.id \notin l.faulty => counted.rows[l.id] = 1
    BY <2>1, <1>2 DEF WithRow, Logs, Accounts, Settled
  <2>4. /\ m.started = l.started
        /\ m.rows = counted.rows
        /\ \/ m.id = l.id /\ m.faulty = l.faulty \cup {l.id}
           \/ m.id = 0 /\ m.faulty = l.faulty
    BY <1>2, <2>2 DEF Finalized, Logs
  <2>5. \A i \in 1..l.started : i \in Runs
    BY <2>1 DEF Runs
  <2> HIDE DEF counted, m
  <2>6. l.faulty \subseteq 1..l.started /\ l.started \in 1..l.started
    BY <1>2, <2>1 DEF Accounts, Runs
  <2>7. Settled(m) /\ m.id \in {0, m.started} /\ m.faulty \subseteq 1..m.started
    BY <2>1, <2>4, <2>6 DEF Settled
  <2>8. \A i \in Runs : i > m.started => m.rows[i] = 0
    BY <2>1, <2>2, <2>4 DEF Accounts, Runs
  <2>9. ASSUME NEW i \in 1..m.started, i \notin m.faulty
        PROVE  m.rows[i] = IF i = m.id THEN 0 ELSE 1
    <3>1. i \in 1..l.started /\ i \in Runs /\ i \notin l.faulty /\ i # m.id
      BY <2>1, <2>4, <2>5, <2>9
    <3>2. CASE i = l.id
      BY <2>3, <2>4, <3>1, <3>2
    <3>3. CASE i # l.id
      BY <2>2, <2>4, <3>1, <3>3 DEF Accounts
    <3> QED
      BY <3>2, <3>3
  <2> QED
    BY <2>7, <2>8, <2>9 DEF Accounts, m
<1> QED
  BY <1>1, <1>2

\* A run that starts when all others are settled.
LEMMA NewRunCounts ==
    ASSUME NEW l \in Logs, NEW recorded \in BOOLEAN, Accounts(l), Settled(l),
           l.started < MaxRuns
    PROVE  Accounts(NewRun(l, recorded))
<1> USE ConsoleAssumption
<1>1. l.started \in Nat /\ l.started + 1 \in Runs
  BY DEF Logs, Runs
<1>2. /\ NewRun(l, recorded).started = l.started + 1
      /\ NewRun(l, recorded).id = l.started + 1
      /\ NewRun(l, recorded).rows = l.rows
      /\ NewRun(l, recorded).faulty = l.faulty
  BY DEF NewRun, Logs
<1>3. \A i \in 1..(l.started + 1) :
         i \notin l.faulty => l.rows[i] = IF i = l.started + 1 THEN 0 ELSE 1
  <2> SUFFICES ASSUME NEW i \in 1..(l.started + 1), i \notin l.faulty
               PROVE  l.rows[i] = IF i = l.started + 1 THEN 0 ELSE 1
    OBVIOUS
  <2>1. CASE i = l.started + 1
    BY <1>1, <2>1 DEF Accounts
  <2>2. CASE i # l.started + 1
    <3>1. i \in 1..l.started /\ i # l.id
      BY <1>1, <2>2 DEF Settled
    <3> QED
      BY <2>2, <3>1 DEF Accounts
  <2> QED
    BY <2>1, <2>2
<1>4. l.faulty \subseteq 1..(l.started + 1)
  BY <1>1 DEF Accounts
<1>5. \A i \in Runs : i > l.started + 1 => l.rows[i] = 0
  BY <1>1 DEF Accounts, Runs
<1> QED
  BY <1>2, <1>3, <1>4, <1>5 DEF Accounts

\* A slot that ends in a stop settles the accounts it had got to.
LEMMA StopSettles ==
    ASSUME NEW c \in Controllers, NEW l \in Logs, NEW w, NEW error, NEW lost, NEW writable,
           EmergencyStop(c, l, w, error, lost, writable),
           Accounts(l), Settled(l) \/ c.owner # NoOwner
    PROVE  AccountInv'
<1>1. log' = Finalized(l, c.owner, writable)
  BY DEF EmergencyStop
<1> QED
  BY <1>1, FinalizedSettles DEF AccountInv

LEMMA FailSettles ==
    ASSUME NEW c \in Controllers, NEW l \in Logs, NEW w, Fail(c, l, w),
           Accounts(l), Settled(l) \/ c.owner # NoOwner
    PROVE  AccountInv'
  BY StopSettles DEF Fail

LEMMA SlotsKeepAccounts ==
    ASSUME TypeOK, OwnershipHeld, AccountInv, [Next]_vars
    PROVE  AccountInv'
<1>0. ctl \in Controllers /\ log \in Logs
  BY DEF TypeOK
<1>a. Accounts(log) /\ (Settled(log) \/ ctl.owner # NoOwner)
  BY DEF AccountInv, OwnershipHeld, OwnershipConsistent
<1>b. \A c \in Controllers : \A w :
         Fail(c, log, w) /\ c.owner = ctl.owner => AccountInv'
  BY <1>0, <1>a, FailSettles
<1>1. CASE \/ VisionThreadFails \/ WatchdogTick \/ RunRefused \/ TickRaises
  BY <1>0, <1>1, <1>b DEF VisionThreadFails, WatchdogTick, RunRefused, TickRaises
<1>2. CASE EmergencyButton
  BY <1>0, <1>2, <1>a, StopSettles DEF EmergencyButton
<1>3. CASE RunRaises
  <2>1. PICK p \in Planners :
           /\ CanRun(ctl, p)
           /\ \/ Fail(Run(ctl, p), log, wire)
              \/ \E recorded \in BOOLEAN : Fail(Run(ctl, p), NewRun(log, recorded), wire)
    BY <1>3 DEF RunRaises
  <2>2. Run(ctl, p) \in Controllers /\ Run(ctl, p).owner # NoOwner
    BY <1>0, ControllerTypes, NoOwnerAssumption DEF Run, Controllers
  <2>3. Settled(log) /\ log.started < MaxRuns
    BY <1>3, <2>1 DEF RunRaises, CanRun, AccountInv, Executing
  <2>4. \A recorded \in BOOLEAN :
           NewRun(log, recorded) \in Logs /\ Accounts(NewRun(log, recorded))
    BY <1>0, <1>a, <2>3, LogTypes, NewRunCounts
  <2> QED
    BY <1>0, <1>a, <2>1, <2>2, <2>4, FailSettles
<1>4. CASE ResetClicked
  <2>1. PICK error \in BOOLEAN, writable \in Writability(log) :
           LET counted == Finalized(log, ctl.owner, writable)
           IN  \/ \E w : Fail(Stop(ctl, error), counted, w)
               \/ \E w : Fail(BeginReset(Stop(ctl, error)), counted, w)
               \/ log' = counted
    BY <1>4 DEF ResetClicked
  <2> DEFINE counted == Finalized(log, ctl.owner, writable)
  <2>2. counted \in Logs /\ Accounts(counted) /\ Settled(counted)
    BY <1>0, <1>a, LogTypes, FinalizedSettles
  <2>3. Stop(ctl, error) \in Controllers /\ BeginReset(Stop(ctl, error)) \in Controllers
    BY <1>0, ControllerTypes
  <2>4. CASE log' = counted
    BY <2>2, <2>4 DEF AccountInv
  <2> HIDE DEF counted
  <2>5. \/ \E w : Fail(Stop(ctl, error), counted, w)
        \/ \E w : Fail(BeginReset(Stop(ctl, error)), counted, w)
        \/ log' = counted
    BY <2>1 DEF counted
  <2> QED
    BY <2>2, <2>3, <2>4, <2>5, FailSettles
<1>5. CASE Close
  <2>1. \/ \E w, lost, writable : EmergencyStop(ctl, log, w, TRUE, lost, writable)
        \/ UNCHANGED <<ctl, log>>
    BY <1>5 DEF Close
  <2> QED
    BY <1>0, <1>a, <2>1, StopSettles DEF AccountInv
<1>6. CASE LoadScenario \/ UnloadScenario
  <2>1. UNCHANGED log
    BY <1>6 DEF LoadScenario, UnloadScenario
  <2>2. UNCHANGED ctl \/ ctl.state \notin Executing
    BY <1>6 DEF LoadScenario, UnloadScenario, CanReplaceInput, Busy, Executing
  <2> QED
    BY <2>1, <2>2 DEF AccountInv
<1>7. CASE ApplyClicked
  <2>1. BeginApply(ctl) \in Controllers /\ BeginApply(ctl).owner = ctl.owner
    BY <1>0, ControllerTypes DEF BeginApply, Controllers
  <2>2. CASE CanBeginApply(ctl) /\ UNCHANGED log
    BY <2>2 DEF CanBeginApply, AccountInv, Executing
  <2> QED
    BY <1>0, <1>7, <1>b, <2>1, <2>2 DEF ApplyClicked
<1>8. CASE ConfirmingSnapshot
  <2>1. ctl.state \notin Executing
    BY <1>8 DEF ConfirmingSnapshot, Confirming, Executing
  <2>2. UNCHANGED log \/ Fail(ctl, log, wire)
    BY <1>8 DEF ConfirmingSnapshot
  <2> QED
    BY <1>0, <1>b, <2>1, <2>2 DEF AccountInv
<1>9. CASE RunClicked
  <2>1. PICK p \in Planners : CanRun(ctl, p) /\ ctl' = Run(ctl, p)
    BY <1>9 DEF RunClicked, ClaimOwnership
  <2>2. Settled(log) /\ log.started < MaxRuns /\ log' = NewRun(log, TRUE)
    BY <1>9, <2>1 DEF RunClicked, CanRun, AccountInv, Executing
  <2>3. ctl'.state = "RUNNING"
    BY <1>0, <2>1 DEF Run, Controllers
  <2> QED
    BY <1>0, <1>a, <2>2, <2>3, NewRunCounts DEF AccountInv, Executing
<1>10. CASE PauseClicked \/ ContinueClicked
  <2>1. Pause(ctl).state = "PAUSED" /\ ContinueRun(ctl).state = "RUNNING"
    BY <1>0 DEF Pause, ContinueRun, Controllers
  <2>2. \/ Fail(ctl, log, wire)
        \/ ctl' \in {Pause(ctl), ContinueRun(ctl)} /\ UNCHANGED log
    BY <1>10 DEF PauseClicked, ContinueClicked
  <2> QED
    BY <1>0, <1>b, <2>1, <2>2 DEF AccountInv, Executing
<1>11. CASE StepClicked
  BY <1>0, <1>11, <1>b DEF StepClicked, AccountInv
<1>12. CASE CompletingTick
  <2>1. PICK writable \in Writability(log) :
           LET counted == Finalized(log, ctl.owner, writable)
           IN log' = counted \/ \E w : Fail(Complete(ctl), counted, w)
    BY <1>12 DEF CompletingTick
  <2> DEFINE counted == Finalized(log, ctl.owner, writable)
  <2>2. counted \in Logs /\ Accounts(counted) /\ Settled(counted)
    BY <1>0, <1>a, LogTypes, FinalizedSettles
  <2>3. Complete(ctl) \in Controllers
    BY <1>0, ControllerTypes
  <2>4. CASE log' = counted
    BY <2>2, <2>4 DEF AccountInv
  <2> HIDE DEF counted
  <2>5. log' = counted \/ \E w : Fail(Complete(ctl), counted, w)
    BY <2>1 DEF counted
  <2> QED
    BY <2>2, <2>3, <2>4, <2>5, FailSettles
<1>13. CASE \/ PlannerTabPlan \/ VerifierExpires \/ RunningSnapshot \/ IdleSnapshot
            \/ VisionGoesStale \/ ExecutionTick \/ HeldTick \/ WorkerStep
            \/ MotionTestClicked \/ MotionTestTick \/ MotionTestEnds
            \/ UNCHANGED vars
  BY <1>13
  DEF PlannerTabPlan, VerifierExpires, RunningSnapshot, IdleSnapshot, VisionGoesStale,
      ExecutionTick, HeldTick, WorkerStep, WorkerCopies, WorkerSends, OrphanSends,
      OrphanWakes, CommandExpires, MotionTestClicked, MotionTestTick, MotionTestEnds,
      pageVars, vars, AccountInv
<1> QED
  BY <1>1, <1>2, <1>3, <1>4, <1>5, <1>6, <1>7, <1>8, <1>9, <1>10, <1>11, <1>12,
     <1>13
  DEF Next, UserStep, TimerStep, VisionStep

\* However a run ended, once it is over it has exactly one row in each result
\* table, unless its recorder raised while it was being closed.
THEOREM RunsAreCountedOnce == Spec => []OneRowPerRun
<1>1. Init => AccountInv
  <2> SUFFICES ASSUME Init PROVE Accounts(log) /\ Settled(log)
    BY DEF AccountInv
  <2>1. log.id = 0 /\ log.started = 0 /\ log.faulty = {}
        /\ \A i \in Runs : log.rows[i] = 0
    BY DEF Init
  <2> QED
    BY <2>1 DEF Accounts, Settled
<1>2. AccountInv => OneRowPerRun
  BY DEF AccountInv, Accounts, OneRowPerRun
<1> QED
  BY <1>1, <1>2, SlotsKeepAccounts, TypeCorrect, PageKeepsOwnership, PTL DEF Spec

=============================================================================
