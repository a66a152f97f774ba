------------------------- MODULE ExecutionController -------------------------
(***************************************************************************)
(* The state machine of ui/execution/controller.py: which planner, if any, *)
(* may produce robot commands.  The controller is a plain object that the  *)
(* console page drives, often with several calls in one slot, so its state *)
(* is a record and every method is an operator from record to record; the  *)
(* condition under which a method does not raise is an operator of its     *)
(* own.  ControllerSpec is the object alone, its methods called in any     *)
(* order; ExecutionConsole composes the same operators into page slots.    *)
(***************************************************************************)
CONSTANTS
    Planners,   \* labels of the discovered planner classes
    NoOwner     \* velocity_owner = None

ASSUME NoOwnerAssumption == NoOwner \notin Planners

(***************************************************************************)
(* An execution input is reduced to the planners it holds a non-empty path *)
(* tuple for: the only part of it a transition looks at.                   *)
(***************************************************************************)
Inputs == SUBSET Planners

\* execution_input = None: a set that is no input, NoOwner being no planner.
NoInput == {NoOwner}

States == {"NO_SCENARIO", "SCENARIO_LOADED", "APPLYING", "READY", "RUNNING",
           "PAUSED", "COMPLETED", "STOPPED", "ERROR", "RESETTING"}

\* States in which a method that replaces or drops the input raises.
Busy == {"APPLYING", "RUNNING", "PAUSED", "RESETTING"}

\* States that wait for the scenario to be seen on the field.
Confirming == {"APPLYING", "RESETTING"}

\* States in which the owner's commands may be flowing.
Executing == {"RUNNING", "PAUSED"}

Controllers == [state : States,
                input : Inputs \cup {NoInput},
                owner : Planners \cup {NoOwner},
                locked : BOOLEAN,
                failed : BOOLEAN]     \* error_message is not empty

NewController == [state |-> "NO_SCENARIO", input |-> NoInput,
                  owner |-> NoOwner, locked |-> FALSE, failed |-> FALSE]

-----------------------------------------------------------------------------
\* load and unload: _require_not_running, then every field is overwritten.

CanReplaceInput(c) == c.state \notin Busy

Load(c, planners) == [NewController EXCEPT !.state = "SCENARIO_LOADED",
                                           !.input = planners]

Unload(c) == NewController

-----------------------------------------------------------------------------
\* Applying the scenario to the simulator.

CanBeginApply(c) == c.state = "SCENARIO_LOADED"

BeginApply(c) == [c EXCEPT !.state = "APPLYING"]

CanSettleApply(c) == c.state \in Confirming

ConfirmApply(c) == [c EXCEPT !.state = "READY"]

FailApply(c) == [c EXCEPT !.state = "ERROR", !.failed = TRUE]

-----------------------------------------------------------------------------
\* The run.  A planner without an executable path raises before it owns.

CanRun(c, planner) ==
    /\ c.state = "READY"
    /\ c.input # NoInput
    /\ planner \in c.input
    /\ c.owner = NoOwner

\* Fault: ownership is claimed without locking the planner choice.
RunWithoutLock(c, planner) ==
    [c EXCEPT !.state = "RUNNING", !.owner = planner]

Run(c, planner) ==
    [c EXCEPT !.state = "RUNNING", !.owner = planner, !.locked = TRUE]

CanPause(c) == c.state = "RUNNING"

Pause(c) == [c EXCEPT !.state = "PAUSED"]

CanContinueRun(c) == c.state = "PAUSED" /\ c.owner # NoOwner

ContinueRun(c) == [c EXCEPT !.state = "RUNNING"]

CanComplete(c) == c.state \in Executing

Complete(c) == [c EXCEPT !.state = "COMPLETED"]

-----------------------------------------------------------------------------
\* stop never raises; it leaves the owner in place until a reset.

Stop(c, error) ==
    [c EXCEPT !.state = IF error THEN "ERROR" ELSE "STOPPED",
              !.failed = error,
              !.locked = @ \/ c.owner # NoOwner]

CanBeginReset(c) == c.state # "NO_SCENARIO"

Released(c, state) ==
    [c EXCEPT !.state = state, !.owner = NoOwner,
              !.locked = FALSE, !.failed = FALSE]

\* Fault: a reset that keeps the previous velocity owner.
BeginResetKeepingOwner(c) ==
    [c EXCEPT !.state = "RESETTING", !.failed = FALSE]

BeginReset(c) == Released(c, "RESETTING")

ResetWithoutApply(c) ==
    Released(c, IF c.input = NoInput THEN "NO_SCENARIO" ELSE "SCENARIO_LOADED")

-----------------------------------------------------------------------------
\* What holds of the record whatever the order of the calls.

\* Velocity ownership and the lock on the planner choice are one fact, an
\* owner exists only from a claim until a reset, and whoever may be driving
\* the robots owns them and had a path for them in the input.
OwnershipConsistent(c) ==
    /\ c.locked <=> c.owner # NoOwner
    /\ c.owner # NoOwner =>
         /\ c.state \in {"RUNNING", "PAUSED", "COMPLETED", "STOPPED", "ERROR"}
         /\ c.input # NoInput
         /\ c.owner \in c.input
    /\ c.state \in Executing => c.owner # NoOwner

\* The fatal-error text is shown in ERROR and in no other state.
ErrorShownInErrorOnly(c) == c.failed <=> c.state = "ERROR"

ControllerInv(c) ==
    /\ c \in Controllers
    /\ OwnershipConsistent(c)
    /\ ErrorShownInErrorOnly(c)

-----------------------------------------------------------------------------
VARIABLE ctl

ControllerInit == ctl = NewController

ControllerNext ==
    \/ /\ CanReplaceInput(ctl)
       /\ \E planners \in Inputs : ctl' = Load(ctl, planners)
    \/ CanReplaceInput(ctl) /\ ctl' = Unload(ctl)
    \/ CanBeginApply(ctl) /\ ctl' = BeginApply(ctl)
    \/ CanSettleApply(ctl) /\ ctl' \in {ConfirmApply(ctl), FailApply(ctl)}
    \/ \E p \in Planners : CanRun(ctl, p) /\ ctl' = Run(ctl, p)
    \/ CanPause(ctl) /\ ctl' = Pause(ctl)
    \/ CanContinueRun(ctl) /\ ctl' = ContinueRun(ctl)
    \/ CanComplete(ctl) /\ ctl' = Complete(ctl)
    \/ \E error \in BOOLEAN : ctl' = Stop(ctl, error)
    \/ CanBeginReset(ctl) /\ ctl' = BeginReset(ctl)
    \/ ctl' = ResetWithoutApply(ctl)

ControllerSpec == ControllerInit /\ [][ControllerNext]_ctl

=============================================================================
