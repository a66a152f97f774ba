---------------------------- MODULE HeadlessBatch ----------------------------
(***************************************************************************)
(* headless.py from the command line to the result folder: main,           *)
(* run_experiments, validate_one_shot, the two summaries and the two       *)
(* writers. A call checks its request and its folder, prepares the folder, *)
(* runs its jobs (in a process pool, or one after another), and writes its *)
(* files, the manifest last. One run's simulation is HeadlessEpisode.      *)
(***************************************************************************)
EXTENDS Integers, Sequences, FiniteSets, SequencesExt, FiniteSetsExt

CONSTANTS Calls, Folders,
          Scenarios, Patrols,     \* the scenario files; those with a patrol in them
          Planners, Requests,
          ResultSets,             \* name -> set of <<policy, horizon, period>>
          Overlap,                \* may a call begin before the last one ended?
          FAULTS,                 \* failed jobs, failed writes and killed calls
          NoOne, NoRequest

ASSUME BatchAssumption ==
    /\ Patrols \subseteq Scenarios /\ FAULTS \in Nat
    /\ NoOne \notin Calls /\ NoRequest \notin Requests

OneShot == "one-shot-validation"
NoSet == "none"                   \* no result set is named
Bank == "bank"                    \* the label of a whole bank

\* A call with no scenario, planner or trial is refused, and every option of the
\* command line has one value or more; an arm is a policy, a horizon, a period.
ASSUME RequestAssumption ==
    /\ IsFiniteSet(Scenarios) /\ Scenarios # {} /\ Planners # {}
    /\ \A r \in Requests :
          /\ r.bank \in BOOLEAN /\ r.policies # {} /\ r.horizons # {}
          /\ r.periods \in Seq(Int) /\ r.periods # <<>>
          /\ r.clearances \in Seq(Int) /\ r.clearances # <<>>
          /\ r.trials \in Nat \ {0}
    /\ NoSet \notin DOMAIN ResultSets
    /\ \A set \in DOMAIN ResultSets : \A a \in ResultSets[set] : a = <<a[1], a[2], a[3]>>

VARIABLES call,       \* call -> its phase, request, folder, job results, next file
          disk,       \* folder -> file -> the call that wrote it
          invalid,    \* the scenarios with an initial overlap
          faults

vars == <<call, disk, invalid, faults>>

\* The option lists are sets (main drops repeated planners and policies; a
\* repeated horizon is not modelled), except that the first period counts.

\* Fault: the manifest is written first.
FilesManifestFirst(r) == IF r.set = OneShot THEN <<"manifest", "robots", "summary">>
                         ELSE <<"manifest", "runs", "summary", "rebuild_calls">>

Files(r) == IF r.set = OneShot THEN <<"robots", "summary", "manifest">>
            ELSE <<"runs", "summary", "rebuild_calls", "manifest">>
AllFiles == {"scenarios", "robots", "runs", "summary", "rebuild_calls", "manifest"}

Idle == [phase |-> "idle", request |-> NoRequest, folder |-> NoOne, done |-> <<>>, at |-> 0]

Init ==
    /\ call = [b \in Calls |-> Idle]
    /\ disk = [f \in Folders |-> [file \in AllFiles |-> NoOne]]
    /\ invalid \in SUBSET Scenarios
    /\ faults = 0

-----------------------------------------------------------------------------
(* The grid of runs.                                                       *)

\* Plan-once never replans: one period stands for all, and with an arm
\* without prediction the predicting ones are left out.
Grid(r) ==
    {a \in r.policies \X r.horizons \X ToSet(r.periods) :
        ~(a[1] = "once" /\ (a[3] # r.periods[1] \/ (a[2] > 0 /\ 0 \in r.horizons)))}

\* The grSim branch returns before `arms' is looked at.
Arms(r) == IF r.set = OneShot THEN {<<"once", 0, 0>>}
           ELSE IF r.backend = "grsim" THEN {<<"once", 0, r.periods[1]>>}
           ELSE IF r.set \in DOMAIN ResultSets THEN ResultSets[r.set]
           ELSE Grid(r)

Clearances(r) == IF r.set = OneShot \/ r.backend = "grsim" THEN {r.clearances[1]} ELSE ToSet(r.clearances)
Trials(r) == IF r.set = OneShot THEN 1 ELSE r.trials

Jobs(r) == [scenario : Scenarios, planner : Planners, arm : Arms(r),
            clearance : Clearances(r), trial : 1 .. Trials(r)]

Label(r, j) == IF r.bank THEN Bank ELSE j.scenario

-----------------------------------------------------------------------------
(* The summary tables.                                                     *)

\* Fault: the horizon is left out of the key.
KeyWithoutHorizon(r, j) ==
    [label |-> Label(r, j), planner |-> j.planner, policy |-> j.arm[1], horizon |-> 0,
     period |-> j.arm[3], clearance |-> j.clearance]

Key(r, j) == [label |-> Label(r, j), planner |-> j.planner, policy |-> j.arm[1],
              horizon |-> j.arm[2], period |-> j.arm[3], clearance |-> j.clearance]

\* What classify_outcome calls X, whether or not its robots arrived.
Invalid == {"X", "X completed"}

\* A grSim run, which nothing classifies.
Ungraded == {"none", "none completed"}

Count(done, jobs, codes) == Cardinality({j \in jobs : done[j] \in codes})

\* summarize_outcomes: an invalid run is counted and then set aside.
Row(r, done, key) ==
    LET runs  == {j \in DOMAIN done : Key(r, j) = key}
        valid == {j \in runs : done[j] \notin Invalid}
    IN  [key |-> key, runs |-> Cardinality(runs), valid |-> Cardinality(valid),
         scenarios |-> {j.scenario : j \in runs},
         completed |-> Count(done, valid, {"S"}), incomplete |-> Count(done, valid, {"I"})]

\* summarize_results, the older table: an invalid run counts as any other.
LegacyRow(r, done, key) ==
    LET runs == {j \in DOMAIN done : Key(r, j) = key}
    IN  [key |-> key, runs |-> Cardinality(runs), scenarios |-> {j.scenario : j \in runs},
         completed |-> Count(done, runs, {"S", "X completed", "none completed"})]

\* summarize_one_shot: one row per planner.
OneShotRow(done, planner) ==
    LET calls == {j \in DOMAIN done : j.planner = planner}
    IN  [planner |-> planner, calls |-> Cardinality(calls), scenarios |-> {j.scenario : j \in calls},
         routes |-> Count(done, calls, {"route"})]

Rows(r, done) == {Row(r, done, key) : key \in {Key(r, j) : j \in DOMAIN done}}
LegacyRows(r, done) == {LegacyRow(r, done, key) : key \in {Key(r, j) : j \in DOMAIN done}}
OneShotRows(done) == {OneShotRow(done, planner) : planner \in {j.planner : j \in DOMAIN done}}

-----------------------------------------------------------------------------
(* A call.                                                                 *)

\* SimulationConfig, of which the first clearance and policy are a part.
ValidConfig(r) == r.clearances[1] >= 0

\* load_scenario_bank counts the files of the bank.
ValidBank(r) == r.expect \in {0, Cardinality(Scenarios)}

\* What main refuses before it looks at the folder.
Accepted(r) ==
    /\ r.set # NoSet => r.bank /\ r.policies = {"once"} /\ r.horizons = {0}
    /\ r.bank => ValidBank(r)
    /\ ValidConfig(r)

\* What main and run_experiments refuse once the folder is prepared: the
\* options that the first configuration is not made from.
Runnable(r) ==
    /\ \A h \in r.horizons : h >= 0
    /\ \A k \in DOMAIN r.clearances : r.clearances[k] >= 0
    /\ \A k \in DOMAIN r.periods : r.periods[k] > 0
    /\ r.backend = "grsim" => r.policies = {"once"} /\ r.horizons = {0} /\ Patrols = {}

\* Fault: any folder will do.
EmptyOrNot(f) == TRUE

Empty(f) == \A file \in AllFiles : disk[f][file] = NoOne

Active(b) == call[b].phase \notin {"idle", "ended", "failed"}

Goes(b, phase) == call' = [call EXCEPT ![b].phase = phase, ![b].done = IF phase = "failed" THEN <<>> ELSE @]

Writes(b, file) == disk' = [disk EXCEPT ![call[b].folder][file] = b]

Enter(b, r, f) ==
    /\ call[b].phase = "idle"
    /\ Overlap \/ ~\E o \in Calls : Active(o)
    /\ call' = [call EXCEPT ![b].request = r, ![b].folder = f,
                            ![b].phase = IF Accepted(r) /\ Empty(f) THEN "checked" ELSE "failed"]
    /\ UNCHANGED <<disk, invalid, faults>>

\* mkdir leaves the folder empty; loose scenarios are copied into it, a bank
\* is not, and a one-shot call makes its folder when it writes.
Prepare(b) ==
    LET r == call[b].request
    IN  /\ call[b].phase = "checked"
        /\ IF r.bank THEN UNCHANGED disk ELSE Writes(b, "scenarios")
        /\ Goes(b, IF r.set = OneShot \/ Runnable(r) THEN "running" ELSE "failed")
        /\ UNCHANGED <<invalid, faults>>

\* validate_one_shot: one initial request for the frozen scene, in which an
\* overlap is a request like any other, and nothing is executed.
OneShotOutcomes == {IF kind = "initial" THEN "route" ELSE "none" : kind \in {"initial", "failed"}}

\* classify_outcome gives X for an initial overlap, which the planner has no
\* part in; S stands for the three classes of a completed run. simulate_physics
\* tells whether the robots arrived and leaves the outcome empty.
Outcomes(r, j) == IF r.set = OneShot THEN OneShotOutcomes
                  ELSE IF r.backend = "grsim" THEN Ungraded
                  ELSE IF j.scenario \in invalid THEN Invalid ELSE {"S", "I"}

\* The pool finishes its jobs in any order; the results are put in theirs.
Finish(b) ==
    LET c == call[b]
    IN  /\ c.phase = "running"
        /\ \E j \in Jobs(c.request) \ DOMAIN c.done : \E o \in Outcomes(c.request, j) :
              call' = [call EXCEPT ![b].done =
                          [i \in DOMAIN c.done \cup {j} |-> IF i = j THEN o ELSE c.done[i]]]
        /\ UNCHANGED <<disk, invalid, faults>>

\* All results first, then the files, in order.
Write(b) ==
    LET c == call[b]
        files == Files(c.request)
    IN  /\ c.phase = "running" /\ DOMAIN c.done = Jobs(c.request)
        /\ Writes(b, files[c.at + 1])
        /\ call' = [call EXCEPT ![b].at = @ + 1,
                                ![b].phase = IF c.at + 1 = Len(files) THEN "ended" ELSE @,
                                ![b].done = IF c.at + 1 = Len(files) THEN <<>> ELSE @]
        /\ UNCHANGED <<invalid, faults>>

\* A job or a write that raises ends the call, results and all (parser.error),
\* and so does a kill.
Fail(b) ==
    /\ Active(b) /\ faults < FAULTS
    /\ faults' = faults + 1
    /\ Goes(b, "failed")
    /\ UNCHANGED <<disk, invalid>>

Next ==
    \/ \E b \in Calls : \E r \in Requests, f \in Folders : Enter(b, r, f)
    \/ \E b \in Calls : Prepare(b) \/ Finish(b) \/ Write(b) \/ Fail(b)

Spec == Init /\ [][Next]_vars

-----------------------------------------------------------------------------
(* What is required.                                                       *)

\* The rows of one label compare like with like: whatever the arms and the
\* planner, each counts the same scenarios in the same number of runs, with
\* the same runs set aside as invalid; every valid run of the built-in model has
\* one outcome; every policy that was asked for has its rows; and the older table
\* counts as completed what the newer one does and beyond that only runs to which
\* the newer one gives no class (run_experiments and summarize_outcomes:
\* "valid_runs (the matched scenarios)").
RowsAreMatched ==
    \A b \in Calls : Active(b) /\ call[b].at > 0 =>
        LET r == call[b].request
            done == call[b].done
        IN  IF r.set = OneShot
            THEN \A x, y \in OneShotRows(done) : x.scenarios = y.scenarios /\ x.calls = y.calls
            ELSE /\ \A x, y \in Rows(r, done) : x.key.label = y.key.label =>
                        x.runs = y.runs /\ x.valid = y.valid /\ x.scenarios = y.scenarios
                 /\ \A x \in Rows(r, done) :
                        /\ r.backend # "grsim" => x.completed + x.incomplete = x.valid
                        /\ \E y \in LegacyRows(r, done) :
                              /\ y.key = x.key /\ y.runs = x.runs
                              /\ y.completed - x.completed
                                    \in 0 .. x.runs - (x.completed + x.incomplete)
                 /\ r.set = NoSet => r.policies = {x.key.policy : x \in Rows(r, done)}

\* "Each run gets one outcome": no valid run of a row is neither completed nor
\* incomplete, whichever backend ran it (summarize_outcomes).
EachRunHasOneOutcome ==
    \A b \in Calls : Active(b) /\ call[b].at > 0 /\ call[b].request.set # OneShot =>
        \A x \in Rows(call[b].request, call[b].done) : x.completed + x.incomplete = x.valid

\* A manifest vouches for its folder: everything in it was written by the
\* call that wrote the manifest, the results among it, whatever failed or was
\* killed before (write_results, write_one_shot_results).
ManifestVouches ==
    \A f \in Folders : LET b == disk[f]["manifest"] IN b # NoOne =>
        /\ \A file \in AllFiles : disk[f][file] \in {b, NoOne}
        /\ \A file \in ToSet(Files(call[b].request)) : disk[f][file] = b

\* "Output directory must be new or empty to preserve previous results": a
\* finished folder never changes (the check in main).
PreviousResultsKept ==
    [][\A f \in Folders : disk[f]["manifest"] # NoOne => disk'[f] = disk[f]]_vars

=============================================================================
