---------------------------- MODULE SimulatorProofs ----------------------------
(* Proofs about the simulators the program starts: what the toolbar's control   *)
(* may rely on, for any number of processes and of console crashes and whatever *)
(* the server's loop does, and what a physics trial that passed says of the     *)
(* engine's run, for all cameras, losses, damages and exits.                    *)
EXTENDS SimulatorLink, PhysicsTrial, FiniteSetTheorems, FunctionTheorems, TLAPS

ChildStates == [at : {"boot", "dead"} \cup Bound, running : BOOLEAN,
                eof : BOOLEAN, watching : BOOLEAN, term : BOOLEAN]

\* The living child of a console is the one it holds; it has none when it joins
\* the reader. A child that is bound under this console was bound in this console's
\* time, and so was one whose line was printed; a line of any other child was left
\* to its reader before this one was started.
LinkInv ==
    /\ child \in [Procs -> ChildStates]
    /\ process \in Procs \cup {None}
    /\ checked \in BOOLEAN /\ served \in BOOLEAN /\ left \in BOOLEAN
    /\ checked <=> process # None
    /\ readers \subseteq Procs /\ lines \subseteq readers
    /\ \A c \in Mine : c = process
    /\ ui \in {"starting"} \cup Stopping => process # None
    /\ ui = "gone" => process = None
    /\ watchdog => ui = "idle" /\ checked
    /\ ui = "joining" => Mine = {}
    /\ process # None /\ child[process].at \in Bound => served
    /\ process \in lines => served
    /\ process # None /\ lines \ {process} # {} => left
    /\ process # None /\ ready => served \/ left
    /\ ui = "idle" /\ checked => served \/ left

\* The end of a child takes it from its console's hands and nothing else.
LEMMA DyingKeepsLink ==
    ASSUME LinkInv, NEW c \in Procs, Die(c),
           UNCHANGED <<reading, after, checked, watchdog, process, crashes, told>>,
           \/ UNCHANGED ui
           \/ ui = "terminated" /\ ui' = "joining" /\ c = process
    PROVE  LinkInv'
<1>1. child' = [child EXCEPT ![c] = NoChild]
  BY DEF Die
<1>2. NoChild \in ChildStates
  BY DEF NoChild, ChildStates
<1>3. /\ child' \in [Procs -> ChildStates]
      /\ child'[c].at = "dead"
      /\ \A d \in Procs \ {c} : child'[d] = child[d]
  BY <1>1, <1>2 DEF LinkInv, NoChild
<1>4. Mine' \subseteq Mine \ {c}
  BY <1>3 DEF LinkInv, Mine, Dead, reading
<1>5. ui' = "joining" => Mine' = {}
  BY <1>4 DEF LinkInv
<1>6. process' # None /\ child'[process'].at \in Bound => served'
  BY <1>3 DEF LinkInv, Bound, told
<1> QED
  BY <1>3, <1>4, <1>5, <1>6 DEF LinkInv, Stopping, reading, told

\* A step of one child that leaves it alive.
LEMMA LivingKeepsLink ==
    ASSUME LinkInv, NEW c \in Procs,
           child' \in [Procs -> ChildStates],
           \A d \in Procs \ {c} : child'[d] = child[d],
           child[c].at # "dead",
           child'[c].at \in Bound => child[c].at \in Bound,
           UNCHANGED <<checked, watchdog, process, reading, told>>,
           UNCHANGED ui \/ (ui = "closing" /\ ui' = "grace")
                        \/ (ui = "grace" /\ ui' = "terminated")
    PROVE  LinkInv'
<1>1. Mine' \subseteq Mine
  BY DEF LinkInv, Dead, Mine, reading
<1>2. process' # None /\ child'[process'].at \in Bound => served'
  BY DEF LinkInv, told
<1> QED
  BY <1>1, <1>2 DEF LinkInv, Stopping, reading, told

LEMMA StartKeepsLink ==
    ASSUME LinkInv, NEW c \in Procs, Start(c)
    PROVE  LinkInv'
<1>1. /\ ui = "idle" /\ ~checked /\ c \notin readers /\ ui' = "starting" /\ checked' = TRUE
      /\ process' = c /\ ready' = FALSE /\ readers' = readers \cup {c}
      /\ served' = FALSE /\ left' = (lines # {})
      /\ child' = [child EXCEPT ![c].at = "boot"] /\ UNCHANGED <<watchdog, lines>>
  BY DEF Start, Spawn
<1>2. process = None /\ Mine = {} /\ c # None /\ None \notin Procs
  BY <1>1, NoneIsNoProc DEF LinkInv, Mine
<1>3. /\ child' \in [Procs -> ChildStates] /\ child'[c].at = "boot"
      /\ \A d \in Procs \ {c} : child'[d] = child[d]
  BY <1>1 DEF LinkInv, ChildStates
<1>4. \A d \in Mine' : d = process'
  BY <1>1, <1>2, <1>3 DEF LinkInv, Mine, Dead
<1> QED
  BY <1>1, <1>2, <1>3, <1>4 DEF LinkInv, Stopping, Bound

LEMMA ConsoleKeepsLink ==
    ASSUME LinkInv,
           Started \/ StartFails \/ Untick \/ CheckAlive \/ Close \/ CloseIdle
             \/ Reaped \/ Stopped \/ OpenConsole
    PROVE  LinkInv'
<1> USE DEF Stopping, reading, told
<1>1. CASE Started
  BY <1>1 DEF Started, LinkInv, Mine, Dead
<1>2. CASE StartFails
  BY <1>2 DEF StartFails, LinkInv, Mine, Dead
<1>3. ASSUME NEW why, BeginStop(why), checked
      PROVE  LinkInv'
  BY <1>3 DEF BeginStop, LinkInv, Mine, Dead
<1>4. CASE CheckAlive
  BY <1>3, <1>4 DEF CheckAlive, LinkInv
<1>5. CASE CloseIdle
  BY <1>5 DEF CloseIdle, LinkInv, Mine, Dead
<1>6. CASE Reaped
  <2>1. Mine = {} /\ Mine' = {}
    BY <1>6 DEF Reaped, LinkInv, Mine, Dead
  <2> QED
    BY <1>6, <2>1 DEF Reaped, LinkInv
<1>7. CASE Stopped
  <2>1. Mine = {} /\ Mine' = {} /\ process' = None /\ checked' = FALSE
        /\ ui' \in {"idle", "gone"}
    BY <1>7 DEF Stopped, LinkInv, Mine, Dead
  <2>2. None \notin lines
    BY NoneIsNoProc DEF LinkInv
  <2> QED
    BY <1>7, <2>1, <2>2 DEF Stopped, LinkInv
<1>8. CASE OpenConsole
  BY <1>8 DEF OpenConsole, LinkInv, Mine, Dead
<1> QED
  BY <1>1, <1>2, <1>3, <1>4, <1>5, <1>6, <1>7, <1>8 DEF Untick, Close, LinkInv

LEMMA StoppingKeepsLink ==
    ASSUME LinkInv, CloseStdin \/ Terminate \/ Kill
    PROVE  LinkInv'
<1>1. ui \in Stopping /\ process \in Procs
  BY DEF CloseStdin, Terminate, Kill, Stopping, LinkInv
<1>2. CASE CloseStdin /\ Dead(process)
  <2>1. Mine = {} /\ Mine' = {}
    BY <1>2 DEF LinkInv, Mine, CloseStdin, Dead, reading
  <2> QED
    BY <1>2, <2>1 DEF CloseStdin, LinkInv, Dead, Stopping, reading, told
<1>3. CASE CloseStdin /\ ~Dead(process)
  <2>1. /\ child' = [child EXCEPT ![process].eof = TRUE]
        /\ ui = "closing" /\ ui' = "grace"
        /\ UNCHANGED <<checked, watchdog, process, reading, told>>
    BY <1>3 DEF CloseStdin
  <2>2. /\ child' \in [Procs -> ChildStates] /\ child'[process].at = child[process].at
        /\ \A d \in Procs \ {process} : child'[d] = child[d]
    BY <1>1, <2>1 DEF LinkInv, ChildStates
  <2> QED
    BY <1>1, <1>3, <2>1, <2>2, LivingKeepsLink DEF Dead
<1>4. CASE Terminate
  <2>1. /\ child' = [child EXCEPT ![process].term = TRUE] /\ ~Dead(process)
        /\ ui = "grace" /\ ui' = "terminated"
        /\ UNCHANGED <<checked, watchdog, process, reading, told>>
    BY <1>4 DEF Terminate
  <2>2. /\ child' \in [Procs -> ChildStates] /\ child'[process].at = child[process].at
        /\ \A d \in Procs \ {process} : child'[d] = child[d]
    BY <1>1, <2>1 DEF LinkInv, ChildStates
  <2> QED
    BY <1>1, <2>1, <2>2, LivingKeepsLink DEF Dead
<1>5. CASE Kill
  BY <1>1, <1>5, DyingKeepsLink DEF Kill
<1> QED
  BY <1>2, <1>3, <1>4, <1>5

\* A reader sets the event for the child it reads, which is the console's own or
\* one that was left to it.
LEMMA ReaderKeepsLink ==
    ASSUME LinkInv, NEW c \in Procs, ReaderStep(c)
    PROVE  LinkInv'
<1> USE DEF console, told
<1>1. CASE ReadLine(c)
  <2>1. c \in lines /\ (process # None => served \/ left)
    BY <1>1 DEF ReadLine, LinkInv
  <2>2. Mine' = Mine
    BY <1>1 DEF ReadLine, Mine, Dead
  <2> QED
    BY <1>1, <2>1, <2>2 DEF ReadLine, LinkInv
<1>2. CASE ReadEnds(c)
  <2>1. Mine' = Mine
    BY <1>2 DEF ReadEnds, Mine, Dead
  <2> QED
    BY <1>2, <2>1 DEF ReadEnds, LinkInv
<1> QED
  BY <1>1, <1>2 DEF ReaderStep

LEMMA BindKeepsLink ==
    ASSUME LinkInv, NEW c \in Procs, Bind(c)
    PROVE  LinkInv'
<1>1. CASE \E d \in Procs : child[d].at \in Bound
  BY <1>1, DyingKeepsLink DEF Bind, console, told
<1>2. CASE ~\E d \in Procs : child[d].at \in Bound
  <2>1. /\ child[c].at = "boot"
        /\ child' = [child EXCEPT ![c].at = "bound", ![c].watching = TRUE]
        /\ served' = (served \/ process = c)
        /\ UNCHANGED <<ui, checked, watchdog, process, reading, left>>
    BY <1>2 DEF Bind, console
  <2>2. /\ child' \in [Procs -> ChildStates] /\ child'[c].at = "bound"
        /\ \A d \in Procs \ {c} : child'[d] = child[d]
    <3> DEFINE s == [child[c] EXCEPT !.at = "bound", !.watching = TRUE]
    <3>1. child \in [Procs -> ChildStates] /\ child' = [child EXCEPT ![c] = s]
      BY <2>1 DEF LinkInv
    <3>2. s \in ChildStates /\ s.at = "bound"
      BY <3>1 DEF ChildStates, Bound
    <3> HIDE DEF s
    <3> QED
      BY <3>1, <3>2
  <2>3. Mine' = Mine
    BY <2>1, <2>2 DEF LinkInv, Dead, Mine, reading
  <2>4. served' \in BOOLEAN /\ (served => served')
    BY <2>1 DEF LinkInv
  <2>5. process' # None /\ child'[process'].at \in Bound => served'
    BY <2>1, <2>2, <2>4 DEF LinkInv
  <2> QED
    BY <2>1, <2>2, <2>3, <2>4, <2>5 DEF LinkInv, reading
<1> QED
  BY <1>1, <1>2

LEMMA AnnounceKeepsLink ==
    ASSUME LinkInv, NEW c \in Procs, Announce(c)
    PROVE  LinkInv'
<1>1. CASE c \in readers
  <2>1. /\ child[c].at = "bound" /\ c \in Mine /\ lines' = lines \cup {c}
        /\ child' = [child EXCEPT ![c].at = "announced"]
        /\ UNCHANGED <<ui, checked, watchdog, process, ready, readers, served, left>>
    BY <1>1 DEF Announce, console, told, Mine, Dead
  <2>2. c = process /\ process # None /\ served
    BY <2>1, NoneIsNoProc DEF LinkInv, Bound
  <2>3. /\ child' \in [Procs -> ChildStates] /\ child'[c].at = "announced"
        /\ \A d \in Procs \ {c} : child'[d] = child[d]
    BY <2>1 DEF LinkInv, ChildStates, Bound
  <2>4. Mine' = Mine
    BY <2>1, <2>3 DEF LinkInv, Dead, Mine
  <2> QED
    BY <1>1, <2>1, <2>2, <2>3, <2>4 DEF LinkInv
<1>2. CASE c \notin readers
  BY <1>2, DyingKeepsLink DEF Announce, console, reading
<1> QED
  BY <1>1, <1>2

LEMMA ChildKeepsLink ==
    ASSUME LinkInv, NEW c \in Procs,
           EnterRun(c) \/ StdinEnds(c) \/ Signalled(c) \/ LeaveRun(c) \/ ChildCrash(c)
    PROVE  LinkInv'
<1>1. CASE EnterRun(c)
  <2>1. /\ child[c].at = "announced"
        /\ child' = [child EXCEPT ![c].at = "loop", ![c].running = TRUE]
        /\ UNCHANGED <<ui, checked, watchdog, process, reading, told>>
    BY <1>1 DEF EnterRun, console
  <2>2. /\ child' \in [Procs -> ChildStates] /\ child'[c].at = "loop"
        /\ \A d \in Procs \ {c} : child'[d] = child[d]
    <3> DEFINE s == [child[c] EXCEPT !.at = "loop", !.running = TRUE]
    <3>1. child \in [Procs -> ChildStates] /\ child' = [child EXCEPT ![c] = s]
      BY <2>1 DEF LinkInv
    <3>2. s \in ChildStates /\ s.at = "loop"
      BY <3>1 DEF ChildStates, Bound
    <3> HIDE DEF s
    <3> QED
      BY <3>1, <3>2
  <2> QED
    BY <2>1, <2>2, LivingKeepsLink DEF Bound
<1>2. ASSUME child[c].watching \/ child[c].term,
             \/ child' = [child EXCEPT ![c].watching = FALSE, ![c].running = FALSE]
             \/ child' = [child EXCEPT ![c].term = FALSE, ![c].running = FALSE],
             UNCHANGED <<ui, checked, watchdog, process, reading, told>>
      PROVE  LinkInv'
  <2> DEFINE stops == [child[c] EXCEPT !.watching = FALSE, !.running = FALSE]
             handled == [child[c] EXCEPT !.term = FALSE, !.running = FALSE]
  <2>a. child[c] \in ChildStates
    BY DEF LinkInv
  <2>b. /\ stops \in ChildStates /\ stops.at = child[c].at
        /\ handled \in ChildStates /\ handled.at = child[c].at
    BY <2>a DEF ChildStates
  <2>c. child' = [child EXCEPT ![c] = stops] \/ child' = [child EXCEPT ![c] = handled]
    BY <1>2
  <2> HIDE DEF stops, handled
  <2>1. /\ child' \in [Procs -> ChildStates] /\ child'[c].at = child[c].at
        /\ \A d \in Procs \ {c} : child'[d] = child[d]
    BY <2>b, <2>c DEF LinkInv
  <2>2. Mine' = Mine
    BY <1>2, <2>1 DEF LinkInv, Dead, Mine, reading
  <2>3. process' # None /\ child'[process'].at \in Bound => served'
    BY <1>2, <2>1 DEF LinkInv, told
  <2> QED
    BY <1>2, <2>1, <2>2, <2>3 DEF LinkInv, reading, told
<1>3. CASE StdinEnds(c)
  BY <1>2, <1>3 DEF StdinEnds, console
<1>4. CASE Signalled(c) /\ child[c].at = "boot"
  BY <1>4, DyingKeepsLink DEF Signalled, console
<1>5. CASE Signalled(c) /\ child[c].at # "boot"
  BY <1>2, <1>5 DEF Signalled, console
<1>6. CASE LeaveRun(c) \/ ChildCrash(c)
  BY <1>6, DyingKeepsLink DEF LeaveRun, ChildCrash, console
<1> QED
  BY <1>1, <1>3, <1>4, <1>5, <1>6

LEMMA CrashKeepsLink ==
    ASSUME LinkInv, ConsoleCrash
    PROVE  LinkInv'
<1>1. child' \in [Procs -> ChildStates]
  <2>1. child' = [c \in Procs |-> [child[c] EXCEPT !.eof = ~Dead(c)]]
    BY DEF ConsoleCrash
  <2>2. ASSUME NEW c \in Procs
        PROVE  [child[c] EXCEPT !.eof = ~Dead(c)] \in ChildStates
    <3>1. child[c] \in ChildStates /\ (~Dead(c)) \in BOOLEAN
      BY DEF LinkInv
    <3> QED
      BY <3>1 DEF ChildStates
  <2> QED
    BY <2>1, <2>2
<1> QED
  BY <1>1, NoneIsNoProc DEF ConsoleCrash, LinkInv, Stopping, Mine

LEMMA StepsKeepLink ==
    ASSUME LinkInv, [Next]_vars
    PROVE  LinkInv'
<1>1. CASE UNCHANGED <<console, reading, child, told>>
  BY <1>1 DEF LinkInv, console, reading, told, Dead, Mine
<1>2. UNCHANGED vars \/ LoopDrain \/ LoopTick \/ LoopCycle \/ LoopStep =>
        UNCHANGED <<console, reading, child, told>>
  BY DEF vars, LoopDrain, LoopTick, LoopCycle, LoopStep, Idle
<1> QED
  BY <1>1, <1>2, StartKeepsLink, ConsoleKeepsLink, StoppingKeepsLink, ReaderKeepsLink,
     BindKeepsLink, AnnounceKeepsLink, ChildKeepsLink, CrashKeepsLink
  DEF Next, User, StopStep, ChildStep

LEMMA LinkStarts == Init => LinkInv
<1> SUFFICES ASSUME Init PROVE LinkInv
  OBVIOUS
<1>1. NoChild \in ChildStates
  BY DEF NoChild, ChildStates
<1>2. child \in [Procs -> ChildStates]
  BY <1>1 DEF Init
<1>3. /\ ui = "idle" /\ checked = FALSE /\ watchdog = FALSE /\ process = None
      /\ ready = FALSE /\ readers = {} /\ lines = {} /\ served = FALSE /\ left = FALSE
  BY DEF Init
<1> QED
  BY <1>2, <1>3, NoneIsNoProc DEF LinkInv, Stopping, Mine

LEMMA LinkHolds == Spec => []LinkInv
  BY LinkStarts, StepsKeepLink, PTL DEF Spec

\* A console that shows no simulator of its own has none: no failed start, lost
\* signal or crash leaves it a child that holds the ports.
THEOREM NothingIsLeftBehind == Spec => []NoChildLeftBehind
<1>1. LinkInv => NoChildLeftBehind
  BY NoneIsNoProc DEF LinkInv, NoChildLeftBehind, Mine
<1> QED
  BY <1>1, LinkHolds, PTL

\* A start that succeeds is of a child that has bound the command port, however
\* late the threads read that stop() has given up, unless one of them still had a
\* ready line before it when the child was started.
THEOREM StartsAreBound == Spec => []StartedMeansBound
<1>1. LinkInv => StartedMeansBound
  BY DEF LinkInv, StartedMeansBound
<1> QED
  BY <1>1, LinkHolds, PTL

--------------------------------------------------------------------------------
(* The physics trial. *)

\* What the next tick makes of the history that travels with the scenes.
Follows(o, n) ==
    /\ n.contactAt = IF n.scene = "contact" THEN n.frame ELSE o.contactAt
    /\ n.homeSince = IF n.scene # "home" THEN 0
                     ELSE IF o.homeSince = 0 THEN n.frame ELSE o.homeSince

\* H is what the engine has published: one observation for every tick.
Published(H, e) ==
    /\ H \in [1..e.tick -> Observations]
    /\ \A t \in 1..e.tick :
          /\ H[t].frame = t
          /\ H[t].contactAt <= t /\ (H[t].scene # "contact" => H[t].contactAt < t)
          /\ H[t].homeSince <= t /\ (H[t].scene = "home" => H[t].homeSince # 0)
    /\ \A t \in 1..e.tick : t > 1 => Follows(H[t - 1], H[t])
    /\ e.tick # 0 => e.contactAt = H[e.tick].contactAt /\ e.homeSince = H[e.tick].homeSince

\* o is one of the observations published.
In(o, H) == o.frame \in DOMAIN H /\ o = H[o.frame]

\* The engine and its history, typed.
EngineType == /\ engine \in [alive : BOOLEAN, tick : 0..MAX_TICKS, placed : BOOLEAN,
                             scene : Scenes \cup {"reset"},
                             contactAt : 0..MAX_TICKS, homeSince : 0..MAX_TICKS]
              /\ engine.contactAt \in 0..engine.tick /\ engine.homeSince \in 0..engine.tick

\* All that the runner has or will read was published.
HistoryInv ==
    \E H : /\ Published(H, engine)
           /\ \A i \in 1..Len(wire) : In(wire[i].obs, H)
           /\ current # NoObs => In(current, H)

\* What each phase of simulate_physics knows of the assembler and the frames.
RunnerInv ==
    /\ asm.emitted \in Nat /\ asm.incomplete \in Nat
    /\ counts.missed \in Nat /\ counts.contacts \in Nat /\ counts.baseline \in Nat
    /\ settled \in Nat /\ first \in Nat
    /\ (phase = "done") <=> (verdict.status # "none")
    /\ phase \in {"asked", "starting", "initial"} => current = NoObs
    /\ phase \in {"placing", "running"} => current # NoObs /\ current.frame = asm.emitted
    /\ phase \in {"asked", "starting", "initial", "placing"} => ~touching
    /\ phase = "running" => (touching <=> current.scene = "contact")

\* Nothing was missed and no contact was seen: then there was none since the
\* first frame, and robots that count as settled have rested since before that.
CleanSoFar ==
    counts.missed = 0 /\ counts.contacts = 0 =>
        /\ current.scene # "contact" /\ current.contactAt < first
        /\ settled # 0 => /\ current.scene = "home" /\ current.homeSince # 0
                          /\ current.homeSince <= settled

\* The inductive invariant.
TrialInv ==
    /\ wire \in Seq([cam : Cams, obs : Observations])
    /\ EngineType /\ HistoryInv /\ RunnerInv
    /\ phase = "running" => CleanSoFar
    /\ verdict.passed => phase = "done"
    /\ PassedMeansClean

--------------------------------------------------------------------------------

\* Max of two naturals.
LEMMA MaxIsAbove ==
    ASSUME NEW a \in Int, NEW S, S \in {{a}} \cup {{a} \cup {b} : b \in Int}
    PROVE  Max(S) \in S /\ Max(S) \in Int /\ Max(S) >= a
<1>1. \E m \in S : \A y \in S : m >= y
  OBVIOUS
<1>2. Max(S) \in S /\ \A y \in S : Max(S) >= y
  BY <1>1 DEF Max
<1> QED
  BY <1>2

\* SetToSeq of a finite set holds elements of the set.
LEMMA SetToSeqIsIn ==
    ASSUME NEW S, IsFiniteSet(S)
    PROVE  SetToSeq(S) \in Seq(S)
<1>1. PICK n \in Nat : ExistsBijection(1..n, S)
  BY FS_NatBijection
<1>2. n = Cardinality(S)
  BY <1>1, FS_CountingElements
<1>3. PICK f : f \in Bijection(1..n, S)
  BY <1>1 DEF ExistsBijection
<1>4. f \in [1..Cardinality(S) -> S] /\ IsInjective(f)
  BY <1>2, <1>3 DEF Bijection, Injection, Surjection, IsInjective
<1>5. SetToSeq(S) \in [1..Cardinality(S) -> S]
  BY <1>4 DEF SetToSeq
<1> QED
  BY <1>1, <1>2, <1>5

\* A sequence over S is one over any larger set.
LEMMA WiderSeq ==
    ASSUME NEW S, NEW T, S \subseteq T, NEW s \in Seq(S)
    PROVE  s \in Seq(T)
<1>1. Len(s) \in Nat /\ s \in [1..Len(s) -> T]
  OBVIOUS
<1> QED
  BY <1>1

\* The detections of one tick.
LEMMA DetectionsAre ==
    ASSUME NEW C \in SUBSET Cams, NEW obs \in Observations
    PROVE  /\ Detections(C, obs) \in Seq([cam : Cams, obs : Observations])
           /\ \A i \in 1..Len(Detections(C, obs)) : Detections(C, obs)[i].obs = obs
<1> DEFINE D == {[cam |-> c, obs |-> obs] : c \in C}
           f == [c \in C |-> [cam |-> c, obs |-> obs]]
<1>1. IsFiniteSet(C)
  BY TrialBounds, FS_Subset
<1>2. f \in Surjection(C, D)
  BY DEF Surjection
<1>3. IsFiniteSet(D)
  BY <1>1, <1>2, FS_Surjection
<1>4. \A d \in D : d \in [cam : Cams, obs : Observations] /\ d.obs = obs
  OBVIOUS
<1>5. Detections(C, obs) = SetToSeq(D)
  BY DEF Detections
<1> HIDE DEF D
<1>6. SetToSeq(D) \in Seq(D)
  BY <1>3, SetToSeqIsIn
<1>7. SetToSeq(D) \in Seq([cam : Cams, obs : Observations])
  BY <1>4, <1>6, WiderSeq
<1>8. \A i \in 1..Len(SetToSeq(D)) : SetToSeq(D)[i] \in D
  BY <1>6
<1> QED
  BY <1>4, <1>5, <1>7, <1>8

--------------------------------------------------------------------------------
\* The engine's next tick extends the history.
Extended(H, n) == [t \in 1..n.frame |-> IF t = n.frame THEN n ELSE H[t]]

\* The history so extended is the history of the engine after its tick.
LEMMA TickExtends ==
    ASSUME NEW H, EngineType, Published(H, engine), engine.tick < MAX_TICKS,
           NEW n, n.frame = engine.tick + 1, n \in Observations,
           Follows(engine, n), NEW e, e.tick = engine.tick + 1,
           e.contactAt = n.contactAt, e.homeSince = n.homeSince
    PROVE  /\ Published(Extended(H, n), e)
           /\ \A o : In(o, H) => In(o, Extended(H, n))
           /\ In(n, Extended(H, n))
<1> DEFINE G == Extended(H, n)
           k == engine.tick
<1>1. k \in Nat /\ e.tick = k + 1 /\ MAX_TICKS \in Nat
  BY TrialBounds DEF EngineType
<1>2. H \in [1..k -> Observations] /\ G \in [1..e.tick -> Observations]
  BY <1>1 DEF Published, Extended
<1>3. G[k + 1] = n /\ \A t \in 1..k : G[t] = H[t]
  BY <1>1 DEF Extended
<1> HIDE DEF G
<1>4. ASSUME NEW o, In(o, H) PROVE In(o, G)
  BY <1>1, <1>2, <1>3, <1>4 DEF In
<1>5. In(n, G)
  BY <1>1, <1>2, <1>3 DEF In
<1>6. /\ k # 0 => engine.contactAt = H[k].contactAt /\ engine.homeSince = H[k].homeSince
      /\ n.contactAt \in Int /\ n.homeSince \in Int
      /\ engine.contactAt \in 0..k /\ engine.homeSince \in 0..k
  BY DEF Published, Observations, EngineType
<1>7. /\ n.contactAt <= k + 1 /\ (n.scene # "contact" => n.contactAt < k + 1)
      /\ n.homeSince <= k + 1 /\ (n.scene = "home" => n.homeSince # 0)
  BY <1>1, <1>6 DEF Follows
<1>8. \A t \in 1..k + 1 :
          /\ G[t].frame = t
          /\ G[t].contactAt <= t /\ (G[t].scene # "contact" => G[t].contactAt < t)
          /\ G[t].homeSince <= t /\ (G[t].scene = "home" => G[t].homeSince # 0)
  BY <1>1, <1>3, <1>7 DEF Published
<1>9. ASSUME NEW t \in 1..k + 1, t > 1 PROVE Follows(G[t - 1], G[t])
  <2>1. CASE t = k + 1
    BY <1>1, <1>3, <1>6, <1>9, <2>1 DEF Follows
  <2>2. CASE t # k + 1
    BY <1>1, <1>3, <1>9, <2>2 DEF Published
  <2> QED
    BY <2>1, <2>2
<1>10. Published(G, e)
  BY <1>1, <1>2, <1>3, <1>8, <1>9 DEF Published
<1> QED
  BY <1>4, <1>5, <1>10 DEF G

\* A tick adds detections of the engine's new observation to the wire.
LEMMA EngineTickIs ==
    ASSUME EngineTick
    PROVE  \E scene \in Scenes \cup {"reset"}, lost \in SUBSET Cams :
              /\ engine'.tick = engine.tick + 1
              /\ engine'.contactAt = Shown(scene).contactAt
              /\ engine'.homeSince = Shown(scene).homeSince
              /\ \E placed \in {engine.placed, phase # "initial"} :
                    engine' = [alive |-> TRUE, tick |-> engine.tick + 1, placed |-> placed,
                               scene |-> scene, contactAt |-> Shown(scene).contactAt,
                               homeSince |-> Shown(scene).homeSince]
              /\ wire' = wire \o Detections(Cams \ lost, Shown(scene))
<1>1. PICK placed \in {engine.placed, phase # "initial"},
           scene \in UNION {Scenes, {"reset"}} :
          /\ engine' = [alive |-> TRUE, tick |-> engine.tick + 1, placed |-> placed, scene |-> scene,
                        contactAt |-> Shown(scene).contactAt, homeSince |-> Shown(scene).homeSince]
          /\ \E lost \in SUBSET Cams : wire' = wire \o Detections(Cams \ lost, Shown(scene))
  <2> DEFINE Told(placed, scene) ==
          /\ engine' = [alive |-> TRUE, tick |-> engine.tick + 1, placed |-> placed, scene |-> scene,
                        contactAt |-> Shown(scene).contactAt, homeSince |-> Shown(scene).homeSince]
          /\ \E lost \in SUBSET Cams : wire' = wire \o Detections(Cams \ lost, Shown(scene))
  <2>1. \E placed \in {engine.placed, phase # "initial"} :
            \E scene \in IF placed THEN Scenes ELSE {"reset"} : Told(placed, scene)
    BY DEF EngineTick
  <2> HIDE DEF Told
  <2>2. \E placed \in {engine.placed, phase # "initial"} :
            \E scene \in UNION {Scenes, {"reset"}} : Told(placed, scene)
    BY <2>1
  <2> QED
    BY <2>2 DEF Told
<1>2. scene \in Scenes \cup {"reset"}
  OBVIOUS
<1> QED
  BY <1>1, <1>2

\* A tick keeps the invariant.
LEMMA EngineTickKeeps ==
    ASSUME TrialInv, EngineTick
    PROVE  TrialInv'
<1>1. PICK scene \in Scenes \cup {"reset"}, lost \in SUBSET Cams :
              /\ engine'.tick = engine.tick + 1
              /\ engine'.contactAt = Shown(scene).contactAt
              /\ engine'.homeSince = Shown(scene).homeSince
              /\ \E placed \in {engine.placed, phase # "initial"} :
                    engine' = [alive |-> TRUE, tick |-> engine.tick + 1, placed |-> placed,
                               scene |-> scene, contactAt |-> Shown(scene).contactAt,
                               homeSince |-> Shown(scene).homeSince]
              /\ wire' = wire \o Detections(Cams \ lost, Shown(scene))
  BY EngineTickIs
<1> DEFINE n == Shown(scene)
           D == Detections(Cams \ lost, n)
<1>2. UNCHANGED <<asm, request, failed, phase, trial>> /\ engine.tick < MAX_TICKS
  BY DEF EngineTick
<1>3. MAX_TICKS \in Nat /\ engine.tick \in 0..MAX_TICKS
      /\ engine.contactAt \in 0..engine.tick /\ engine.homeSince \in 0..engine.tick
  BY TrialBounds DEF TrialInv, EngineType
<1>4. /\ n.frame = engine.tick + 1 /\ n.scene = scene
      /\ n.contactAt = IF scene = "contact" THEN engine.tick + 1 ELSE engine.contactAt
      /\ n.homeSince = IF scene # "home" THEN 0
                       ELSE IF engine.homeSince = 0 THEN engine.tick + 1 ELSE engine.homeSince
  BY DEF Shown
<1>5. n \in Observations
  <2>1. /\ engine.tick + 1 \in 1..MAX_TICKS
        /\ n.contactAt \in 0..MAX_TICKS /\ n.homeSince \in 0..MAX_TICKS
    BY <1>2, <1>3, <1>4
  <2> QED
    BY <2>1 DEF Shown, Observations
<1>6. Follows(engine, n)
  BY <1>4 DEF Follows
<1>7. /\ engine'.tick = engine.tick + 1
      /\ engine'.contactAt = n.contactAt /\ engine'.homeSince = n.homeSince
      /\ wire' = wire \o D
  BY <1>1
<1> HIDE DEF n
<1>71. EngineType'
  <2>1. PICK placed \in {engine.placed, phase # "initial"} :
            engine' = [alive |-> TRUE, tick |-> engine.tick + 1, placed |-> placed,
                       scene |-> scene, contactAt |-> n.contactAt, homeSince |-> n.homeSince]
    BY <1>1 DEF n
  <2>2. placed \in BOOLEAN
    BY DEF TrialInv, EngineType
  <2> QED
    BY <1>2, <1>3, <1>4, <1>7, <2>1, <2>2 DEF EngineType
<1>8. D \in Seq([cam : Cams, obs : Observations]) /\ \A i \in 1..Len(D) : D[i].obs = n
  <2>1. Cams \ lost \in SUBSET Cams
    OBVIOUS
  <2> QED
    BY <1>5, <2>1, DetectionsAre
<1> HIDE DEF D
<1>10. wire' \in Seq([cam : Cams, obs : Observations])
  BY <1>7, <1>8 DEF TrialInv
<1>11. PICK H : /\ Published(H, engine)
                /\ \A i \in 1..Len(wire) : In(wire[i].obs, H)
                /\ current # NoObs => In(current, H)
  BY DEF TrialInv, HistoryInv
<1> DEFINE G == Extended(H, n)
<1>12. /\ Published(G, engine')
       /\ \A o : In(o, H) => In(o, G)
       /\ In(n, G)
  <2>1. EngineType
    BY DEF TrialInv
  <2> QED
    BY <1>2, <1>4, <1>5, <1>6, <1>7, <1>11, <2>1, TickExtends
<1> HIDE DEF G
<1>13. ASSUME NEW i \in 1..Len(wire') PROVE In(wire'[i].obs, G)
  <2>1. /\ Len(wire) \in Nat /\ Len(D) \in Nat /\ Len(wire') = Len(wire) + Len(D)
        /\ wire'[i] = IF i <= Len(wire) THEN wire[i] ELSE D[i - Len(wire)]
    BY <1>7, <1>8 DEF TrialInv
  <2>2. CASE i <= Len(wire)
    BY <1>11, <1>12, <2>1, <2>2
  <2>3. CASE i > Len(wire)
    <3>1. i - Len(wire) \in 1..Len(D)
      BY <2>1, <2>3
    <3>2. D[i - Len(wire)].obs = n
      BY <1>8, <3>1
    <3> QED
      BY <1>12, <2>1, <2>3, <3>2
  <2> QED
    BY <2>1, <2>2, <2>3
<1>14. HistoryInv'
  BY <1>2, <1>11, <1>12, <1>13 DEF HistoryInv, trial
<1>15. RunnerInv' /\ (phase = "running" => CleanSoFar)' /\ PassedMeansClean'
       /\ (verdict.passed => phase = "done")'
  BY <1>2 DEF TrialInv, RunnerInv, CleanSoFar, PassedMeansClean, trial
<1> QED
  BY <1>71, <1>10, <1>14, <1>15 DEF TrialInv

--------------------------------------------------------------------------------
\* The runner takes from the wire what the engine published, or leaves it there.
LEMMA ReadingKeepsHistory ==
    ASSUME TrialInv,
           engine' = [engine EXCEPT !.alive = engine'.alive], engine'.alive \in BOOLEAN,
           wire' = wire \/ (wire # <<>> /\ wire' = Tail(wire)),
           current' = current \/ (wire # <<>> /\ current' = Head(wire).obs)
    PROVE  /\ wire' \in Seq([cam : Cams, obs : Observations])
           /\ EngineType' /\ HistoryInv'
<1>1. /\ EngineType' /\ wire \in Seq([cam : Cams, obs : Observations])
      /\ engine'.tick = engine.tick /\ engine'.contactAt = engine.contactAt
      /\ engine'.homeSince = engine.homeSince
  BY DEF TrialInv, EngineType
<1>2. PICK H : /\ Published(H, engine)
               /\ \A i \in 1..Len(wire) : In(wire[i].obs, H)
               /\ current # NoObs => In(current, H)
  BY DEF TrialInv, HistoryInv
<1>3. Published(H, engine')
  BY <1>1, <1>2 DEF Published
<1>4. wire # <<>> => Head(wire) = wire[1] /\ 1 \in 1..Len(wire)
  BY <1>1
<1>5. current' # NoObs => In(current', H)
  BY <1>2, <1>4
<1>6. /\ wire' \in Seq([cam : Cams, obs : Observations])
      /\ \A i \in 1..Len(wire') : \E j \in 1..Len(wire) : wire'[i] = wire[j]
  <2>1. CASE wire' = wire
    BY <1>1, <2>1
  <2>2. CASE wire # <<>> /\ wire' = Tail(wire)
    <3>1. /\ wire' \in Seq([cam : Cams, obs : Observations])
          /\ Len(wire') = Len(wire) - 1 /\ Len(wire) \in Nat
          /\ \A i \in 1..Len(wire') : wire'[i] = wire[i + 1]
      BY <1>1, <2>2
    <3>2. \A i \in 1..Len(wire') : i + 1 \in 1..Len(wire)
      BY <3>1
    <3> QED
      BY <3>1, <3>2
  <2> QED
    BY <2>1, <2>2
<1>7. \A i \in 1..Len(wire') : In(wire'[i].obs, H)
  BY <1>2, <1>6
<1> QED
  BY <1>1, <1>3, <1>5, <1>6, <1>7 DEF HistoryInv

\* A frame that is given out is newer than any before it.
LEMMA PushedIs ==
    ASSUME TrialInv, NEW d \in [cam : Cams, obs : Observations], ~Ignored(d)
    PROVE  /\ Pushed(d).emitted \in Nat /\ Pushed(d).incomplete \in Nat
           /\ ~Emits(d) => Pushed(d).emitted = asm.emitted
           /\ Emits(d) => Pushed(d).emitted = d.obs.frame /\ d.obs.frame > asm.emitted
<1>1. d.obs.frame \in Nat /\ asm.emitted \in Nat /\ asm.incomplete \in Nat
  BY TrialBounds DEF Observations, TrialInv, RunnerInv
<1>2. ~(d.obs.frame <= asm.emitted)
  BY DEF Ignored
<1> DEFINE new == d.obs.frame # asm.frame
           parts == (IF new THEN {} ELSE asm.parts) \cup {d.cam}
<1>3. /\ Pushed(d).emitted = IF parts = Cams THEN d.obs.frame ELSE asm.emitted
      /\ Pushed(d).incomplete = asm.incomplete + (IF new /\ asm.parts # {} THEN 1 ELSE 0)
  BY DEF Pushed
<1> QED
  BY <1>1, <1>2, <1>3 DEF Emits

\* An error ends the trial and it has not passed.
LEMMA FailureKeeps ==
    ASSUME TrialInv, Fails, asm'.emitted \in Nat, asm'.incomplete \in Nat,
           wire' = wire \/ (wire # <<>> /\ wire' = Tail(wire))
    PROVE  TrialInv'
<1>1. engine' = [engine EXCEPT !.alive = engine'.alive] /\ engine'.alive \in BOOLEAN
  BY DEF Fails, TrialInv, EngineType
<1>2. /\ wire' \in Seq([cam : Cams, obs : Observations])
      /\ EngineType' /\ HistoryInv'
  BY <1>1, ReadingKeepsHistory DEF Fails
<1>3. phase' = "done" /\ verdict'.status = "physics_error" /\ verdict'.passed = FALSE
  BY DEF Fails, Verdict
<1> QED
  BY <1>2, <1>3 DEF TrialInv, RunnerInv, PassedMeansClean, Fails

--------------------------------------------------------------------------------

\* A trial passes if it completed with nothing missed and no contact.
LEMMA VerdictIs ==
    ASSUME NEW completed \in BOOLEAN, NEW measured
    PROVE  /\ Verdict(FALSE, completed, measured).status # "none"
           /\ Verdict(FALSE, completed, measured).passed =>
                  completed /\ measured.missed = 0 /\ measured.contacts = 0
BY DEF Verdict

\* One pass of the measuring loop keeps what it knows of the ticks so far.
LEMMA IterateKeeps ==
    ASSUME TrialInv, NEW prev, NEW obs \in Observations, NEW incomplete \in Nat,
           NEW H, Published(H, engine), In(obs, H),
           \/ phase = "placing" /\ prev = NoObs
           \/ phase = "running" /\ prev = current /\ In(current, H) /\ current.frame < obs.frame,
           Iterate(prev, obs, incomplete),
           asm'.emitted = obs.frame, asm'.incomplete \in Nat
    PROVE  /\ RunnerInv' /\ (phase = "running" => CleanSoFar)'
           /\ (verdict.passed => phase = "done")' /\ PassedMeansClean'
<1> DEFINE gap == IF prev = NoObs THEN 0 ELSE Gap(prev, obs)
           contact == obs.scene = "contact"
           contacts == counts.contacts + (IF contact /\ ~touching THEN 1 ELSE 0)
           since == IF ~Rested(prev, obs) THEN 0 ELSE IF settled = 0 THEN obs.frame ELSE settled
           start == IF prev = NoObs THEN obs.frame ELSE first
           completed == since # 0 /\ obs.frame - since >= SETTLE
           ends == completed \/ failed \/ obs.frame - start >= MAX_SIM
           baseline == Baseline(prev, incomplete)
           missed == Max({counts.missed + gap} \cup IF ends THEN {incomplete - baseline} ELSE {})
<1>1. /\ current' = obs /\ settled' = since /\ first' = start /\ touching' = contact
      /\ counts'.missed = missed /\ counts'.contacts = contacts /\ counts'.baseline = baseline
      /\ ends => phase' = "done" /\ verdict' = Verdict(FALSE, completed, counts')
      /\ ~ends => phase' = "running" /\ verdict' = verdict
  BY DEF Iterate
<1>2. /\ counts.missed \in Nat /\ counts.contacts \in Nat /\ counts.baseline \in Nat
      /\ settled \in Nat /\ first \in Nat
      /\ phase \in {"placing", "running"} /\ verdict.status = "none" /\ verdict.passed = FALSE
  BY DEF TrialInv, RunnerInv
<1>3. obs.frame \in Nat \ {0} /\ obs.contactAt \in Nat /\ obs.homeSince \in Nat
  BY TrialBounds DEF Observations
<1>4. obs # NoObs
  BY NoObsAssumption
<1>5. /\ obs.scene # "contact" => obs.contactAt < obs.frame
      /\ obs.scene = "home" => obs.homeSince # 0 /\ obs.homeSince <= obs.frame
  BY DEF Published, In
<1>6. ASSUME phase = "running"
      PROVE  /\ current # NoObs /\ current \in Observations /\ current.frame \in Nat
             /\ obs.frame = current.frame + 1 => Follows(current, obs)
  <2>1. engine.tick \in Nat
    BY TrialBounds DEF TrialInv, EngineType
  <2>2. /\ current.frame \in 1..engine.tick /\ current = H[current.frame]
        /\ obs.frame \in 1..engine.tick /\ obs = H[obs.frame]
        /\ H \in [1..engine.tick -> Observations]
    BY <1>2, <1>6 DEF In, Published
  <2>3. current \in Observations
    BY <2>2
  <2>4. obs.frame = current.frame + 1 => Follows(H[obs.frame - 1], H[obs.frame])
    BY <2>1, <2>2 DEF Published
  <2> QED
    BY NoObsAssumption, <2>1, <2>2, <2>3, <2>4
<1>7. gap \in Nat /\ (gap = 0 /\ phase = "running" => obs.frame = current.frame + 1)
  BY <1>3, <1>6 DEF Gap
<1>8. missed \in Int /\ missed >= counts.missed + gap
  <2>1. baseline \in Nat /\ incomplete - baseline \in Int
    BY <1>2 DEF Baseline
  <2> HIDE DEF gap, ends, baseline
  <2> DEFINE a == counts.missed + gap
             S == {a} \cup IF ends THEN {incomplete - baseline} ELSE {}
  <2>2. a \in Int
    BY <1>2, <1>7
  <2> HIDE DEF a
  <2>3. S \in {{a}} \cup {{a} \cup {b} : b \in Int}
    BY <2>1, <2>2
  <2> HIDE DEF S
  <2>4. Max(S) \in Int /\ Max(S) >= a
    BY <2>2, <2>3, MaxIsAbove
  <2> QED
    BY <2>4 DEF S, a, gap, ends, baseline
<1> HIDE DEF missed, gap
<1>9. missed = 0 /\ contacts = 0 =>
        /\ obs.scene # "contact" /\ obs.contactAt < start
        /\ since # 0 => /\ obs.scene = "home" /\ obs.homeSince # 0
                        /\ obs.homeSince <= since
  <2>1. CASE phase = "placing"
    BY <1>2, <1>3, <1>5, <2>1 DEF TrialInv, RunnerInv, Rested
  <2>2. CASE phase = "running"
    <3>1. SUFFICES ASSUME missed = 0, contacts = 0
                   PROVE  /\ obs.scene # "contact" /\ obs.contactAt < start
                          /\ since # 0 => /\ obs.scene = "home" /\ obs.homeSince # 0
                                          /\ obs.homeSince <= since
      OBVIOUS
    <3>2. counts.missed = 0 /\ gap = 0 /\ counts.contacts = 0
      BY <1>2, <1>7, <1>8, <3>1
    <3>3. CleanSoFar /\ (touching <=> current.scene = "contact") /\ prev = current
      BY <2>2 DEF TrialInv, RunnerInv
    <3>4. current.scene # "contact" /\ current.contactAt < first
          /\ (settled # 0 => /\ current.scene = "home" /\ current.homeSince # 0
                             /\ current.homeSince <= settled)
      BY <3>2, <3>3 DEF CleanSoFar
    <3>5. Follows(current, obs) /\ prev # NoObs
      BY <1>6, <1>7, <2>2, <3>2, <3>3
    <3>6. obs.scene # "contact"
      BY <1>2, <3>1, <3>2, <3>3, <3>4
    <3>7. obs.contactAt < start
      BY <3>4, <3>5, <3>6 DEF Follows
    <3>8. ASSUME since # 0
          PROVE  obs.scene = "home" /\ obs.homeSince # 0 /\ obs.homeSince <= since
      BY <1>2, <1>3, <1>5, <3>3, <3>4, <3>5, <3>8 DEF Follows, Rested
    <3> QED
      BY <3>6, <3>7, <3>8
  <2> QED
    BY <2>1, <2>2
<1>10. since \in Nat /\ start \in Nat /\ contacts \in Nat /\ missed \in Nat /\ baseline \in Nat
  BY <1>2, <1>3, <1>7, <1>8 DEF Baseline
<1> HIDE DEF since, start, contacts, completed, baseline, ends
<1>11. (phase = "running" => CleanSoFar)'
  BY <1>1, <1>9 DEF CleanSoFar
<1>12. CASE ends
  <2>1. /\ phase' = "done" /\ verdict'.status # "none"
        /\ verdict'.passed => completed /\ missed = 0 /\ contacts = 0
    <3>1. completed \in BOOLEAN
      BY DEF completed
    <3>2. phase' = "done" /\ verdict' = Verdict(FALSE, completed, counts')
      BY <1>1, <1>12
    <3> QED
      BY <1>1, <3>1, <3>2, VerdictIs
  <2>2. PassedMeansClean'
    <3>1. SUFFICES ASSUME verdict'.passed
                   PROVE  /\ obs.contactAt < start
                          /\ obs.homeSince # 0 /\ obs.frame - obs.homeSince >= SETTLE
      BY <1>1 DEF PassedMeansClean
    <3>2. since # 0 /\ obs.frame - since >= SETTLE /\ SETTLE \in Nat
      BY TrialBounds, <2>1, <3>1 DEF completed
    <3>3. obs.contactAt < start /\ obs.homeSince # 0 /\ obs.homeSince <= since
      BY <1>9, <2>1, <3>1, <3>2
    <3> QED
      BY <1>3, <1>10, <3>2, <3>3
  <2>3. RunnerInv'
    BY <1>1, <1>3, <1>10, <2>1 DEF RunnerInv
  <2> QED
    BY <1>11, <2>1, <2>2, <2>3
<1>13. CASE ~ends
  <2>1. phase' = "running" /\ verdict' = verdict
    BY <1>1, <1>13
  <2>2. PassedMeansClean' /\ (verdict.passed => phase = "done")'
    BY <1>2, <2>1 DEF PassedMeansClean
  <2>3. RunnerInv'
    BY <1>1, <1>2, <1>3, <1>4, <1>10, <2>1 DEF RunnerInv
  <2> QED
    BY <1>11, <2>1, <2>2, <2>3
<1> QED
  BY <1>12, <1>13

\* A frame that the assembler gives out keeps the invariant in every phase.
LEMMA AdvanceKeeps ==
    ASSUME TrialInv, NEW d \in [cam : Cams, obs : Observations],
           wire # <<>>, d = Head(wire), wire' = Tail(wire),
           d.obs.frame > asm.emitted, asm'.emitted = d.obs.frame, asm'.incomplete \in Nat,
           Reading, Advance(d.obs, asm'.incomplete)
    PROVE  TrialInv'
<1> DEFINE obs == d.obs
           incomplete == asm'.incomplete
<1>1. obs \in Observations /\ obs.frame \in Nat /\ obs # NoObs /\ asm'.emitted \in Nat
  BY TrialBounds, NoObsAssumption DEF Observations
<1>2. PICK H : /\ Published(H, engine)
               /\ \A i \in 1..Len(wire) : In(wire[i].obs, H)
               /\ current # NoObs => In(current, H)
  BY DEF TrialInv, HistoryInv
<1>3. In(obs, H)
  <2>1. wire \in Seq([cam : Cams, obs : Observations])
    BY DEF TrialInv
  <2>2. 1 \in 1..Len(wire) /\ d = wire[1]
    BY <2>1
  <2> QED
    BY <1>2, <2>2
<1> HIDE DEF obs, incomplete
<1>4. ASSUME UNCHANGED <<engine, failed, first, counts, touching, verdict>>,
             phase' = "placing", current' = obs, settled' \in Nat,
             phase \in {"initial", "placing"}
      PROVE  TrialInv'
  <2>1. wire' \in Seq([cam : Cams, obs : Observations]) /\ EngineType' /\ HistoryInv'
    <3>1. engine' = [engine EXCEPT !.alive = engine'.alive] /\ engine'.alive \in BOOLEAN
      BY <1>4 DEF TrialInv, EngineType
    <3> QED
      BY <1>4, <3>1, ReadingKeepsHistory DEF obs
  <2>2. RunnerInv'
    BY <1>1, <1>4 DEF TrialInv, RunnerInv, obs
  <2>3. PassedMeansClean' /\ (verdict.passed => phase = "done")'
    BY <1>4 DEF TrialInv, PassedMeansClean
  <2> QED
    BY <1>4, <2>1, <2>2, <2>3 DEF TrialInv
<1>5. ASSUME NEW prev, Iterate(prev, obs, incomplete),
             \/ phase = "placing" /\ prev = NoObs
             \/ phase = "running" /\ prev = current /\ In(current, H) /\ current.frame < obs.frame
      PROVE  TrialInv'
  <2>1. current' = obs /\ (engine' = engine \/ engine' = [engine EXCEPT !.alive = FALSE])
    BY <1>5 DEF Iterate
  <2>11. engine' = [engine EXCEPT !.alive = engine'.alive] /\ engine'.alive \in BOOLEAN
    BY <2>1 DEF TrialInv, EngineType
  <2>2. wire' \in Seq([cam : Cams, obs : Observations]) /\ EngineType' /\ HistoryInv'
    BY <2>1, <2>11, ReadingKeepsHistory DEF obs
  <2>3. /\ RunnerInv' /\ (phase = "running" => CleanSoFar)'
        /\ (verdict.passed => phase = "done")' /\ PassedMeansClean'
    BY <1>1, <1>2, <1>3, <1>5, IterateKeeps DEF obs, incomplete
  <2> QED
    BY <2>2, <2>3 DEF TrialInv
<1>6. CASE phase = "initial"
  <2>1. settled \in Nat
    BY DEF TrialInv, RunnerInv
  <2> QED
    BY <1>4, <1>6, <2>1 DEF Advance, obs
<1>7. CASE phase = "placing"
  <2>1. Place(obs, incomplete) /\ settled \in Nat
    BY <1>7 DEF Advance, TrialInv, RunnerInv, obs, incomplete
  <2>2. CASE Iterate(NoObs, obs, incomplete)
    BY <1>5, <1>7, <2>2
  <2>3. CASE ~Iterate(NoObs, obs, incomplete)
    <3>1. /\ UNCHANGED <<engine, failed, first, counts, touching, verdict>>
          /\ phase' = "placing" /\ current' = obs /\ settled' \in Nat
      BY <1>1, <2>1, <2>3 DEF Place
    <3> QED
      BY <1>4, <1>7, <3>1
  <2> QED
    BY <2>2, <2>3
<1>8. CASE phase = "running"
  <2>1. CASE Iterate(current, obs, incomplete)
    <3>1. current # NoObs /\ current.frame = asm.emitted
      BY <1>8 DEF TrialInv, RunnerInv
    <3>2. In(current, H) /\ current.frame < obs.frame
      <4>1. asm.emitted \in Nat
        BY DEF TrialInv, RunnerInv
      <4> QED
        BY <1>1, <1>2, <3>1, <4>1 DEF obs
    <3> QED
      BY <1>5, <1>8, <2>1, <3>2
  <2>2. CASE Fails
    BY <1>1, <2>2, FailureKeeps
  <2> QED
    BY <1>8, <2>1, <2>2 DEF Advance, obs, incomplete
<1> QED
  BY <1>6, <1>7, <1>8 DEF Reading

\* So does every detection that is read.
LEMMA ReadKeeps ==
    ASSUME TrialInv, Read
    PROVE  TrialInv'
<1> DEFINE d == Head(wire)
<1>1. wire \in Seq([cam : Cams, obs : Observations]) /\ wire # <<>> /\ wire' = Tail(wire)
  BY DEF TrialInv, Read
<1>2. d \in [cam : Cams, obs : Observations]
  <2> DEFINE R == [cam : Cams, obs : Observations]
  <2> HIDE DEF R
  <2>1. wire \in Seq(R) /\ wire # <<>>
    BY <1>1 DEF R
  <2>2. Head(wire) \in R
    BY <2>1
  <2> QED
    BY <2>2 DEF R
<1>3. ASSUME UNCHANGED <<engine, failed, phase, trial>>,
             asm'.emitted = asm.emitted, asm'.incomplete \in Nat
      PROVE  TrialInv'
  <2>1. wire' \in Seq([cam : Cams, obs : Observations]) /\ EngineType' /\ HistoryInv'
    <3>1. engine' = [engine EXCEPT !.alive = engine'.alive] /\ engine'.alive \in BOOLEAN
      BY <1>3 DEF TrialInv, EngineType
    <3> QED
      BY <1>1, <1>3, <3>1, ReadingKeepsHistory DEF trial
  <2>2. /\ RunnerInv' /\ (phase = "running" => CleanSoFar)'
        /\ (verdict.passed => phase = "done")' /\ PassedMeansClean'
    BY <1>3 DEF TrialInv, RunnerInv, CleanSoFar, PassedMeansClean, trial
  <2> QED
    BY <2>1, <2>2 DEF TrialInv
<1> HIDE DEF d
<1>4. CASE Ignored(d)
  <2>1. UNCHANGED <<engine, asm, failed, phase, trial>>
    BY <1>4 DEF Read, d
  <2> QED
    BY <1>3, <2>1 DEF TrialInv, RunnerInv
<1>5. CASE ~Ignored(d)
  <2>1. asm' = Pushed(d)
    BY <1>5 DEF Read, d
  <2>2. CASE Emits(d)
    <3>1. Advance(d.obs, asm'.incomplete) /\ Reading
      BY <1>5, <2>2 DEF Read, d
    <3>2. asm'.emitted = d.obs.frame /\ d.obs.frame > asm.emitted /\ asm'.incomplete \in Nat
      BY <1>2, <1>5, <2>1, <2>2, PushedIs
    <3> QED
      BY <1>1, <1>2, <3>1, <3>2, AdvanceKeeps DEF d
  <2>3. CASE ~Emits(d)
    <3>1. UNCHANGED <<engine, failed, phase, trial>>
      BY <1>5, <2>3 DEF Read, d
    <3> QED
      BY <1>2, <1>3, <1>5, <2>1, <2>3, <3>1, PushedIs
  <2> QED
    BY <2>2, <2>3
<1> QED
  BY <1>4, <1>5

\* Before the engine is read from, and when it stops by itself.
LEMMA OtherStepsKeep ==
    ASSUME TrialInv, Ask \/ StartEngine \/ StartEngineFails \/ EngineExits \/ UNCHANGED trialVars
    PROVE  TrialInv'
<1>1. /\ UNCHANGED <<wire, asm, trial>>
      /\ \/ phase' = phase
         \/ phase \in {"asked", "starting"} /\ phase' \in {"starting", "initial", "refused"}
      /\ engine' \in {engine} \cup {[engine EXCEPT !.alive = b] : b \in BOOLEAN}
  BY DEF Ask, StartEngine, StartEngineFails, EngineExits, trialVars, trial
<1>11. engine' = [engine EXCEPT !.alive = engine'.alive] /\ engine'.alive \in BOOLEAN
  BY <1>1 DEF TrialInv, EngineType
<1>2. wire' \in Seq([cam : Cams, obs : Observations]) /\ EngineType' /\ HistoryInv'
  BY <1>1, <1>11, ReadingKeepsHistory DEF trial
<1>3. /\ RunnerInv' /\ (phase = "running" => CleanSoFar)'
      /\ (verdict.passed => phase = "done")' /\ PassedMeansClean'
  BY <1>1 DEF TrialInv, RunnerInv, CleanSoFar, PassedMeansClean, trial
<1> QED
  BY <1>2, <1>3 DEF TrialInv

\* Every step of the trial keeps the invariant.
LEMMA TrialStepsKeep == TrialInv /\ [TrialNext]_trialVars => TrialInv'
<1> SUFFICES ASSUME TrialInv, [TrialNext]_trialVars PROVE TrialInv'
  OBVIOUS
<1>1. CASE ReadDamaged \/ ReadTimeout \/ ReadExited \/ Deadline
  <2>1. Fails /\ UNCHANGED asm /\ (wire' = wire \/ (wire # <<>> /\ wire' = Tail(wire)))
    BY <1>1 DEF ReadDamaged, ReadTimeout, ReadExited, Deadline
  <2>2. asm'.emitted \in Nat /\ asm'.incomplete \in Nat
    BY <2>1 DEF TrialInv, RunnerInv
  <2> QED
    BY <2>1, <2>2, FailureKeeps
<1> QED
  BY <1>1, EngineTickKeeps, ReadKeeps, OtherStepsKeep DEF TrialNext, Runner, Finished

\* It holds of a trial that is asked for.
LEMMA TrialStarts == TrialInit => TrialInv
<1> SUFFICES ASSUME TrialInit PROVE TrialInv
  OBVIOUS
<1>1. wire = <<>> /\ current = NoObs /\ engine.tick = 0 /\ engine.contactAt = 0
      /\ engine.homeSince = 0 /\ MAX_TICKS \in Nat
  BY TrialBounds DEF TrialInit
<1>2. HistoryInv
  <2> DEFINE H == [t \in 1..0 |-> CHOOSE o \in Observations : TRUE]
  <2>1. Published(H, engine)
    BY <1>1 DEF Published
  <2> HIDE DEF H
  <2> QED
    BY <1>1, <2>1 DEF HistoryInv
<1>3. EngineType /\ RunnerInv /\ PassedMeansClean /\ ~verdict.passed
  BY <1>1 DEF TrialInit, EngineType, RunnerInv, PassedMeansClean, NoVerdict
<1> QED
  BY <1>1, <1>2, <1>3 DEF TrialInv, TrialInit

\* A trial that passed was seen whole: the runner has missed no frame, and in
\* every tick since the first, observed or not, the engine had no contact, while
\* the robots have rested on their targets for the settling time
\* (simulate_physics, passed).
THEOREM PassedTrialsAreClean == TrialSpec => []PassedMeansClean
<1>1. TrialInv => PassedMeansClean
  BY DEF TrialInv
<1> QED
  BY <1>1, TrialStarts, TrialStepsKeep, PTL DEF TrialSpec
================================================================================
