------------------------------ MODULE SimulatorLink ------------------------------
(* The toolbar's simulator control (ui/sim_control.py SimulatorControl), the      *)
(* child process it manages (sim/manager.py SimulatorProcess) and the child's     *)
(* life (sim/__main__.py main, sim/server.py run and stop), with the loop of      *)
(* SimServer running in the child.                                                *)
(*                                                                                *)
(* The two sides meet in the pipe of the child's stdin, whose end of file stops   *)
(* the child, in its standard output, which brings the ready line, in signals,    *)
(* and in the command port, which one process can bind. The console may crash     *)
(* and be started again; so may the child.                                        *)
EXTENDS SimServer

CONSTANTS
    Procs,      \* the processes a console can spawn
    CRASHES,    \* bound: consoles that crash
    None        \* no process

ASSUME NoneIsNoProc == None \notin Procs

VARIABLES
    ui,         \* what the console's thread does
    after,      \* why it stops the simulator
    checked,    \* the toolbar action; the speed selector is locked with it
    watchdog,   \* the timer runs
    process,    \* SimulatorProcess.process
    ready,      \* SimulatorProcess._ready
    child,      \* each process: where it is, SimServer._running, and whether its
                \* stdin is closed, is still watched, and SIGTERM is pending
    crashes,    \* consoles that have crashed
    readers,    \* the children whose output a thread of this console reads
    lines,      \* those of them whose ready line is in the pipe
    served,     \* history: process has bound the command port
    left        \* history: process was started with a line of another child unread

console == <<ui, after, checked, watchdog, process, crashes>>
reading == <<ready, readers, lines>>
told == <<served, left>>
vars == <<console, reading, child, told, server>>

Stopping == {"closing", "grace", "terminated", "joining"}
Bound == {"bound", "announced", "loop"}     \* the child holds the command port

NoChild == [at |-> "dead", running |-> FALSE, eof |-> FALSE, watching |-> FALSE, term |-> FALSE]
Dead(c) == child[c].at = "dead"

\* The living children of this console. A console that crashes has none: its
\* children are left to the end of their input.
Mine == {c \in readers : ~Dead(c)}

\* Type invariant of the console's control and of its children.
TypeOK ==
    /\ ServerTypeOK
    /\ ui \in {"idle", "starting", "gone"} \cup Stopping
    /\ after \in {"failed", "stop", "close"}
    /\ checked \in BOOLEAN /\ watchdog \in BOOLEAN /\ ready \in BOOLEAN
    /\ process \in Procs \cup {None}
    /\ child \in [Procs -> [at : {"boot", "dead"} \cup Bound, running : BOOLEAN,
                            eof : BOOLEAN, watching : BOOLEAN, term : BOOLEAN]]
    /\ crashes \in 0..CRASHES
    /\ readers \subseteq Procs /\ lines \subseteq readers
    /\ served \in BOOLEAN /\ left \in BOOLEAN

Init ==
    /\ ui = "idle" /\ after = "stop" /\ checked = FALSE /\ watchdog = FALSE
    /\ process = None /\ ready = FALSE /\ crashes = 0
    /\ child = [c \in Procs |-> NoChild]
    /\ readers = {} /\ lines = {} /\ served = FALSE /\ left = FALSE
    /\ ServerStart

--------------------------------------------------------------------------------
(* The console: SimulatorControl and SimulatorProcess.start. *)

Spawn(c) ==
    /\ ui = "idle" /\ ~checked /\ Dead(c) /\ c \notin readers
    /\ ui' = "starting" /\ checked' = TRUE
    /\ process' = c
    /\ child' = [child EXCEPT ![c].at = "boot"]
    /\ readers' = readers \cup {c}
    /\ served' = FALSE /\ left' = (lines # {})
    /\ UNCHANGED <<after, watchdog, crashes, lines, server>>

\* A fault: the ready event of the last start is not cleared.
StartUncleared(c) == Spawn(c) /\ UNCHANGED ready

\* The user ticks the action: start() clears the event, spawns the child with a
\* thread that reads its output, and waits. (A remote command address is refused
\* before anything happens.)
Start(c) == Spawn(c) /\ ready' = FALSE

\* The ready line came within ready_timeout_s.
Started ==
    /\ ui = "starting" /\ ready
    /\ ui' = "idle" /\ watchdog' = TRUE
    /\ UNCHANGED <<after, checked, process, crashes, reading, child, told, server>>

\* The child has died, or did not answer in time: start() stops it and raises.
StartFails ==
    /\ ui = "starting"
    /\ ui' = "closing" /\ after' = "failed"
    /\ UNCHANGED <<checked, watchdog, process, crashes, reading, child, told, server>>

BeginStop(why) ==
    /\ ui = "idle"
    /\ ui' = "closing" /\ after' = why /\ watchdog' = FALSE
    /\ UNCHANGED <<checked, process, crashes, reading, child, told, server>>

\* stop(): the user unticks the action, or the watchdog finds the child dead.
Untick == checked /\ BeginStop("stop")
CheckAlive == watchdog /\ Dead(process) /\ BeginStop("stop")

\* closeEvent: shutdown() stops a simulator that was started.
Close == process # None /\ BeginStop("close")

CloseIdle ==
    /\ ui = "idle" /\ process = None
    /\ ui' = "gone"
    /\ UNCHANGED <<after, checked, watchdog, process, crashes, reading, child, told, server>>

--------------------------------------------------------------------------------
(* The end of a child. *)

Die(c) ==
    /\ child' = [child EXCEPT ![c] = NoChild]
    /\ IF child[c].at = "loop" THEN ServerReset ELSE UNCHANGED server

(* SimulatorProcess.stop. *)

\* stdin is closed; a child that has already died needs no more.
CloseStdin ==
    /\ ui = "closing"
    /\ IF Dead(process) THEN ui' = "joining" /\ UNCHANGED child
       ELSE ui' = "grace" /\ child' = [child EXCEPT ![process].eof = TRUE]
    /\ UNCHANGED <<after, checked, watchdog, process, crashes, reading, told, server>>

\* It has died within the wait.
Reaped ==
    /\ ui \in {"grace", "terminated"} /\ Dead(process)
    /\ ui' = "joining"
    /\ UNCHANGED <<after, checked, watchdog, process, crashes, reading, child, told, server>>

\* A second has passed: SIGTERM.
Terminate ==
    /\ ui = "grace" /\ ~Dead(process)
    /\ ui' = "terminated"
    /\ child' = [child EXCEPT ![process].term = TRUE]
    /\ UNCHANGED <<after, checked, watchdog, process, crashes, reading, told, server>>

\* A fault: a child that outlives SIGTERM is left alone.
KillNothing ==
    /\ ui = "terminated" /\ ~Dead(process)
    /\ ui' = "joining"
    /\ UNCHANGED <<after, checked, watchdog, process, crashes, reading, child, told, server>>

\* A fault: the second wait has no time limit.
KillNever == Reaped

\* Three more: SIGKILL.
Kill ==
    /\ ui = "terminated" /\ ~Dead(process)
    /\ Die(process)
    /\ ui' = "joining"
    /\ UNCHANGED <<after, checked, watchdog, process, crashes, reading, told>>

\* The reader has ended, or has been waited for one second and is left to itself;
\* stop() and its caller return.
Stopped ==
    /\ ui = "joining"
    /\ process' = None /\ checked' = FALSE
    /\ ui' = IF after = "close" THEN "gone" ELSE "idle"
    /\ after' = "stop"
    /\ UNCHANGED <<watchdog, crashes, reading, child, told, server>>

--------------------------------------------------------------------------------
(* The reader threads, SimulatorProcess._read: one for each child, until the end *)
(* of its output.                                                                *)

ReadLine(c) ==
    /\ c \in lines
    /\ lines' = lines \ {c} /\ ready' = TRUE
    /\ UNCHANGED <<console, readers, child, told, server>>

ReadEnds(c) ==
    /\ c \in readers \ lines /\ Dead(c)
    /\ readers' = readers \ {c}
    /\ UNCHANGED <<console, ready, lines, child, told, server>>

--------------------------------------------------------------------------------
(* The child: main() of sim/__main__.py. *)

\* SimServer() binds the command port, or fails because it is taken, and the
\* signal handlers and the watcher of stdin are installed.
Bind(c) ==
    /\ child[c].at = "boot"
    /\ IF \E d \in Procs : child[d].at \in Bound
       THEN Die(c) /\ UNCHANGED served
       ELSE /\ child' = [child EXCEPT ![c].at = "bound", ![c].watching = TRUE]
            /\ served' = (served \/ process = c)
            /\ UNCHANGED server
    /\ UNCHANGED <<console, reading, left>>

\* The ready line is printed into the pipe, which broke if its console crashed.
Announce(c) ==
    /\ child[c].at = "bound"
    /\ IF c \in readers
       THEN /\ child' = [child EXCEPT ![c].at = "announced"]
            /\ lines' = lines \cup {c}
            /\ UNCHANGED server
       ELSE Die(c) /\ UNCHANGED lines
    /\ UNCHANGED <<console, ready, readers, told>>

\* run() starts the loop.
EnterRun(c) ==
    /\ child[c].at = "announced"
    /\ child' = [child EXCEPT ![c].at = "loop", ![c].running = TRUE]
    /\ UNCHANGED <<console, reading, told, server>>

\* _watch_stdin reads the end of the file and stops the server.
StdinEnds(c) ==
    /\ child[c].watching /\ child[c].eof
    /\ child' = [child EXCEPT ![c].watching = FALSE, ![c].running = FALSE]
    /\ UNCHANGED <<console, reading, told, server>>

\* SIGTERM ends a process that has no handler yet; the handler stops the server.
Signalled(c) ==
    /\ child[c].term
    /\ IF child[c].at = "boot" THEN Die(c)
       ELSE /\ child' = [child EXCEPT ![c].term = FALSE, ![c].running = FALSE]
            /\ UNCHANGED server
    /\ UNCHANGED <<console, reading, told>>

\* The loop sees the flag and main() returns; or the process crashes.
LeaveRun(c) ==
    /\ child[c].at = "loop" /\ ~child[c].running /\ stepsLeft = 0
    /\ Die(c)
    /\ UNCHANGED <<console, reading, told>>

ChildCrash(c) ==
    /\ ~Dead(c)
    /\ Die(c)
    /\ UNCHANGED <<console, reading, told>>

--------------------------------------------------------------------------------
(* The console's own crash, and the next console. *)

\* The pipes of its children are closed by the operating system.
ConsoleCrash ==
    /\ ui # "gone" /\ crashes < CRASHES
    /\ crashes' = crashes + 1
    /\ ui' = "gone" /\ after' = "stop" /\ checked' = FALSE /\ watchdog' = FALSE
    /\ process' = None /\ ready' = FALSE /\ readers' = {} /\ lines' = {}
    /\ child' = [c \in Procs |-> [child[c] EXCEPT !.eof = ~Dead(c)]]
    /\ served' = FALSE /\ left' = FALSE
    /\ UNCHANGED server

OpenConsole ==
    /\ ui = "gone"
    /\ ui' = "idle" /\ ready' = FALSE /\ readers' = {} /\ lines' = {}
    /\ UNCHANGED <<after, checked, watchdog, process, crashes, child, told, server>>

--------------------------------------------------------------------------------
StopStep == CloseStdin \/ Reaped \/ Terminate \/ Kill \/ Stopped

User == (\E c \in Procs : Start(c)) \/ Untick \/ Close \/ CloseIdle \/ OpenConsole

ReaderStep(c) == ReadLine(c) \/ ReadEnds(c)

ChildStep(c) == Bind(c) \/ Announce(c) \/ EnterRun(c) \/ StdinEnds(c) \/ Signalled(c) \/ LeaveRun(c)

\* The loop of a child, which looks at its flag before each cycle.
Looping == \E c \in Procs : child[c].at = "loop" /\ (child[c].running \/ stepsLeft > 0)

Idle == UNCHANGED <<console, reading, child, told>>

LoopDrain == Looping /\ Drain /\ Idle
LoopTick == Looping /\ Tick /\ Idle
LoopCycle == Looping /\ Cycle /\ Idle
LoopStep == Looping /\ Step /\ Idle

Next ==
    \/ User \/ Started \/ StartFails \/ CheckAlive \/ StopStep
    \/ \E c \in Procs : ReaderStep(c) \/ ChildStep(c) \/ ChildCrash(c)
    \/ ConsoleCrash
    \/ LoopDrain \/ LoopTick \/ LoopCycle \/ LoopStep

\* The console's threads, the child's threads and the server's loop are
\* scheduled; the user, the senders of packets and crashes owe nothing.
Fairness ==
    /\ WF_vars(Started) /\ WF_vars(StartFails) /\ WF_vars(CheckAlive) /\ WF_vars(StopStep)
    /\ \A c \in Procs :
         /\ WF_vars(ReaderStep(c))
         /\ WF_vars(Bind(c)) /\ WF_vars(Announce(c)) /\ WF_vars(EnterRun(c))
         /\ WF_vars(StdinEnds(c)) /\ WF_vars(Signalled(c)) /\ WF_vars(LeaveRun(c))
    /\ WF_vars(LoopTick) /\ WF_vars(LoopCycle) /\ WF_vars(LoopStep)

Spec == Init /\ [][Next]_vars /\ Fairness

--------------------------------------------------------------------------------
(* Properties. *)

\* When the console says no simulator of its own runs, none does: no failed
\* start, lost signal or crash of the child leaves a child behind that holds the
\* ports (SimulatorProcess.stop, SimulatorControl.start).
NoChildLeftBehind == ui = "idle" /\ process = None => Mine = {}

\* A start that succeeds is the work of this child, which has bound the command
\* port, unless stop() gave up on a reader with a ready line still before it: that
\* one may set the event that start() has cleared (SimulatorProcess.start, _read).
StartedMeansBound == ui = "idle" /\ checked => served \/ left

\* start() waits for the ready line of the child it launches, and raises without.
StartWaitsForItsLine == ui = "idle" /\ checked => served

\* stop() always returns: of closed stdin and SIGTERM both may be lost on a
\* child that has not entered its loop, and SIGKILL then ends it.
StopEnds == ui \in Stopping ~> ui \in {"idle", "gone"}

\* A child ends when its stdin has closed, which is all that ends the child of a
\* console that crashed (--stop-on-stdin-eof, _watch_stdin).
ClosedChildEnds == \A c \in Procs : child[c].eof ~> Dead(c)

================================================================================
