----------------------------- MODULE VisionWorkers -----------------------------
(* The two worker processes between the cameras and the world model:            *)
(* VisionProcess reads the multicast socket, assembles frames and puts them on  *)
(* a queue (process_workers/vision_runner.py); WMWorker takes them off and      *)
(* gives them to the WorldModel (process_workers/wm_runner.py, world/model.py,  *)
(* vision/frame_list.py). Both run the loop of BaseWorker (worker.py), which    *)
(* survives a failing step and gives up after a burst of failures.              *)
(*                                                                              *)
(* The cameras and the network are external: in every publishing cycle each     *)
(* camera sends one detection, any of which may be lost, and the source may be  *)
(* restarted and count from zero again, as the built-in simulator does. What a  *)
(* frame does to the world map is modelled in WorldPipeline.                    *)
EXTENDS FrameAssembly, Sequences, SequencesExt

CONSTANTS
    Cams,             \* the cameras, published in the order of this sequence
    HISTORY,          \* frames the FrameList keeps
    INTERVAL,         \* frames per version of the world model
    QCAP,             \* places in the queue between the two workers
    SOCKCAP,          \* datagrams the socket buffers
    WINDOW,           \* seconds of the error window
    MAX_ERRORS,       \* failures in one window that end a worker
    GEOMETRY_EVERY,   \* cycles between two geometry packets
    SETUPS,           \* bounds of a behaviour: [lost, restarts, faults, cycles, ahead]
    Geometry          \* the queue item that carries the field's geometry

ASSUME WorkerBounds ==
    /\ HISTORY \in Nat \ {0} /\ INTERVAL \in Nat \ {0}
    /\ QCAP \in Nat \ {0} /\ SOCKCAP \in Nat \ {0}
    /\ WINDOW \in Nat \ {0} /\ MAX_ERRORS \in Nat \ {0, 1}

\* Every camera is published once in a cycle.
ASSUME CameraAssumption ==
    /\ Cams \in Seq(Range(Cams)) /\ Cams # <<>>
    /\ \A i, j \in DOMAIN Cams : Cams[i] = Cams[j] => i = j

ASSUME SetupAssumption ==
    SETUPS \subseteq [lost : Nat, restarts : Nat, faults : Nat, cycles : Nat, ahead : Nat]

Workers == {"vision", "world"}

VARIABLES
    setup,      \* the losses, restarts, faults and cycles still allowed
    cycle,      \* publishing cycles begun, the capture time of their detections
    base,       \* the cycle at which the source last began to count
    toSend,     \* the cameras that have not published in this cycle
    socket,     \* detections in the vision socket
    held,       \* VisionFrameAssembler.frame
    queue,      \* vision's output queue
    status,     \* each worker: "running", "gave_up" or "offline"
    errors,     \* each worker's error_cnt and the age of last_error_time
    isRunning,  \* the event that the parent process clears
    frames,     \* FrameList._frames, frame numbers, oldest first
    lookup,     \* FrameList._frame_lookup's keys
    count,      \* WorldModel.count
    map,        \* the frame that WorldModel.world_map shows
    geometry,   \* the world model has the field's geometry
    failed,     \* history: the ages of a running worker's failures, in the window
    given       \* history: each camera's detection in the last frame given out

source == <<cycle, base, toSend>>
model == <<frames, lookup, count, map, geometry>>
vars == <<setup, source, socket, held, queue, status, errors, isRunning, model,
          failed, given>>

Empty == -1      \* the frame_number None of a snapshot without a frame

NEVER == WINDOW + 1     \* last_error_time = 0, or longer ago than the window

\* Type invariant of the source, the socket, the queue and the two workers.
TypeOK ==
    /\ socket \in Seq([cam : Range(Cams), num : Nat, at : Nat, geo : BOOLEAN])
    /\ Len(socket) <= SOCKCAP
    /\ Len(queue) <= QCAP
    /\ status \in [Workers -> {"running", "gave_up", "offline"}]
    /\ errors \in [Workers -> [cnt : 0..MAX_ERRORS - 1, age : 0..NEVER]]
    /\ Len(frames) <= HISTORY
    /\ count \in 0..INTERVAL - 1 /\ map \in Nat \cup {Empty}
    /\ held = NoFrame \/ DOMAIN held.parts \subseteq Range(Cams)

Init ==
    /\ setup \in SETUPS
    /\ cycle = 0 /\ base = 1 /\ toSend = <<>>
    /\ socket = <<>> /\ held = NoFrame /\ queue = <<>>
    /\ status = [w \in Workers |-> "running"]
    /\ errors = [w \in Workers |-> [cnt |-> 0, age |-> NEVER]]
    /\ isRunning = TRUE
    /\ frames = <<>> /\ lookup = {} /\ count = 0 /\ map = Empty /\ geometry = FALSE
    /\ failed = [w \in Workers |-> <<>>]
    /\ given = [c \in Range(Cams) |-> 0]

--------------------------------------------------------------------------------
(* The cameras. *)

\* The next publishing cycle begins; a restarted source counts from zero.
NewCycle ==
    /\ toSend = <<>> /\ setup.cycles > 0
    /\ cycle' = cycle + 1
    /\ toSend' = Cams
    /\ \/ /\ base' = base
          /\ setup' = [setup EXCEPT !.cycles = @ - 1]
       \/ /\ setup.restarts > 0
          /\ base' = cycle + 1
          /\ setup' = [setup EXCEPT !.cycles = @ - 1, !.restarts = @ - 1]
    /\ UNCHANGED <<socket, held, queue, status, errors, isRunning, model, failed, given>>

\* The cameras count on their own; the last one is some frames ahead.
Number(c) == cycle - base + (IF c = Last(Cams) THEN setup.ahead ELSE 0)

\* One camera publishes: the datagram reaches the socket or is lost. A full
\* buffer loses it too. The first camera carries the geometry, when it is due.
Publish ==
    /\ toSend # <<>>
    /\ toSend' = Tail(toSend)
    /\ \/ /\ Len(socket) < SOCKCAP
          /\ socket' = Append(socket,
                [cam |-> Head(toSend), num |-> Number(Head(toSend)), at |-> cycle,
                 geo |-> /\ Head(toSend) = Cams[1]
                         /\ (cycle - base) % GEOMETRY_EVERY = 0])
          /\ UNCHANGED setup
       \/ /\ setup.lost > 0
          /\ setup' = [setup EXCEPT !.lost = @ - 1]
          /\ UNCHANGED socket
    /\ UNCHANGED <<cycle, base, held, queue, status, errors, isRunning, model, failed, given>>

--------------------------------------------------------------------------------
(* BaseWorker.run. *)

\* A fault: the window that was opened once is never closed.
CountErrorForever(e) == [cnt |-> e.cnt + 1, age |-> 0]

\* The except clause: the count starts again at one when the window's first
\* failure is more than WINDOW old, and the worker gives up at MAX_ERRORS.
CountError(e) ==
    IF e.age = NEVER THEN [cnt |-> 1, age |-> 0] ELSE [e EXCEPT !.cnt = @ + 1]

StepFailed(w) ==
    LET e == CountError(errors[w])
        givesUp == e.cnt >= MAX_ERRORS
    IN  /\ errors' = [errors EXCEPT ![w] = IF givesUp THEN [e EXCEPT !.cnt = 0] ELSE e]
        /\ status' = [status EXCEPT ![w] = IF givesUp THEN "gave_up" ELSE @]
        /\ failed' = [failed EXCEPT ![w] = Append(@, 0)]

StepWorked == UNCHANGED <<status, errors, failed>>

\* The ages of s, oldest first, that are in the window.
Recent(s) ==
    LET first == CHOOSE k \in 1..Len(s) + 1 :
                    \A i \in DOMAIN s : s[i] <= WINDOW <=> i >= k
    IN  SubSeq(s, first, Len(s))

\* A second passes.
Tick ==
    /\ \E w \in Workers : errors[w].age < NEVER
    /\ errors' = [w \in Workers |->
                    [errors[w] EXCEPT !.age = IF @ = NEVER THEN NEVER ELSE @ + 1]]
    /\ failed' = [w \in Workers |->
                    IF status[w] # "running" THEN failed[w]
                    ELSE Recent([i \in DOMAIN failed[w] |-> failed[w][i] + 1])]
    /\ UNCHANGED <<setup, source, socket, held, queue, status, isRunning, model, given>>

\* A fault: a worker drains its input before it leaves.
LeaveDrained(w) ==
    /\ status[w] = "running" /\ ~isRunning
    /\ IF w = "vision" THEN socket = <<>> ELSE queue = <<>>
    /\ status' = [status EXCEPT ![w] = "offline"]
    /\ UNCHANGED <<setup, source, socket, held, queue, errors, isRunning, model, failed, given>>

\* The loop's condition: the parent has cleared the event.
Leave(w) ==
    /\ status[w] = "running" /\ ~isRunning
    /\ status' = [status EXCEPT ![w] = "offline"]
    /\ UNCHANGED <<setup, source, socket, held, queue, errors, isRunning, model, failed, given>>

\* The parent process ends the system.
Clear ==
    /\ isRunning
    /\ isRunning' = FALSE
    /\ UNCHANGED <<setup, source, socket, held, queue, status, errors, model, failed, given>>

--------------------------------------------------------------------------------
(* VisionProcess. *)

\* send: an item that finds the queue full is dropped.
Sent(q, item) == IF Len(q) = QCAP THEN q ELSE Append(q, item)

\* step: the detection first, then the geometry of the same packet. A step under
\* way when the event is cleared is ordered before the clear.
VisionStep ==
    /\ status["vision"] = "running" /\ isRunning
    /\ socket # <<>>
    /\ LET d == Head(socket)
           pushed == Push(held, d, Len(Cams))
           q == IF pushed.out = NoFrame THEN queue ELSE Sent(queue, pushed.out)
       IN  /\ held' = pushed.held
           /\ queue' = IF d.geo THEN Sent(q, Geometry) ELSE q
           /\ given' = IF pushed.out = NoFrame THEN given
                       ELSE [c \in Range(Cams) |->
                               IF c \in DOMAIN pushed.out.parts
                               THEN pushed.out.parts[c] ELSE given[c]]
    /\ socket' = Tail(socket)
    /\ StepWorked
    /\ UNCHANGED <<setup, source, isRunning, model>>

\* The socket raises: the interface is gone.
VisionFails ==
    /\ status["vision"] = "running" /\ isRunning
    /\ setup.faults > 0
    /\ setup' = [setup EXCEPT !.faults = @ - 1]
    /\ StepFailed("vision")
    /\ UNCHANGED <<source, socket, held, queue, isRunning, model, given>>

--------------------------------------------------------------------------------
(* WMWorker. *)

Refuses(f) == f.num \in lookup

\* WorldModel.snapshot, from the newest frame of the list.
Snapshot(fs) == IF fs = <<>> THEN Empty ELSE Last(fs)

\* A fault: the dictionary keeps the frames that the deque has forgotten.
AddFrameForgetsHalf(f) ==
    /\ count' = (count + 1) % INTERVAL
    /\ IF Refuses(f)
       THEN StepFailed("world") /\ UNCHANGED <<frames, lookup, map>>
       ELSE /\ frames' = Append(IF Len(frames) = HISTORY THEN Tail(frames) ELSE frames, f.num)
            /\ lookup' = lookup \cup {f.num}
            /\ map' = Snapshot(frames')
            /\ StepWorked
    /\ UNCHANGED geometry

\* WorldModel.add_new_frame with FrameList.append: the version's count moves
\* before the frame is refused, a full list forgets its oldest frame, and the
\* world map is given the snapshot of what the list then ends with.
AddFrame(f) ==
    /\ count' = (count + 1) % INTERVAL
    /\ IF Refuses(f)
       THEN /\ StepFailed("world")
            /\ UNCHANGED <<frames, lookup, map>>
       ELSE LET full == Len(frames) = HISTORY
                kept == IF full THEN Tail(frames) ELSE frames
            IN  /\ frames' = Append(kept, f.num)
                /\ lookup' = (IF full THEN lookup \ {Head(frames)} ELSE lookup)
                             \cup {f.num}
                /\ map' = Snapshot(frames')
                /\ StepWorked
    /\ UNCHANGED geometry

UpdateGeometry ==
    /\ geometry' = TRUE
    /\ StepWorked
    /\ UNCHANGED <<frames, lookup, count, map>>

WorldStep ==
    /\ status["world"] = "running" /\ isRunning
    /\ queue # <<>>
    /\ queue' = Tail(queue)
    /\ IF Head(queue) = Geometry THEN UpdateGeometry ELSE AddFrame(Head(queue))
    /\ UNCHANGED <<setup, source, socket, held, isRunning, given>>

Next ==
    \/ NewCycle
    \/ Publish
    \/ Tick
    \/ \E w \in Workers : Leave(w)
    \/ Clear
    \/ VisionStep
    \/ VisionFails
    \/ WorldStep

\* The operating system runs both processes; nothing is fair about the cameras,
\* the clock, the faults and the parent.
Spec ==
    /\ Init /\ [][Next]_vars
    /\ WF_vars(VisionStep) /\ WF_vars(WorldStep)
    /\ \A w \in Workers : WF_vars(Leave(w))

--------------------------------------------------------------------------------
(* What the workers promise. *)

\* What the assembler holds was never given out before: every detection goes
\* into one frame at most, and a camera's view of the field never goes back,
\* whatever was lost in between.
HeldIsNew == held # NoFrame => \A c \in DOMAIN held.parts : held.parts[c] > given[c]

\* The frame list's deque and its dictionary are two copies of one set of frames:
\* a number kept in one and gone from the other is refused, or served, for ever.
\* The world map shows the newest of them, also after a frame was refused.
StoreAgrees == /\ lookup = Range(frames) /\ Cardinality(lookup) = Len(frames)
               /\ map = Snapshot(frames)

\* A worker gives up only on MAX_ERRORS failures within the window, and outlives
\* no longer burst than two windows that meet: the window is counted from its
\* first failure, so the failures before its end do not count in the next one.
GivesUpOnBursts ==
    \A w \in Workers :
        /\ status[w] = "gave_up" => Len(failed[w]) >= MAX_ERRORS
        /\ status[w] = "running" => Len(failed[w]) <= 2 * MAX_ERRORS - 3

\* When the parent clears the event both processes end, whatever is left in the
\* socket and in the queue.
ShutdownCompletes == ~isRunning ~> \A w \in Workers : status[w] # "running"

================================================================================
