------------------------- MODULE CommandDispatcher -------------------------
(***************************************************************************)
(* network/command_dispatcher.py at the grain of its threads.  The console *)
(* thread calls start, publish and stop; a worker thread repeats, at a     *)
(* fixed rate, the latest command of every robot and sends zero in place   *)
(* of a command that is too old.  They share the table of commands, under  *)
(* a lock, and the stop event; nothing orders their sends on the socket.   *)
(*                                                                         *)
(* ExecutionConsole has the worker's copy and its sends as steps between   *)
(* the page's slots.  Here they fall between the statements of publish and *)
(* stop as well, commands have an age, and a worker that stop() gave up on *)
(* (join has a timeout) may be joined by a second one.                     *)
(*                                                                         *)
(* Commands are numbered by the order in which the console issues them;    *)
(* the number is the model's, to tell an old command from the latest.  A   *)
(* send that raises and a datagram that is lost are the same to the wire.  *)
(* The order of the robots inside one copy of the table is left open.      *)
(***************************************************************************)
EXTENDS Naturals, FiniteSets

CONSTANTS
    Keys,       \* the (isYellow, robot_id) of the scenario's robots
    Workers,    \* thread identities; bounds how many workers live at once
    NoThread,   \* _thread is None
    MaxIssued   \* bound: commands the console issues in a behaviour

ASSUME NoThreadAssumption == NoThread \notin Workers
ASSUME MaxIssuedAssumption == MaxIssued \in Nat

VARIABLES
    commands,   \* _commands: the latest command of each robot
    stopped,    \* _stop: the event
    thread,     \* _thread
    pc,         \* where each worker is in _run
    batch,      \* what each worker has copied and not sent yet
    caller,     \* what the console thread is doing
    wire,       \* the last command each robot received
    issued,     \* how many commands the console has issued
    last,       \* the number of the last one issued to each robot
    late,       \* how often each worker has sent a robot something older
    abandoned   \* workers that stop() gave up waiting for

tableVars == <<commands, stopped, thread>>
workerVars == <<pc, batch, abandoned>>
countVars == <<issued, last, late>>
vars == <<tableVars, workerVars, caller, wire, countVars>>

Nothing == [n |-> 0, move |-> FALSE]
Commands == [n : 0 .. MaxIssued, move : BOOLEAN]
Entries == [n : 0 .. MaxIssued, move : BOOLEAN, old : BOOLEAN]
NoEntry == [n |-> 0, move |-> FALSE, old |-> FALSE]

Idle == [at |-> "idle", keys |-> {}, move |-> FALSE]
Callers == [at : {"idle", "publishing", "joining", "zeroing"},
            keys : SUBSET Keys, move : BOOLEAN]

Live == {w \in Workers : pc[w] # "dead"}
Running == thread \in Live

\* An entry with number 0 is a robot that is not in the table (or copy).
TypeOK ==
    /\ commands \in [Keys -> Entries]
    /\ stopped \in BOOLEAN
    /\ thread \in Workers \cup {NoThread}
    /\ pc \in [Workers -> {"dead", "waiting", "woken", "sending"}]
    /\ batch \in [Workers -> [Keys -> Commands]]
    /\ caller \in Callers
    /\ wire \in [Keys -> Commands]
    /\ issued \in 0 .. MaxIssued
    /\ last \in [Keys -> 0 .. MaxIssued]
    /\ late \in [Workers -> [Keys -> Nat]]
    /\ abandoned \subseteq Workers

NoBatch == [k \in Keys |-> Nothing]

Init ==
    /\ commands = [k \in Keys |-> NoEntry]
    /\ stopped = FALSE
    /\ thread = NoThread
    /\ pc = [w \in Workers |-> "dead"]
    /\ batch = [w \in Workers |-> NoBatch]
    /\ caller = Idle
    /\ wire = [k \in Keys |-> Nothing]
    /\ issued = 0
    /\ last = [k \in Keys |-> 0]
    /\ late = [w \in Workers |-> [k \in Keys |-> 0]]
    /\ abandoned = {}

\* The console has decided on a command for robot k: from here on whatever
\* a worker still holds for k is older.
Issue(k) ==
    /\ issued < MaxIssued
    /\ issued' = issued + 1
    /\ last' = [last EXCEPT ![k] = issued + 1]
    /\ late' = [w \in Workers |-> [late[w] EXCEPT ![k] = 0]]

-----------------------------------------------------------------------------
(* The console thread. *)

\* Fault: start() does not look at the worker it already has.
StartAgain ==
    /\ caller = Idle
    /\ \E w \in Workers \ Live :
          /\ thread' = w
          /\ pc' = [pc EXCEPT ![w] = "waiting"]
    /\ stopped' = FALSE
    /\ UNCHANGED <<commands, batch, abandoned, caller, wire, countVars>>

\* start() does nothing while a worker runs.  It clears the event even if a
\* worker that stop() abandoned has not seen it yet.
Start ==
    /\ caller = Idle
    /\ ~Running
    /\ \E w \in Workers \ Live :
          /\ thread' = w
          /\ pc' = [pc EXCEPT ![w] = "waiting"]
    /\ stopped' = FALSE
    /\ UNCHANGED <<commands, batch, abandoned, caller, wire, countVars>>

\* Fault: an entry that is there already is kept (setdefault).
PublishStoreIfAbsent(k, move) ==
    /\ caller = Idle
    /\ Issue(k)
    /\ commands' = [commands EXCEPT
                       ![k] = IF @.n > 0 THEN @
                              ELSE [n |-> issued + 1, move |-> move, old |-> FALSE]]
    /\ caller' = [at |-> "publishing", keys |-> {k}, move |-> move]
    /\ UNCHANGED <<stopped, thread, workerVars, wire>>

\* publish(), under the lock: the command replaces the robot's entry.
PublishStore(k, move) ==
    /\ caller = Idle
    /\ Issue(k)
    /\ commands' = [commands EXCEPT
                       ![k] = [n |-> issued + 1, move |-> move, old |-> FALSE]]
    /\ caller' = [at |-> "publishing", keys |-> {k}, move |-> move]
    /\ UNCHANGED <<stopped, thread, workerVars, wire>>

\* The rest of publish(), outside the lock.
PublishSend(sent) ==
    /\ caller.at = "publishing"
    /\ wire' = [k \in Keys |->
                   IF sent /\ k \in caller.keys
                   THEN [n |-> last[k], move |-> caller.move] ELSE wire[k]]
    /\ caller' = Idle
    /\ UNCHANGED <<tableVars, workerVars, countVars>>

\* emergency_stop: stop() sets the event and waits for its thread ...  (The
\* bound leaves room for the zeroes that follow.)
StopSignal ==
    /\ caller = Idle
    /\ issued + Cardinality(Keys) <= MaxIssued
    /\ stopped' = TRUE
    /\ caller' = [at |-> "joining", keys |-> {}, move |-> FALSE]
    /\ UNCHANGED <<commands, thread, workerVars, wire, countVars>>

\* ... forgets it and clears the table, after which the runtime sends a
\* zero to each robot straight to the socket.
ForgetThread ==
    /\ thread' = NoThread
    /\ commands' = [k \in Keys |-> NoEntry]
    /\ caller' = [at |-> "zeroing", keys |-> Keys, move |-> FALSE]
    /\ UNCHANGED <<stopped, pc, batch, wire, countVars>>

\* Fault: stop() does not join.
JoinedAtOnce ==
    /\ caller.at = "joining"
    /\ ForgetThread
    /\ UNCHANGED abandoned

Joined ==
    /\ caller.at = "joining"
    /\ ~Running
    /\ ForgetThread
    /\ UNCHANGED abandoned

\* The worker is still sending when the join's timeout passes.
JoinTimesOut ==
    /\ caller.at = "joining"
    /\ Running
    /\ ForgetThread
    /\ abandoned' = abandoned \cup {thread}

\* One zero of emergency_stop; a robot whose send raises is skipped.
SendZero(k, sent) ==
    /\ caller.at = "zeroing"
    /\ k \in caller.keys
    /\ Issue(k)
    /\ wire' = IF sent THEN [wire EXCEPT ![k] = [n |-> issued + 1, move |-> FALSE]]
               ELSE wire
    /\ caller' = IF caller.keys = {k} THEN Idle
                 ELSE [caller EXCEPT !.keys = @ \ {k}]
    /\ UNCHANGED <<tableVars, workerVars>>

-----------------------------------------------------------------------------
(* A worker. *)

\* _stop.wait(period) runs out with the event clear.
Wake(w) ==
    /\ pc[w] = "waiting"
    /\ ~stopped
    /\ pc' = [pc EXCEPT ![w] = "woken"]
    /\ UNCHANGED <<tableVars, batch, abandoned, caller, wire, countVars>>

Exit(w) ==
    /\ pc[w] = "waiting"
    /\ stopped
    /\ pc' = [pc EXCEPT ![w] = "dead"]
    /\ abandoned' = abandoned \ {w}
    /\ UNCHANGED <<tableVars, batch, caller, wire, countVars>>

\* Fault: the age of a command is never looked at.
ToSendWhateverAge(entry) == [n |-> entry.n, move |-> entry.move]

\* What a worker will send for an entry: zero for one that is too old.
ToSend(entry) == [n |-> entry.n, move |-> entry.move /\ ~entry.old]

\* The table is copied under the lock, the ages are judged on the copy.
Snapshot(w) ==
    /\ pc[w] = "woken"
    /\ batch' = [batch EXCEPT ![w] = [k \in Keys |-> ToSend(commands[k])]]
    /\ pc' = [pc EXCEPT ![w] =
                 IF \E k \in Keys : commands[k].n > 0 THEN "sending" ELSE "waiting"]
    /\ UNCHANGED <<tableVars, abandoned, caller, wire, countVars>>

\* Fault: an exception in a send ends the worker's loop.
WorkerSendOrDie(w, k, sent) ==
    /\ pc[w] = "sending"
    /\ batch[w][k].n > 0
    /\ wire' = IF sent THEN [wire EXCEPT ![k] = batch[w][k]] ELSE wire
    /\ late' = IF batch[w][k].n # last[k]
               THEN [late EXCEPT ![w][k] = @ + 1] ELSE late
    /\ batch' = [batch EXCEPT ![w][k] = Nothing]
    /\ pc' = [pc EXCEPT ![w] =
                 IF \E j \in Keys \ {k} : batch[w][j].n > 0
                 THEN "sending" ELSE IF sent THEN "waiting" ELSE "dead"]
    /\ UNCHANGED <<tableVars, abandoned, caller, issued, last>>

\* One send of the copy.  An exception is recorded and the loop goes on.
WorkerSend(w, k, sent) ==
    /\ pc[w] = "sending"
    /\ batch[w][k].n > 0
    /\ wire' = IF sent THEN [wire EXCEPT ![k] = batch[w][k]] ELSE wire
    /\ late' = IF batch[w][k].n # last[k]
               THEN [late EXCEPT ![w][k] = @ + 1] ELSE late
    /\ batch' = [batch EXCEPT ![w][k] = Nothing]
    /\ pc' = [pc EXCEPT ![w] =
                 IF \E j \in Keys \ {k} : batch[w][j].n > 0
                 THEN "sending" ELSE "waiting"]
    /\ UNCHANGED <<tableVars, abandoned, caller, issued, last>>

\* The last command of robot k outlives command_ttl_s.
Expire(k) ==
    /\ commands[k].n > 0
    /\ ~commands[k].old
    /\ commands' = [commands EXCEPT ![k].old = TRUE]
    /\ UNCHANGED <<stopped, thread, workerVars, caller, wire, countVars>>

-----------------------------------------------------------------------------
CallerReturns ==
    \/ \E sent \in BOOLEAN : PublishSend(sent)
    \/ Joined
    \/ \E k \in Keys, sent \in BOOLEAN : SendZero(k, sent)

WorkerNext(w) ==
    \/ Wake(w)
    \/ Exit(w)
    \/ Snapshot(w)
    \/ \E k \in Keys, sent \in BOOLEAN : WorkerSend(w, k, sent)

Next ==
    \/ Start
    \/ \E k \in Keys, move \in BOOLEAN : PublishStore(k, move)
    \/ StopSignal
    \/ JoinTimesOut
    \/ CallerReturns
    \/ \E w \in Workers : WorkerNext(w)
    \/ \E k \in Keys : Expire(k)

Spec == Init /\ [][Next]_vars

\* Threads that can run do, time passes, and the network does not lose every
\* datagram a worker sends to a robot.  Nobody has to call the dispatcher.
FairSpec ==
    /\ Spec
    /\ WF_vars(CallerReturns)
    /\ \A w \in Workers : WF_vars(WorkerNext(w))
    /\ \A w \in Workers, k \in Keys : SF_vars(WorkerSend(w, k, TRUE))
    /\ \A k \in Keys : WF_vars(Expire(k))
-----------------------------------------------------------------------------
(* Properties *)

\* Two workers never run side by side unless stop() gave up on one of them:
\* start() looks at the thread it has, stop() waits for it.
OneWorker == Live \subseteq {thread} \cup abandoned

\* Whatever the threads' order, and even beside an abandoned worker, a
\* worker sends a robot at most one command that the console has already
\* replaced: each round starts from a new copy of the table.
LateAtMostOnce == \A w \in Workers, k \in Keys : late[w][k] <= 1

\* After a stop that waited for its worker, a robot that is at rest stays at
\* rest until the console itself sends it something.
StoppedStaysStill ==
    [][ thread = NoThread /\ abandoned = {} /\ caller.at # "publishing"
        => \A k \in Keys : ~wire[k].move => ~wire'[k].move ]_vars

\* A command whose own send was lost still reaches its robot: the worker
\* repeats it until it is replaced or the dispatcher is stopped.
LostSendIsRepeated ==
    \A k \in Keys, i \in 1 .. MaxIssued :
        (thread # NoThread /\ commands[k].n = i)
            ~> (wire[k].n = i \/ last[k] # i \/ thread = NoThread)

\* The fail-safe: if the console goes silent after start(), each
\* robot that has a command comes to rest and stays there.
SilenceStops ==
    \A k \in Keys, i \in 1 .. MaxIssued :
        <>[](thread # NoThread /\ commands[k].n = i) => <>[](~wire[k].move)

=============================================================================
