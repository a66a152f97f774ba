---------------------- MODULE CommandDispatcherProofs ----------------------
(***************************************************************************)
(* What holds of CommandDispatcher for any number of robots, of workers    *)
(* and of commands.                                                        *)
(***************************************************************************)
EXTENDS CommandDispatcher, TLAPS

\* Every step keeps the shape of the dispatcher's state.
LEMMA TypeStep == TypeOK /\ [Next]_vars => TypeOK'
<1> SUFFICES ASSUME TypeOK, [Next]_vars PROVE TypeOK'
  OBVIOUS
<1> USE MaxIssuedAssumption
<1> USE DEF TypeOK, Entries, Commands, Callers, tableVars, workerVars, countVars
<1>1. CASE Start
  BY <1>1 DEF Start, Live
<1>2. ASSUME NEW k \in Keys, NEW move \in BOOLEAN, PublishStore(k, move)
      PROVE  TypeOK'
  BY <1>2 DEF PublishStore, Issue, Idle
<1>3. CASE StopSignal
  BY <1>3 DEF StopSignal, Idle
<1>4. CASE JoinTimesOut
  BY <1>4 DEF JoinTimesOut, ForgetThread, NoEntry, Idle, Running, Live
<1>5. ASSUME NEW sent \in BOOLEAN, PublishSend(sent)
      PROVE  TypeOK'
  BY <1>5 DEF PublishSend, Idle
<1>6. CASE Joined
  BY <1>6 DEF Joined, ForgetThread, NoEntry, Idle
<1>7. ASSUME NEW k \in Keys, NEW sent \in BOOLEAN, SendZero(k, sent)
      PROVE  TypeOK'
  <2>1. caller' \in Callers
    BY <1>7 DEF SendZero, Idle
  <2>2. wire' \in [Keys -> Commands]
    BY <1>7 DEF SendZero, Issue
  <2> QED
    BY <1>7, <2>1, <2>2 DEF SendZero, Issue
<1>8. ASSUME NEW w \in Workers, Wake(w)
      PROVE  TypeOK'
  BY <1>8 DEF Wake
<1>9. ASSUME NEW w \in Workers, Exit(w)
      PROVE  TypeOK'
  BY <1>9 DEF Exit
<1>10. ASSUME NEW w \in Workers, Snapshot(w)
       PROVE  TypeOK'
  <2>1. [k \in Keys |-> ToSend(commands[k])] \in [Keys -> Commands]
    BY DEF ToSend
  <2> QED
    BY <1>10, <2>1 DEF Snapshot
<1>11. ASSUME NEW w \in Workers, NEW k \in Keys, NEW sent \in BOOLEAN,
              WorkerSend(w, k, sent)
       PROVE  TypeOK'
  BY <1>11 DEF WorkerSend, Nothing
<1>12. ASSUME NEW k \in Keys, Expire(k)
       PROVE  TypeOK'
  <2>1. commands' = [commands EXCEPT ![k] = [commands[k] EXCEPT !.old = TRUE]]
        /\ UNCHANGED <<stopped, thread, workerVars, caller, wire, countVars>>
    BY <1>12 DEF Expire
  <2>2. commands[k] \in Entries
    BY DEF TypeOK
  <2>3. [commands[k] EXCEPT !.old = TRUE] \in Entries
    BY <2>2
  <2>4. commands' \in [Keys -> Entries]
    BY <2>1, <2>3
  <2> QED
    BY <2>1, <2>4
<1>13. CASE UNCHANGED vars
  BY <1>13 DEF vars
<1> HIDE MaxIssuedAssumption
<1> HIDE DEF TypeOK, Entries, Commands, Callers
<1> QED
  BY <1>1, <1>2, <1>3, <1>4, <1>5, <1>6, <1>7, <1>8, <1>9, <1>10, <1>11,
     <1>12, <1>13 DEF Next, CallerReturns, WorkerNext

LEMMA TypeInit == Init => TypeOK
<1> SUFFICES ASSUME Init PROVE TypeOK
  OBVIOUS
<1>1. 0 \in 0 .. MaxIssued
  BY MaxIssuedAssumption
<1>2. NoEntry \in Entries /\ Nothing \in Commands /\ Idle \in Callers
  BY <1>1 DEF NoEntry, Nothing, Idle, Entries, Commands, Callers
<1>3. NoBatch \in [Keys -> Commands]
  BY <1>2 DEF NoBatch
<1>4. late \in [Workers -> [Keys -> Nat]]
  BY DEF Init
<1> QED
  BY <1>1, <1>2, <1>3, <1>4 DEF Init, TypeOK

\* The dispatcher's fields keep their types.
THEOREM DispatcherTypes == Spec => []TypeOK
BY TypeInit, TypeStep, PTL DEF Spec

-----------------------------------------------------------------------------
\* A second worker needs a stop() that gave up on the first: start() returns
\* while its thread lives, and stop() forgets a thread that has ended.
LEMMA OneWorkerStep == TypeOK /\ OneWorker /\ [Next]_vars => OneWorker'
<1> SUFFICES ASSUME TypeOK, OneWorker, [Next]_vars PROVE OneWorker'
  OBVIOUS
<1> USE DEF TypeOK, OneWorker, Live, tableVars, workerVars, countVars
<1>1. CASE Start
  BY <1>1 DEF Start, Running
<1>2. ASSUME NEW k \in Keys, NEW move \in BOOLEAN, PublishStore(k, move)
      PROVE  OneWorker'
  BY <1>2 DEF PublishStore
<1>3. CASE StopSignal
  BY <1>3 DEF StopSignal
<1>4. CASE JoinTimesOut
  BY <1>4 DEF JoinTimesOut, ForgetThread
<1>5. ASSUME NEW sent \in BOOLEAN, PublishSend(sent)
      PROVE  OneWorker'
  BY <1>5 DEF PublishSend
<1>6. CASE Joined
  BY <1>6 DEF Joined, ForgetThread, Running
<1>7. ASSUME NEW k \in Keys, NEW sent \in BOOLEAN, SendZero(k, sent)
      PROVE  OneWorker'
  BY <1>7 DEF SendZero
<1>8. ASSUME NEW w \in Workers, Wake(w)
      PROVE  OneWorker'
  BY <1>8 DEF Wake
<1>9. ASSUME NEW w \in Workers, Exit(w)
      PROVE  OneWorker'
  BY <1>9 DEF Exit
<1>10. ASSUME NEW w \in Workers, Snapshot(w)
       PROVE  OneWorker'
  BY <1>10 DEF Snapshot
<1>11. ASSUME NEW w \in Workers, NEW k \in Keys, NEW sent \in BOOLEAN,
              WorkerSend(w, k, sent)
       PROVE  OneWorker'
  BY <1>11 DEF WorkerSend
<1>12. ASSUME NEW k \in Keys, Expire(k)
       PROVE  OneWorker'
  BY <1>12 DEF Expire
<1>13. CASE UNCHANGED vars
  BY <1>13 DEF vars
<1> HIDE DEF TypeOK, OneWorker
<1> QED
  BY <1>1, <1>2, <1>3, <1>4, <1>5, <1>6, <1>7, <1>8, <1>9, <1>10, <1>11,
     <1>12, <1>13 DEF Next, CallerReturns, WorkerNext

\* Two workers never run side by side unless stop() gave up on one of them.
THEOREM SingleWorker == Spec => []OneWorker
<1>1. Init => OneWorker
  BY DEF Init, OneWorker, Live
<1> QED
  BY <1>1, TypeInit, TypeStep, OneWorkerStep, PTL DEF Spec

\* The table holds nothing for a robot but the last command issued to it,
\* and nothing at all while stop()'s zeroes go out.  So a copy holds at most
\* one replaced command for a robot, and a worker that has sent it starts
\* again from the table.
LateInv ==
    /\ \A k \in Keys : commands[k].n \in {0, last[k]}
    /\ caller.at = "zeroing" => \A k \in Keys : commands[k].n = 0
    /\ \A w \in Workers, k \in Keys :
          late[w][k] = 0 \/ (late[w][k] = 1 /\ batch[w][k].n \in {0, last[k]})

LEMMA LateStep == TypeOK /\ LateInv /\ [Next]_vars => LateInv'
<1> SUFFICES ASSUME TypeOK, LateInv, [Next]_vars PROVE LateInv'
  OBVIOUS
<1> USE DEF TypeOK, LateInv, Entries, Commands, Callers,
            tableVars, workerVars, countVars
<1>1. CASE Start
  BY <1>1 DEF Start
<1>2. ASSUME NEW k \in Keys, NEW move \in BOOLEAN, PublishStore(k, move)
      PROVE  LateInv'
  BY <1>2 DEF PublishStore, Issue, Idle
<1>3. CASE StopSignal
  BY <1>3 DEF StopSignal, Idle
<1>4. CASE ForgetThread /\ UNCHANGED stopped
  BY <1>4 DEF ForgetThread, NoEntry, Idle
<1>5. ASSUME NEW sent \in BOOLEAN, PublishSend(sent)
      PROVE  LateInv'
  BY <1>5 DEF PublishSend, Idle
<1>6. ASSUME NEW k \in Keys, NEW sent \in BOOLEAN, SendZero(k, sent)
      PROVE  LateInv'
  BY <1>6 DEF SendZero, Issue, Idle
<1>7. ASSUME NEW w \in Workers, Wake(w)
      PROVE  LateInv'
  BY <1>7 DEF Wake
<1>8. ASSUME NEW w \in Workers, Exit(w)
      PROVE  LateInv'
  BY <1>8 DEF Exit
<1>9. ASSUME NEW w \in Workers, Snapshot(w)
      PROVE  LateInv'
  BY <1>9 DEF Snapshot, ToSend
<1>10. ASSUME NEW w \in Workers, NEW k \in Keys, NEW sent \in BOOLEAN,
              WorkerSend(w, k, sent)
       PROVE  LateInv'
  BY <1>10 DEF WorkerSend, Nothing
<1>11. ASSUME NEW k \in Keys, Expire(k)
       PROVE  LateInv'
  BY <1>11 DEF Expire
<1>12. CASE UNCHANGED vars
  BY <1>12 DEF vars
<1> HIDE DEF TypeOK, LateInv, Entries, Commands, Callers
<1> QED
  BY <1>1, <1>2, <1>3, <1>4, <1>5, <1>6, <1>7, <1>8, <1>9, <1>10, <1>11, <1>12
     DEF Next, CallerReturns, WorkerNext, Joined, JoinTimesOut, ForgetThread

\* Even beside an abandoned worker, a worker sends a robot at most one
\* command that the console has already replaced.
THEOREM LateOnce == Spec => []LateAtMostOnce
<1>1. Init => LateInv
  BY DEF Init, LateInv, NoEntry, Idle
<1>2. LateInv => LateAtMostOnce
  BY DEF LateInv, LateAtMostOnce
<1> QED
  BY <1>1, <1>2, TypeInit, TypeStep, LateStep, PTL DEF Spec

-----------------------------------------------------------------------------
\* Without a worker only the console sends, and stop() sends zeroes.
LEMMA StillStep ==
    ASSUME TypeOK, OneWorker, Next,
           thread = NoThread, abandoned = {}, caller.at # "publishing",
           NEW j \in Keys, ~wire[j].move
    PROVE  ~wire'[j].move
<1> USE DEF TypeOK, tableVars, workerVars, countVars
<1>1. Live = {}
  BY NoThreadAssumption DEF OneWorker, Live
<1>2. CASE Start
  BY <1>2 DEF Start
<1>3. ASSUME NEW k \in Keys, NEW move \in BOOLEAN, PublishStore(k, move)
      PROVE  ~wire'[j].move
  BY <1>3 DEF PublishStore
<1>4. CASE StopSignal
  BY <1>4 DEF StopSignal
<1>5. CASE JoinTimesOut
  BY <1>5 DEF JoinTimesOut, ForgetThread
<1>6. ASSUME NEW sent \in BOOLEAN, PublishSend(sent)
      PROVE  ~wire'[j].move
  BY <1>6 DEF PublishSend
<1>7. CASE Joined
  BY <1>7 DEF Joined, ForgetThread
<1>8. ASSUME NEW k \in Keys, NEW sent \in BOOLEAN, SendZero(k, sent)
      PROVE  ~wire'[j].move
  BY <1>8 DEF SendZero, Commands
<1>9. ASSUME NEW w \in Workers, WorkerNext(w)
      PROVE  FALSE
  BY <1>1, <1>9 DEF WorkerNext, Wake, Exit, Snapshot, WorkerSend, Live
<1>10. ASSUME NEW k \in Keys, Expire(k)
       PROVE  ~wire'[j].move
  BY <1>10 DEF Expire
<1> QED
  BY <1>2, <1>3, <1>4, <1>5, <1>6, <1>7, <1>8, <1>9, <1>10
     DEF Next, CallerReturns

\* After a stop that waited for its worker, a robot at rest stays at rest
\* until the console itself sends it something.
THEOREM StopHolds == Spec => StoppedStaysStill
<1> DEFINE Still ==
             thread = NoThread /\ abandoned = {} /\ caller.at # "publishing"
             => \A k \in Keys : ~wire[k].move => ~wire'[k].move
<1>1. TypeOK /\ OneWorker /\ [Next]_vars => [Still]_vars
  BY StillStep
<1>2. Spec => [][Still]_vars
  BY <1>1, DispatcherTypes, SingleWorker, PTL DEF Spec
<1> QED
  BY <1>2 DEF StoppedStaysStill
=============================================================================
