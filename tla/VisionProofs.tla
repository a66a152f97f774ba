----------------------------- MODULE VisionProofs -----------------------------
(* Proofs of the two places where camera packets become a world: the worker     *)
(* processes, for all cameras, bounds and sequences of losses, restarts and     *)
(* faults (the frame list's two copies agree, no camera's view goes back, and   *)
(* only bursts of failures end a worker), and the console's own pipeline, whose *)
(* scene keeps up with its snapshots for any feed and interval.                 *)
EXTENDS VisionWorkers, WorldPipeline, SequenceTheorems, FiniteSetTheorems,
        WellFoundedInduction, TLAPS

--------------------------------------------------------------------------------
(* The frame list. *)

\* A sequence and a set that are two copies of the same distinct elements.
Copies(s, S) ==
    /\ s \in Seq(S)
    /\ IsFiniteSet(S)
    /\ Cardinality(S) = Len(s)
    /\ \A x \in S : \E i \in 1..Len(s) : s[i] = x
    /\ \A i, j \in 1..Len(s) : s[i] = s[j] => i = j

LEMMA CopiesStart == Copies(<<>>, {})
  BY FS_EmptySet, EmptySeq DEF Copies

LEMMA CopiesTakeIn ==
    ASSUME NEW S, NEW s, NEW x, Copies(s, S), x \notin S
    PROVE  Copies(Append(s, x), S \cup {x})
<1> DEFINE T == S \cup {x}
           t == Append(s, x)
<1>1. s \in Seq(T) /\ x \in T /\ Len(s) \in Nat
  BY DEF Copies
<1>2. /\ t \in Seq(T)
      /\ Len(t) = Len(s) + 1
      /\ \A i \in 1..Len(s) : t[i] = s[i]
      /\ t[Len(s) + 1] = x
  BY <1>1, AppendProperties
<1>3. IsFiniteSet(T) /\ Cardinality(T) = Len(t)
  <2>1. IsFiniteSet(S) /\ Cardinality(S) = Len(s)
    BY DEF Copies
  <2>2. IsFiniteSet(T) /\ Cardinality(T) = Cardinality(S) + 1
    BY <2>1, FS_AddElement
  <2> QED
    BY <1>2, <2>1, <2>2
<1>4. \A i \in 1..Len(s) : s[i] \in S
  BY DEF Copies
<1> HIDE DEF t
<1>5. \A i, j \in 1..Len(t) : t[i] = t[j] => i = j
  <2> TAKE i, j \in 1..Len(t)
  <2>1. CASE i \in 1..Len(s) /\ j \in 1..Len(s)
    BY <1>2, <2>1 DEF Copies
  <2>2. CASE i = Len(s) + 1 \/ j = Len(s) + 1
    BY <1>1, <1>2, <1>4, <2>2
  <2> QED
    BY <1>1, <1>2, <2>1, <2>2
<1>6. \A y \in T : \E i \in 1..Len(t) : t[i] = y
  <2> TAKE y \in T
  <2>1. CASE y = x
    BY <1>1, <1>2, <2>1
  <2>2. CASE y \in S
    <3>1. PICK i \in 1..Len(s) : s[i] = y
      BY <2>2 DEF Copies
    <3>2. i \in 1..Len(t) /\ t[i] = y
      BY <1>1, <1>2, <3>1
    <3> QED
      BY <3>2
  <2> QED
    BY <2>1, <2>2
<1> QED
  BY <1>2, <1>3, <1>5, <1>6 DEF Copies, t

LEMMA CopiesForget ==
    ASSUME NEW S, NEW s, Copies(s, S), s # <<>>
    PROVE  Copies(Tail(s), S \ {Head(s)})
<1> DEFINE T == S \ {Head(s)}
           t == Tail(s)
<1>1. /\ Head(s) = s[1] /\ Head(s) \in S
      /\ Len(s) \in Nat /\ Len(s) >= 1
      /\ Len(t) = Len(s) - 1
      /\ t \in Seq(S)
      /\ \A i \in 1..Len(t) : t[i] = s[i + 1]
  BY HeadTailProperties DEF Copies
<1> HIDE DEF t
<1>2. \A i \in 1..Len(t) : t[i] \in T
  BY <1>1 DEF Copies
<1>3. t \in Seq(T)
  BY <1>1, <1>2
<1>4. IsFiniteSet(T) /\ Cardinality(T) = Len(t)
  BY <1>1, FS_RemoveElement DEF Copies
<1>5. \A i, j \in 1..Len(t) : t[i] = t[j] => i = j
  <2> TAKE i, j \in 1..Len(t)
  <2>1. i + 1 \in 1..Len(s) /\ j + 1 \in 1..Len(s)
    BY <1>1
  <2> QED
    BY <1>1, <2>1, SMTT(30) DEF Copies
<1>6. \A y \in T : \E i \in 1..Len(t) : t[i] = y
  <2> TAKE y \in T
  <2>1. PICK i \in 1..Len(s) : s[i] = y
    BY DEF Copies
  <2>2. i - 1 \in 1..Len(t)
    BY <1>1, <2>1
  <2> WITNESS i - 1 \in 1..Len(t)
  <2> QED
    BY <1>1, <2>1, <2>2
<1> QED
  BY <1>3, <1>4, <1>5, <1>6 DEF Copies, t

StoreInv == Copies(frames, lookup) /\ Len(frames) <= HISTORY /\ map = Snapshot(frames)

LEMMA AddFrameKeepsStore ==
    ASSUME StoreInv, NEW f, AddFrame(f)
    PROVE  StoreInv'
<1>1. CASE Refuses(f)
  BY <1>1 DEF AddFrame, StoreInv
<1>2. CASE ~Refuses(f)
  <2> DEFINE full == Len(frames) = HISTORY
             kept == IF full THEN Tail(frames) ELSE frames
             known == IF full THEN lookup \ {Head(frames)} ELSE lookup
  <2>1. frames' = Append(kept, f.num) /\ lookup' = known \cup {f.num} /\ map' = Snapshot(frames')
    BY <1>2 DEF AddFrame
  <2>2. full => frames # <<>>
    BY WorkerBounds DEF StoreInv, Copies
  <2>3. Copies(kept, known) /\ Len(kept) < HISTORY
    <3>1. Copies(frames, lookup) /\ Len(frames) \in Nat /\ Len(frames) <= HISTORY
      BY DEF StoreInv, Copies
    <3>2. CASE full
      <4>1. Len(Tail(frames)) = Len(frames) - 1
        BY <2>2, <3>1, <3>2, HeadTailProperties DEF Copies
      <4> QED
        BY <2>2, <3>1, <3>2, <4>1, CopiesForget, WorkerBounds
    <3>3. CASE ~full
      BY <3>1, <3>3, WorkerBounds
    <3> QED
      BY <3>2, <3>3
  <2>4. f.num \notin known
    BY <1>2 DEF Refuses
  <2> HIDE DEF kept, known
  <2>5. Len(Append(kept, f.num)) <= HISTORY
    BY <2>3, WorkerBounds DEF Copies
  <2> QED
    BY <2>1, <2>3, <2>4, <2>5, CopiesTakeIn DEF StoreInv
<1> QED
  BY <1>1, <1>2

LEMMA StepsKeepStore ==
    ASSUME StoreInv, [Next]_vars
    PROVE  StoreInv'
<1>1. CASE WorldStep
  <2>1. AddFrame(Head(queue)) \/ UNCHANGED <<frames, lookup, map>>
    BY <1>1 DEF WorldStep, UpdateGeometry
  <2> QED
    BY <2>1, AddFrameKeepsStore DEF StoreInv
<1>2. CASE ~WorldStep
  <2>1. UNCHANGED <<frames, lookup, map>>
    BY <1>2
    DEF Next, NewCycle, Publish, Tick, Leave, Clear, VisionStep, VisionFails, model, vars
  <2> QED
    BY <2>1 DEF StoreInv
<1> QED
  BY <1>1, <1>2

\* Whatever was lost, repeated or refused on the way, the frame list's deque
\* and its dictionary hold the same frames, and the world map shows the newest.
THEOREM FrameListAgrees == Spec => []StoreAgrees
<1>1. Init => StoreInv
  BY CopiesStart, WorkerBounds DEF Init, StoreInv, Snapshot
<1>2. StoreInv => StoreAgrees
  <2> SUFFICES ASSUME StoreInv PROVE lookup = Range(frames)
    BY DEF StoreInv, StoreAgrees, Copies
  <2> QED
    BY DEF StoreInv, Copies, Range
<1> QED
  BY <1>1, <1>2, StepsKeepStore, PTL DEF Spec

--------------------------------------------------------------------------------
(* Detections of one camera pass through the socket and the assembler in the    *)
(* order in which they were taken.                                              *)

\* The time of the last detection of a camera that was taken into a frame.
Seen(h, g, c) == IF h # NoFrame /\ c \in DOMAIN h.parts THEN h.parts[c] ELSE g[c]

\* A frame that may be held while g was given out.
NewTo(h, g) ==
    h # NoFrame =>
        /\ h = [num |-> h.num, parts |-> h.parts]
        /\ DOMAIN h.parts \subseteq Range(Cams)
        /\ h.parts \in [DOMAIN h.parts -> Nat]
        /\ \A c \in DOMAIN h.parts : h.parts[c] > g[c]

Views == [Range(Cams) -> Nat]

\* What every camera last contributed once f was given out.
Taken(f, g) == [c \in Range(Cams) |-> IF c \in DOMAIN f THEN f[c] ELSE g[c]]

\* push, of a detection newer than what its camera last contributed: what is
\* held next is newer than what is given out, and no camera's view goes
\* beyond that detection.
LEMMA PushKeepsOrder ==
    ASSUME NEW h, NEW g \in Views, NewTo(h, g),
           NEW d, d.cam \in Range(Cams), d.at \in Nat, Seen(h, g, d.cam) < d.at,
           NEW expected,
           NEW p, p = Push(h, d, expected),
           NEW g2, g2 = IF p.out = NoFrame THEN g ELSE Taken(p.out.parts, g)
    PROVE  /\ g2 \in Views
           /\ NewTo(p.held, g2)
           /\ \A c \in Range(Cams) :
                 Seen(p.held, g2, c) <= IF c = d.cam THEN d.at ELSE Seen(h, g, c)
<1> DEFINE closes == h # NoFrame /\ d.cam \in DOMAIN h.parts
           opens == h = NoFrame \/ closes
           next == IF opens THEN Opened(d) ELSE Joined(h, d)
<1>1. \/ p = [held |-> NoFrame, out |-> next]
      \/ p = [held |-> next, out |-> IF closes THEN h ELSE NoFrame]
  BY DEF Push
<1>2. /\ next = [num |-> next.num, parts |-> next.parts]
      /\ next.parts = IF opens THEN [c \in {d.cam} |-> d.at]
                       ELSE [c \in DOMAIN h.parts \cup {d.cam} |->
                               IF c = d.cam THEN d.at ELSE h.parts[c]]
  BY DEF Opened, Joined, NewTo
<1>3. /\ DOMAIN next.parts = IF opens THEN {d.cam} ELSE DOMAIN h.parts \cup {d.cam}
      /\ next.parts[d.cam] = d.at
      /\ ~opens => \A c \in DOMAIN h.parts \ {d.cam} : next.parts[c] = h.parts[c]
  BY <1>2
<1>4. /\ DOMAIN next.parts \subseteq Range(Cams)
      /\ next.parts \in [DOMAIN next.parts -> Nat]
  <2>1. \A c \in DOMAIN next.parts : next.parts[c] \in Nat /\ c \in Range(Cams)
    BY <1>3 DEF NewTo
  <2>2. next.parts = [c \in DOMAIN next.parts |-> next.parts[c]]
    BY <1>2
  <2> QED
    BY <2>1, <2>2
<1>5. g[d.cam] < d.at
  BY DEF Seen, NewTo, Views
<1> HIDE DEF next
<1>6. CASE p = [held |-> NoFrame, out |-> next]
  <2>1. \/ g2 = g
        \/ g2 = Taken(next.parts, g)
    BY <1>6
  <2>2. /\ g2 \in Views
        /\ \A c \in Range(Cams) : g2[c] = g[c] \/ (c \in DOMAIN next.parts /\ g2[c] = next.parts[c])
    BY <1>4, <2>1 DEF Taken, Views
  <2>3. ASSUME NEW c \in Range(Cams)
        PROVE  g2[c] <= IF c = d.cam THEN d.at ELSE Seen(h, g, c)
    BY <1>3, <1>5, <2>2 DEF Seen, NewTo, Views
  <2> QED
    BY <1>6, <2>2, <2>3 DEF NewTo, Seen
<1>7. CASE p = [held |-> next, out |-> NoFrame]
  <2>1. g2 = g
    BY <1>7
  <2>2. \A c \in DOMAIN next.parts : next.parts[c] > g[c]
    BY <1>3, <1>5 DEF NewTo
  <2> QED
    BY <1>2, <1>3, <1>4, <1>5, <1>7, <2>1, <2>2 DEF NewTo, Seen, Views
<1>8. CASE closes /\ p = [held |-> next, out |-> h]
  <2>1. g2 = Taken(h.parts, g)
    BY <1>8
  <2>2. /\ g2 \in Views
        /\ \A c \in Range(Cams) : g2[c] = IF c \in DOMAIN h.parts THEN h.parts[c] ELSE g[c]
    BY <1>8, <2>1 DEF NewTo, Taken, Views
  <2>3. DOMAIN next.parts = {d.cam} /\ d.at > g2[d.cam]
    BY <1>3, <1>8, <2>2 DEF Seen
  <2> QED
    BY <1>2, <1>3, <1>4, <1>8, <2>2, <2>3 DEF NewTo, Seen, Views
<1> QED
  BY <1>1, <1>6, <1>7, <1>8

Detections == [cam : Range(Cams), num : Int, at : Nat, geo : BOOLEAN]

\* Of each camera the socket holds ever later detections, none older than what
\* the assembler has seen of it; a camera that is still to publish in this
\* cycle has been seen in earlier ones only.
OrderInv ==
    /\ setup \in [lost : Nat, restarts : Nat, faults : Nat, cycles : Nat, ahead : Nat]
    /\ cycle \in Nat /\ base \in Nat
    /\ toSend \in Seq(Range(Cams))
    /\ \A i, j \in 1..Len(toSend) : toSend[i] = toSend[j] => i = j
    /\ socket \in Seq(Detections)
    /\ given \in Views /\ NewTo(held, given)
    /\ \A i, j \in 1..Len(socket) :
          i < j /\ socket[i].cam = socket[j].cam => socket[i].at < socket[j].at
    /\ \A i \in 1..Len(socket) :
          /\ Seen(held, given, socket[i].cam) < socket[i].at
          /\ socket[i].at <= cycle
          /\ \A k \in 1..Len(toSend) : toSend[k] = socket[i].cam => socket[i].at < cycle
    /\ \A c \in Range(Cams) : Seen(held, given, c) <= cycle
    /\ \A k \in 1..Len(toSend) : Seen(held, given, toSend[k]) < cycle

LEMMA CameraTypes == Cams \in Seq(Range(Cams)) /\ Len(Cams) \in Nat \ {0}
  BY CameraAssumption

LEMMA VisionStepKeepsOrder ==
    ASSUME OrderInv, VisionStep
    PROVE  OrderInv'
<1> DEFINE d == Head(socket)
           p == Push(held, d, Len(Cams))
<1>1. /\ socket # <<>> /\ socket' = Tail(socket)
      /\ held' = p.held
      /\ given' = IF p.out = NoFrame THEN given ELSE Taken(p.out.parts, given)
      /\ UNCHANGED <<setup, cycle, base, toSend>>
  BY DEF VisionStep, source, Taken
<1>2. /\ d \in Detections /\ d = socket[1]
      /\ Len(socket) \in Nat \ {0}
      /\ socket' \in Seq(Detections)
      /\ Len(socket') = Len(socket) - 1
      /\ \A i \in 1..Len(socket') : socket'[i] = socket[i + 1]
  BY <1>1, HeadTailProperties, LenProperties DEF OrderInv
<1>3. d.cam \in Range(Cams) /\ d.at \in Nat /\ Seen(held, given, d.cam) < d.at
  <2>1. 1 \in 1..Len(socket)
    BY <1>2
  <2>2. Seen(held, given, socket[1].cam) < socket[1].at
    BY <2>1 DEF OrderInv
  <2>3. d.cam \in Range(Cams) /\ d.at \in Nat
    BY <1>2 DEF Detections
  <2> QED
    BY <1>2, <2>2, <2>3
<1> HIDE DEF d
<1>4. /\ given' \in Views
      /\ NewTo(held', given')
      /\ \A c \in Range(Cams) :
            Seen(held', given', c) <= IF c = d.cam THEN d.at ELSE Seen(held, given, c)
  BY <1>1, <1>3, PushKeepsOrder DEF OrderInv
<1>5. \A h, g, c : NewTo(h, g) /\ g \in Views /\ c \in Range(Cams) => Seen(h, g, c) \in Nat
  BY DEF NewTo, Views, Seen
<1>6. ASSUME NEW i \in 1..Len(socket'), NEW j \in 1..Len(socket'),
             i < j, socket'[i].cam = socket'[j].cam
      PROVE  socket'[i].at < socket'[j].at
  <2>1. i + 1 \in 1..Len(socket) /\ j + 1 \in 1..Len(socket)
    BY <1>2
  <2>2. socket'[i] = socket[i + 1] /\ socket'[j] = socket[j + 1] /\ i + 1 < j + 1
    BY <1>2, <1>6
  <2>3. socket[i + 1].cam = socket[j + 1].cam
    BY <1>6, <2>2
  <2>4. socket[i + 1].at < socket[j + 1].at
    BY <2>1, <2>2, <2>3 DEF OrderInv
  <2> QED
    BY <2>2, <2>4
<1>7. ASSUME NEW i \in 1..Len(socket')
      PROVE  /\ Seen(held', given', socket'[i].cam) < socket'[i].at
             /\ socket'[i].at <= cycle
             /\ \A k \in 1..Len(toSend) : toSend[k] = socket'[i].cam => socket'[i].at < cycle
  <2>1. i + 1 \in 1..Len(socket) /\ 1 \in 1..Len(socket) /\ 1 < i + 1
    BY <1>2
  <2>2. socket[i + 1] \in Detections
    BY <2>1 DEF OrderInv
  <2>3. /\ Seen(held, given, socket[i + 1].cam) < socket[i + 1].at
        /\ d.cam = socket[i + 1].cam => d.at < socket[i + 1].at
    BY <1>2, <2>1 DEF OrderInv
  <2>4. /\ Seen(held, given, socket[i + 1].cam) \in Nat
        /\ Seen(held', given', socket[i + 1].cam) \in Nat
    BY <1>4, <1>5, <2>2 DEF OrderInv, Detections
  <2>5. Seen(held', given', socket[i + 1].cam) < socket[i + 1].at
    BY <1>3, <1>4, <2>2, <2>3, <2>4 DEF Detections
  <2> QED
    BY <1>2, <2>1, <2>5 DEF OrderInv
<1>8. d.at <= cycle /\ \A k \in 1..Len(toSend) : toSend[k] = d.cam => d.at < cycle
  BY <1>2 DEF OrderInv
<1>9. \A c \in Range(Cams) : Seen(held', given', c) <= cycle
  BY <1>3, <1>4, <1>5, <1>8, SMTT(30) DEF OrderInv
<1>10. ASSUME NEW k \in 1..Len(toSend)
       PROVE  Seen(held', given', toSend[k]) < cycle
  <2>1. toSend[k] \in Range(Cams) /\ Seen(held, given, toSend[k]) < cycle
    BY DEF OrderInv
  <2>2. /\ Seen(held, given, toSend[k]) \in Nat
        /\ Seen(held', given', toSend[k]) \in Nat
    BY <1>4, <1>5, <2>1 DEF OrderInv
  <2>3. Seen(held', given', toSend[k])
          <= IF toSend[k] = d.cam THEN d.at ELSE Seen(held, given, toSend[k])
    BY <1>4, <2>1
  <2>4. toSend[k] = d.cam => d.at < cycle
    BY <1>8
  <2>5. cycle \in Nat
    BY DEF OrderInv
  <2> QED
    BY <1>3, <2>1, <2>2, <2>3, <2>4, <2>5
<1> QED
  BY <1>1, <1>2, <1>4, <1>6, <1>7, <1>9, <1>10 DEF OrderInv

LEMMA NewCycleKeepsOrder ==
    ASSUME OrderInv, NewCycle
    PROVE  OrderInv'
<1>1. /\ toSend = <<>> /\ cycle' = cycle + 1 /\ toSend' = Cams
      /\ base' \in {base, cycle + 1}
      /\ UNCHANGED <<socket, held, given>>
  BY DEF NewCycle
<1>2. cycle \in Nat /\ cycle' \in Nat /\ base' \in Nat
  BY <1>1 DEF OrderInv
<1>3. setup' \in [lost : Nat, restarts : Nat, faults : Nat, cycles : Nat, ahead : Nat]
  <2> DEFINE B == [lost : Nat, restarts : Nat, faults : Nat, cycles : Nat, ahead : Nat]
  <2>1. setup \in B /\ setup.cycles > 0
    BY DEF OrderInv, NewCycle
  <2>2. setup.cycles \in Nat /\ setup.cycles - 1 \in Nat
    BY <2>1
  <2>3. [setup EXCEPT !.cycles = @ - 1] \in B
    BY <2>1, <2>2
  <2>4. CASE setup.restarts > 0
    <3>1. setup.restarts - 1 \in Nat
      BY <2>1, <2>4
    <3>2. [setup EXCEPT !.cycles = @ - 1, !.restarts = @ - 1] \in B
      BY <2>1, <2>2, <3>1
    <3> QED
      BY <2>3, <3>2 DEF NewCycle
  <2> QED
    BY <2>3, <2>4 DEF NewCycle
<1>4. /\ toSend' \in Seq(Range(Cams))
      /\ \A i, j \in 1..Len(toSend') : toSend'[i] = toSend'[j] => i = j
      /\ \A i \in 1..Len(toSend') : toSend'[i] \in Range(Cams)
  BY <1>1, CameraAssumption
<1>5. \A c \in Range(Cams) : Seen(held, given, c) \in Nat /\ Seen(held, given, c) <= cycle
  BY DEF NewTo, Views, Seen, OrderInv
<1>6. \A i \in 1..Len(socket) : socket[i].at \in Nat /\ socket[i].at <= cycle
  <2>1. \A i \in 1..Len(socket) : socket[i] \in Detections
    BY DEF OrderInv
  <2> QED
    BY <2>1 DEF OrderInv, Detections
<1>7. /\ \A i \in 1..Len(socket) : socket[i].at < cycle'
      /\ \A c \in Range(Cams) : Seen(held, given, c) < cycle'
  BY <1>1, <1>2, <1>5, <1>6
<1>8. /\ socket' \in Seq(Detections)
      /\ given' \in Views /\ NewTo(held', given')
      /\ \A i, k \in 1..Len(socket') :
            i < k /\ socket'[i].cam = socket'[k].cam => socket'[i].at < socket'[k].at
  BY <1>1 DEF OrderInv
<1>9. \A i \in 1..Len(socket') :
         /\ Seen(held', given', socket'[i].cam) < socket'[i].at
         /\ socket'[i].at <= cycle'
         /\ socket'[i].at < cycle'
  <2>1. \A i \in 1..Len(socket) : socket[i].at < cycle' /\ socket[i].at \in Nat
    BY <1>6, <1>7
  <2>2. \A i \in 1..Len(socket) : socket[i].at <= cycle'
    BY <1>2, <2>1
  <2>3. \A i \in 1..Len(socket) : Seen(held, given, socket[i].cam) < socket[i].at
    BY DEF OrderInv
  <2> QED
    BY <1>1, <2>1, <2>2, <2>3
<1>10. /\ \A c \in Range(Cams) : Seen(held', given', c) <= cycle'
       /\ \A k \in 1..Len(toSend') : Seen(held', given', toSend'[k]) < cycle'
  BY <1>1, <1>2, <1>4, <1>5, <1>7
<1> QED
  BY <1>2, <1>3, <1>4, <1>8, <1>9, <1>10 DEF OrderInv

LEMMA PublishKeepsOrder ==
    ASSUME OrderInv, Publish
    PROVE  OrderInv'
<1> DEFINE c == Head(toSend)
<1>1. /\ toSend # <<>> /\ toSend' = Tail(toSend)
      /\ UNCHANGED <<cycle, base, held, given>>
  BY DEF Publish
<1>2. /\ toSend' \in Seq(Range(Cams))
      /\ c = toSend[1] /\ c \in Range(Cams)
      /\ Len(toSend) \in Nat \ {0} /\ Len(toSend') = Len(toSend) - 1
      /\ \A i \in 1..Len(toSend') : toSend'[i] = toSend[i + 1]
  BY <1>1, HeadTailProperties, LenProperties DEF OrderInv
<1>3. ASSUME NEW i \in 1..Len(toSend'), NEW j \in 1..Len(toSend'), toSend'[i] = toSend'[j]
      PROVE  i = j
  <2>1. /\ i + 1 \in 1..Len(toSend) /\ j + 1 \in 1..Len(toSend)
        /\ toSend[i + 1] = toSend[j + 1]
    BY <1>2, <1>3
  <2>2. i + 1 = j + 1
    BY <2>1 DEF OrderInv
  <2> QED
    BY <2>2
<1>4. ASSUME NEW k \in 1..Len(toSend')
      PROVE  toSend'[k] # c /\ \E m \in 1..Len(toSend) : toSend'[k] = toSend[m]
  <2>1. k + 1 \in 1..Len(toSend) /\ 1 \in 1..Len(toSend) /\ k + 1 # 1
    BY <1>2
  <2> QED
    BY <1>2, <2>1 DEF OrderInv
<1>5. setup' \in [lost : Nat, restarts : Nat, faults : Nat, cycles : Nat, ahead : Nat]
  BY DEF Publish, OrderInv
<1>6. \A k \in 1..Len(toSend') : Seen(held, given, toSend'[k]) < cycle
  BY <1>4 DEF OrderInv
<1>7. ASSUME NEW i \in 1..Len(socket)
      PROVE  /\ Seen(held, given, socket[i].cam) < socket[i].at
             /\ socket[i].at <= cycle
             /\ \A k \in 1..Len(toSend') : toSend'[k] = socket[i].cam => socket[i].at < cycle
             /\ socket[i].cam = c => socket[i].at < cycle
  <2>1. 1 \in 1..Len(toSend) /\ c = toSend[1]
    BY <1>2
  <2> QED
    BY <1>4, <2>1 DEF OrderInv
<1>8. CASE UNCHANGED socket
  BY <1>1, <1>2, <1>3, <1>5, <1>6, <1>7, <1>8 DEF OrderInv
<1>9. ASSUME NEW d, socket' = Append(socket, d), d.cam = c, d.at = cycle,
             d \in Detections
      PROVE  OrderInv'
  <2>1. /\ socket' \in Seq(Detections)
        /\ Len(socket') = Len(socket) + 1
        /\ \A i \in 1..Len(socket) : socket'[i] = socket[i]
        /\ socket'[Len(socket) + 1] = d
        /\ Len(socket) \in Nat
    BY <1>9, AppendProperties, LenProperties DEF OrderInv
  <2>2. 1 \in 1..Len(toSend) /\ c = toSend[1]
    BY <1>2
  <2>3. Seen(held, given, c) < cycle /\ \A k \in 1..Len(toSend') : toSend'[k] # c
    BY <1>4, <2>2 DEF OrderInv
  <2>4. ASSUME NEW i \in 1..Len(socket'), NEW j \in 1..Len(socket'),
               i < j, socket'[i].cam = socket'[j].cam
        PROVE  socket'[i].at < socket'[j].at
    <3>1. i \in 1..Len(socket)
      BY <2>1, <2>4
    <3>2. CASE j \in 1..Len(socket)
      BY <2>1, <2>4, <3>1, <3>2 DEF OrderInv
    <3>3. CASE j = Len(socket) + 1
      BY <1>7, <1>9, <2>1, <2>4, <3>1, <3>3
    <3> QED
      BY <2>1, <3>2, <3>3
  <2>5. ASSUME NEW i \in 1..Len(socket')
        PROVE  /\ Seen(held, given, socket'[i].cam) < socket'[i].at
               /\ socket'[i].at <= cycle
               /\ \A k \in 1..Len(toSend') :
                     toSend'[k] = socket'[i].cam => socket'[i].at < cycle
    <3>1. CASE i \in 1..Len(socket)
      BY <1>7, <2>1, <3>1
    <3>2. CASE i = Len(socket) + 1
      BY <1>9, <2>1, <2>3, <3>2 DEF OrderInv
    <3> QED
      BY <2>1, <3>1, <3>2
  <2> QED
    BY <1>1, <1>2, <1>3, <1>5, <1>6, <2>1, <2>4, <2>5 DEF OrderInv
<1>10. UNCHANGED socket \/ \E d \in Detections :
          socket' = Append(socket, d) /\ d.cam = c /\ d.at = cycle
  <2> DEFINE num == Number(c)
             geo == c = Cams[1] /\ (cycle - base) % GEOMETRY_EVERY = 0
             d == [cam |-> c, num |-> num, at |-> cycle, geo |-> geo]
  <2>1. num \in Int
    BY DEF Number, OrderInv
  <2>2. d \in Detections
    BY <1>2, <2>1 DEF Detections, OrderInv
  <2>3. d.cam = c /\ d.at = cycle
    OBVIOUS
  <2>4. UNCHANGED socket \/ socket' = Append(socket, d)
    BY DEF Publish
  <2> QED
    BY <2>2, <2>3, <2>4
<1> QED
  BY <1>8, <1>9, <1>10

LEMMA StepsKeepOrder ==
    ASSUME OrderInv, [Next]_vars
    PROVE  OrderInv'
<1>1. CASE UNCHANGED <<cycle, base, toSend, socket, held, given>>
           /\ setup' \in [lost : Nat, restarts : Nat, faults : Nat, cycles : Nat, ahead : Nat]
  BY <1>1 DEF OrderInv
<1>2. \/ NewCycle \/ Publish \/ VisionStep
      \/ UNCHANGED <<cycle, base, toSend, socket, held, given>>
  BY DEF Next, Tick, Leave, Clear, VisionFails, WorldStep, source, vars
<1>3. CASE ~(NewCycle \/ Publish \/ VisionStep)
  <2>1. UNCHANGED setup \/ (setup.faults > 0 /\ setup' = [setup EXCEPT !.faults = @ - 1])
    BY <1>3 DEF Next, Tick, Leave, Clear, VisionFails, WorldStep, vars
  <2>2. setup' \in [lost : Nat, restarts : Nat, faults : Nat, cycles : Nat, ahead : Nat]
    BY <2>1 DEF OrderInv
  <2> QED
    BY <1>1, <1>2, <1>3, <2>2
<1> QED
  BY <1>3, NewCycleKeepsOrder, PublishKeepsOrder, VisionStepKeepsOrder

\* No camera's view of the field goes back: whatever was lost, and however
\* often the source was restarted, the detection of a camera that is held is
\* newer than any that was given out, and enters one frame at most.
THEOREM DetectionsAreNew == Spec => []HeldIsNew
<1>1. Init => OrderInv
  <2> SUFFICES ASSUME Init PROVE OrderInv
    OBVIOUS
  <2>1. /\ cycle = 0 /\ base = 1 /\ toSend = <<>> /\ socket = <<>> /\ held = NoFrame
        /\ given = [c \in Range(Cams) |-> 0]
        /\ setup \in [lost : Nat, restarts : Nat, faults : Nat, cycles : Nat, ahead : Nat]
    BY SetupAssumption DEF Init
  <2>2. given \in Views /\ \A c \in Range(Cams) : Seen(held, given, c) = 0
    BY <2>1 DEF Views, Seen
  <2> QED
    BY <2>1, <2>2 DEF OrderInv, NewTo
<1>2. OrderInv => HeldIsNew
  BY DEF OrderInv, NewTo, HeldIsNew
<1> QED
  BY <1>1, <1>2, StepsKeepOrder, PTL DEF Spec

--------------------------------------------------------------------------------
(* The error window. *)

LEMMA LeastNatural ==
    ASSUME NEW T, T \subseteq Nat, T # {}
    PROVE  \E x \in T : \A y \in T : x <= y
<1>1. PICK x \in T : \A y \in T : ~(<<y, x>> \in OpToRel(<, Nat))
  BY NatLessThanWellFounded, WFMin
<1>2. \A y \in T : ~(y < x)
  BY <1>1 DEF OpToRel
<1> QED
  BY <1>2

LEMMA NarrowerSeq ==
    ASSUME NEW S, NEW r \in Seq(S), NEW T, \A i \in 1..Len(r) : r[i] \in T
    PROVE  r \in Seq(T)
<1>1. Len(r) \in Nat /\ r \in [1..Len(r) -> S]
  BY LenProperties
<1>2. r \in [1..Len(r) -> T]
  BY <1>1
<1> QED
  BY <1>1, <1>2, SeqDef

\* Ages in the order in which the failures were counted, oldest first.
Aged(s) ==
    /\ s \in Seq(Nat)
    /\ \A i, j \in 1..Len(s) : i < j => s[j] <= s[i]

\* What is in the window is the end of the sequence.
LEMMA RecentIsSuffix ==
    ASSUME NEW s, Aged(s)
    PROVE  \E k \in 1..Len(s) + 1 :
              /\ \A i \in 1..Len(s) : s[i] <= WINDOW <=> i >= k
              /\ Recent(s) \in Seq(0..WINDOW)
              /\ Len(Recent(s)) = Len(s) - k + 1
              /\ \A i \in 1..Len(s) - k + 1 : Recent(s)[i] = s[i + k - 1]
<1> DEFINE T == {k \in 1..Len(s) + 1 : \A i \in 1..Len(s) : i >= k => s[i] <= WINDOW}
           Splits(k) == \A i \in DOMAIN s : s[i] <= WINDOW <=> i >= k
           first == CHOOSE k \in 1..Len(s) + 1 : Splits(k)
<1>1. /\ Len(s) \in Nat /\ DOMAIN s = 1..Len(s)
      /\ \A i \in 1..Len(s) : s[i] \in Nat
  BY DEF Aged
<1>2. Len(s) + 1 \in T /\ T \subseteq Nat
  BY <1>1
<1>3. PICK k \in T : \A y \in T : k <= y
  BY <1>2, LeastNatural
<1>4. ASSUME NEW i \in 1..Len(s), s[i] <= WINDOW
      PROVE  i >= k
  <2>1. \A j \in 1..Len(s) : j >= i => s[j] <= s[i]
    BY <1>1 DEF Aged
  <2>2. \A j \in 1..Len(s) : j >= i => s[j] <= WINDOW
    BY <1>1, <1>4, <2>1, WorkerBounds
  <2>3. i \in T
    BY <1>1, <2>2
  <2> QED
    BY <1>1, <1>3, <2>3
<1>5. k \in 1..Len(s) + 1 /\ Splits(k)
  BY <1>1, <1>3, <1>4
<1>6. first \in 1..Len(s) + 1 /\ Splits(first)
  BY <1>5
<1>7. Recent(s) = SubSeq(s, first, Len(s))
  BY DEF Recent
<1> HIDE DEF first
<1>8. /\ Len(Recent(s)) = Len(s) - first + 1
      /\ \A i \in 1..Len(s) - first + 1 : Recent(s)[i] = s[i + first - 1]
      /\ Recent(s) \in Seq(Nat)
  <2>1. s \in Seq(Nat) /\ first \in 1..Len(s) + 1 /\ Len(s) \in first - 1..Len(s)
    BY <1>1, <1>6 DEF Aged
  <2> QED
    BY <1>1, <1>7, <2>1, SubSeqProperties
<1>9. \A i \in 1..Len(Recent(s)) : Recent(s)[i] \in 0..WINDOW
  <2> TAKE i \in 1..Len(Recent(s))
  <2>1. i + first - 1 \in 1..Len(s) /\ i + first - 1 >= first
    BY <1>1, <1>6, <1>8
  <2>2. s[i + first - 1] <= WINDOW /\ s[i + first - 1] \in Nat
    BY <1>1, <1>6, <2>1
  <2> QED
    BY <1>8, <2>2, WorkerBounds
<1>10. Recent(s) \in Seq(0..WINDOW)
  BY <1>8, <1>9, NarrowerSeq
<1> QED
  BY <1>1, <1>6, <1>8, <1>10

\* Of a running worker's failures f, the e.cnt last ones are those of the window
\* that is open, and the ones before it are too few to have ended the worker.
Burst(f, e) ==
    LET n == Len(f)
    IN  /\ f \in Seq(0..WINDOW)
        /\ \A i, j \in 1..n : i < j => f[j] <= f[i]
        /\ e \in [cnt : 0..MAX_ERRORS - 1, age : 0..NEVER]
        /\ e.age = NEVER => n <= MAX_ERRORS - 2
        /\ e.age # NEVER => /\ e.cnt \in 1..n /\ f[n - e.cnt + 1] = e.age
                            /\ n - e.cnt <= MAX_ERRORS - 2

BurstInv ==
    /\ status \in [Workers -> {"running", "gave_up", "offline"}]
    /\ DOMAIN errors = Workers /\ DOMAIN failed = Workers
    /\ \A w \in Workers :
          /\ status[w] = "running" => Burst(failed[w], errors[w])
          /\ status[w] = "gave_up" => Len(failed[w]) >= MAX_ERRORS

LEMMA FailureKeepsBurst ==
    ASSUME NEW f, NEW e, Burst(f, e)
    PROVE  IF CountError(e).cnt >= MAX_ERRORS
           THEN Len(Append(f, 0)) >= MAX_ERRORS
           ELSE Burst(Append(f, 0), CountError(e))
<1> DEFINE n == Len(f)
           g == Append(f, 0)
           c == CountError(e)
<1>1. /\ n \in Nat /\ WINDOW \in Nat \ {0} /\ MAX_ERRORS \in Nat \ {0, 1}
      /\ e.cnt \in 0..MAX_ERRORS - 1 /\ e.age \in 0..NEVER
      /\ \A i \in 1..n : f[i] \in 0..WINDOW
  BY WorkerBounds DEF Burst
<1>2. /\ g \in Seq(0..WINDOW) /\ Len(g) = n + 1
      /\ \A i \in 1..n : g[i] = f[i]
      /\ g[n + 1] = 0
  BY <1>1, AppendProperties DEF Burst
<1>3. /\ e.age = NEVER => c.cnt = 1 /\ c.age = 0 /\ c = [cnt |-> 1, age |-> 0]
      /\ e.age # NEVER => c.cnt = e.cnt + 1 /\ c.age = e.age
                          /\ c = [cnt |-> e.cnt + 1, age |-> e.age]
  BY DEF CountError, Burst
<1> HIDE DEF g, c
<1>4. \A i, j \in 1..n + 1 : i < j => g[j] <= g[i]
  <2> SUFFICES ASSUME NEW i \in 1..n + 1, NEW j \in 1..n + 1, i < j
               PROVE  g[j] <= g[i]
    OBVIOUS
  <2>a. i \in 1..n
    BY <1>1
  <2>1. CASE j \in 1..n
    <3>1. f[j] <= f[i]
      BY <2>a, <2>1 DEF Burst
    <3> QED
      BY <1>2, <2>a, <2>1, <3>1
  <2>2. CASE j = n + 1
    BY <1>1, <1>2, <2>a, <2>2
  <2>b. n \in Nat
    BY <1>1
  <2>c. j \in 1..n \/ j = n + 1
    BY <2>b
  <2> QED
    BY <2>c, <2>1, <2>2
<1>5. CASE e.age = NEVER
  <2>1. n <= MAX_ERRORS - 2
    BY <1>5 DEF Burst
  <2>2. c \in [cnt : 0..MAX_ERRORS - 1, age : 0..NEVER]
    BY <1>1, <1>3, <1>5 DEF NEVER
  <2>3. c.age # NEVER /\ c.cnt \in 1..n + 1 /\ g[n + 1 - c.cnt + 1] = c.age
        /\ n + 1 - c.cnt <= MAX_ERRORS - 2
    BY <1>1, <1>2, <1>3, <1>5, <2>1 DEF NEVER
  <2>4. Burst(g, c)
    BY <1>2, <1>4, <2>2, <2>3, SMTT(30) DEF Burst
  <2> QED
    BY <1>1, <1>3, <1>5, <2>4 DEF g, c
<1>6. CASE e.age # NEVER
  <2>1. e.cnt \in 1..n /\ f[n - e.cnt + 1] = e.age /\ n - e.cnt <= MAX_ERRORS - 2
    BY <1>6 DEF Burst
  <2>2. c.cnt \in 1..n + 1 /\ n + 1 - c.cnt + 1 \in 1..n
        /\ g[n + 1 - c.cnt + 1] = c.age /\ n + 1 - c.cnt <= MAX_ERRORS - 2
    <3>1. c.cnt = e.cnt + 1 /\ c.age = e.age
      BY <1>3, <1>6
    <3>2. c.cnt \in 1..n + 1 /\ n + 1 - c.cnt + 1 = n - e.cnt + 1 /\ n - e.cnt + 1 \in 1..n
      BY <1>1, <2>1, <3>1, SMTT(30)
    <3>3. g[n - e.cnt + 1] = f[n - e.cnt + 1]
      BY <1>2, <3>2
    <3> QED
      BY <1>1, <2>1, <3>1, <3>2, <3>3, SMTT(30)
  <2>3. CASE c.cnt >= MAX_ERRORS
    BY <1>1, <1>2, <2>2, <2>3 DEF g, c
  <2>4. CASE c.cnt < MAX_ERRORS
    <3>1. c \in [cnt : 0..MAX_ERRORS - 1, age : 0..NEVER]
      BY <1>1, <1>3, <1>6, <2>4
    <3>2. Burst(g, c)
      BY <1>2, <1>3, <1>4, <1>6, <2>2, <3>1 DEF Burst
    <3> QED
      BY <1>1, <2>2, <2>4, <3>2 DEF g, c
  <2> QED
    BY <1>1, <2>2, <2>3, <2>4
<1> QED
  BY <1>5, <1>6

\* The age that a second adds.
OneOlder(e) == [e EXCEPT !.age = IF @ = NEVER THEN NEVER ELSE @ + 1]

LEMMA TickKeepsBurst ==
    ASSUME NEW f, NEW e, Burst(f, e)
    PROVE  Burst(Recent([i \in DOMAIN f |-> f[i] + 1]), OneOlder(e))
<1> DEFINE n == Len(f)
           s == [i \in DOMAIN f |-> f[i] + 1]
           g == Recent(s)
           c == OneOlder(e)
<1>1. /\ n \in Nat /\ WINDOW \in Nat \ {0} /\ MAX_ERRORS \in Nat \ {0, 1}
      /\ e.cnt \in 0..MAX_ERRORS - 1 /\ e.age \in 0..NEVER /\ DOMAIN f = 1..n
      /\ \A i \in 1..n : f[i] \in 0..WINDOW
  BY WorkerBounds DEF Burst
<1>2. s \in Seq(Nat) /\ Len(s) = n /\ \A i \in 1..n : s[i] = f[i] + 1
  BY <1>1
<1>3. Aged(s)
  BY <1>1, <1>2 DEF Aged, Burst
<1> HIDE DEF s
<1>4. PICK k \in 1..n + 1 :
         /\ \A i \in 1..n : s[i] <= WINDOW <=> i >= k
         /\ g \in Seq(0..WINDOW)
         /\ Len(g) = n - k + 1
         /\ \A i \in 1..n - k + 1 : g[i] = s[i + k - 1]
  BY <1>2, <1>3, RecentIsSuffix
<1>5. /\ c \in [cnt : 0..MAX_ERRORS - 1, age : 0..NEVER]
      /\ c.cnt = e.cnt
      /\ c.age = IF e.age = NEVER THEN NEVER ELSE e.age + 1
  <2>1. e \in [cnt : 0..MAX_ERRORS - 1, age : 0..NEVER]
    BY DEF Burst
  <2>2. (IF e.age = NEVER THEN NEVER ELSE e.age + 1) \in 0..NEVER
    BY <1>1 DEF NEVER
  <2> QED
    BY <2>1, <2>2 DEF OneOlder
<1> HIDE DEF g, c
<1>6. \A i, j \in 1..Len(g) : i < j => g[j] <= g[i]
  <2> TAKE i, j \in 1..Len(g)
  <2>1. i + k - 1 \in 1..n /\ j + k - 1 \in 1..n
    BY <1>1, <1>4
  <2>2. g[i] = s[i + k - 1] /\ g[j] = s[j + k - 1]
    BY <1>4
  <2>3. i < j => s[j + k - 1] <= s[i + k - 1]
    <3>1. i < j => i + k - 1 < j + k - 1
      OBVIOUS
    <3> QED
      BY <1>2, <1>3, <2>1, <3>1 DEF Aged
  <2> QED
    BY <2>2, <2>3
<1>7. CASE e.age = NEVER
  <2>1. n <= MAX_ERRORS - 2
    BY <1>7 DEF Burst
  <2> QED
    BY <1>1, <1>4, <1>5, <1>6, <1>7, <2>1, SMTT(30) DEF Burst, g, c, s
<1>8. CASE e.age # NEVER
  <2>1. e.cnt \in 1..n /\ f[n - e.cnt + 1] = e.age /\ n - e.cnt <= MAX_ERRORS - 2
    BY <1>8 DEF Burst
  <2>2. n - e.cnt + 1 \in 1..n /\ s[n - e.cnt + 1] = e.age + 1
    <3>1. n - e.cnt + 1 \in 1..n
      BY <1>1, <2>1
    <3> QED
      BY <1>2, <2>1, <3>1
  <2>3. CASE e.age = WINDOW
    <3>1. n - e.cnt + 1 < k
      BY <1>1, <1>4, <2>2, <2>3, SMTT(30)
    <3>2. Len(g) <= MAX_ERRORS - 2 /\ c.age = NEVER
      BY <1>1, <1>4, <1>5, <2>1, <2>3, <3>1, SMTT(30) DEF NEVER
    <3> QED
      BY <1>4, <1>5, <1>6, <3>2 DEF Burst, g, c, s
  <2>4. CASE e.age < WINDOW
    <3>1. n - e.cnt + 1 >= k
      BY <1>1, <1>4, <2>2, <2>4, SMTT(30)
    <3>a. c.cnt = e.cnt /\ c.age = e.age + 1 /\ Len(g) = n - k + 1
          /\ k \in Nat \ {0} /\ n \in Nat /\ e.cnt \in Nat \ {0}
      BY <1>1, <1>4, <1>5, <1>8, <2>1, SMTT(30)
    <3>2. /\ c.age # NEVER /\ c.cnt \in 1..Len(g)
          /\ Len(g) - c.cnt <= MAX_ERRORS - 2
          /\ Len(g) - c.cnt + 1 \in 1..n - k + 1
          /\ Len(g) - c.cnt + 1 + k - 1 = n - e.cnt + 1
      <4>1. e.age \in Nat /\ e.age + 1 <= WINDOW /\ c.age # NEVER
        BY <1>1, <2>4, <3>a DEF NEVER
      <4>2. e.cnt <= n - k + 1 /\ n - k + 1 - e.cnt <= n - e.cnt
        BY <1>1, <3>1, <3>a
      <4>3. n - e.cnt \in Nat /\ n - e.cnt <= MAX_ERRORS - 2
        BY <2>1, <3>a
      <4>4. n \in Nat /\ k \in Nat \ {0} /\ e.cnt \in Nat \ {0} /\ MAX_ERRORS \in Nat
        BY <1>1, <3>a
      <4>5. /\ e.cnt \in 1..n - k + 1
            /\ n - k + 1 - e.cnt + 1 \in 1..n - k + 1
        BY <4>2, <4>4
      <4>6. n - k + 1 - e.cnt <= MAX_ERRORS - 2
        BY <4>2, <4>3, <4>4
      <4>7. n - k + 1 - e.cnt + 1 + k - 1 = n - e.cnt + 1
        BY <4>4
      <4> QED
        BY <3>a, <4>1, <4>5, <4>6, <4>7, SMTT(30)
    <3>3. g[Len(g) - c.cnt + 1] = c.age
      BY <1>4, <1>5, <1>8, <2>2, <3>2
    <3> QED
      BY <1>4, <1>5, <1>6, <3>2, <3>3 DEF Burst, g, c, s
  <2> QED
    BY <1>1, <1>8, <2>3, <2>4 DEF NEVER
<1> QED
  BY <1>7, <1>8

LEMMA FailuresKeepBurst ==
    ASSUME BurstInv, NEW w \in Workers, status[w] = "running", StepFailed(w)
    PROVE  BurstInv'
<1> DEFINE e == CountError(errors[w])
           f == Append(failed[w], 0)
<1>1. IF e.cnt >= MAX_ERRORS THEN Len(f) >= MAX_ERRORS ELSE Burst(f, e)
  BY FailureKeepsBurst DEF BurstInv
<1>2. /\ DOMAIN errors' = Workers /\ DOMAIN failed' = Workers
      /\ failed'[w] = f
      /\ ~(e.cnt >= MAX_ERRORS) => errors'[w] = e /\ status'[w] = status[w]
      /\ e.cnt >= MAX_ERRORS => status'[w] = "gave_up"
      /\ \A v \in Workers \ {w} : UNCHANGED <<status[v], errors[v], failed[v]>>
      /\ status' \in [Workers -> {"running", "gave_up", "offline"}]
  BY DEF StepFailed, BurstInv
<1> HIDE DEF e, f
<1>3. ASSUME NEW v \in Workers
      PROVE  /\ status'[v] = "running" => Burst(failed'[v], errors'[v])
             /\ status'[v] = "gave_up" => Len(failed'[v]) >= MAX_ERRORS
  <2>1. CASE v = w
    BY <1>1, <1>2, <2>1
  <2>2. CASE v # w
    BY <1>2, <2>2 DEF BurstInv
  <2> QED
    BY <2>1, <2>2
<1> QED
  BY <1>2, <1>3 DEF BurstInv

LEMMA StepsKeepBurst ==
    ASSUME BurstInv, [Next]_vars
    PROVE  BurstInv'
<1>1. CASE UNCHANGED <<status, errors, failed>>
  BY <1>1 DEF BurstInv
<1>2. CASE VisionFails
  BY <1>2, FailuresKeepBurst DEF VisionFails, Workers
<1>3. CASE WorldStep
  <2>1. status["world"] = "running" /\ (StepFailed("world") \/ StepWorked)
    BY <1>3 DEF WorldStep, UpdateGeometry, AddFrame
  <2> QED
    BY <1>1, <2>1, FailuresKeepBurst DEF StepWorked, Workers
<1>4. CASE Tick
  <2>1. /\ UNCHANGED status /\ DOMAIN errors' = Workers /\ DOMAIN failed' = Workers
        /\ \A w \in Workers : errors'[w] = OneOlder(errors[w])
        /\ \A w \in Workers :
              failed'[w] = IF status[w] # "running" THEN failed[w]
                           ELSE Recent([i \in DOMAIN failed[w] |-> failed[w][i] + 1])
    BY <1>4 DEF Tick, OneOlder
  <2> QED
    <3>1. ASSUME NEW w \in Workers
          PROVE  /\ status'[w] = "running" => Burst(failed'[w], errors'[w])
                 /\ status'[w] = "gave_up" => Len(failed'[w]) >= MAX_ERRORS
      <4>1. CASE status[w] = "running"
        <5>1. Burst(Recent([i \in DOMAIN failed[w] |-> failed[w][i] + 1]), OneOlder(errors[w]))
          BY <4>1, TickKeepsBurst DEF BurstInv
        <5> QED
          BY <2>1, <4>1, <5>1
      <4>2. CASE status[w] # "running"
        BY <2>1, <4>2 DEF BurstInv
      <4> QED
        BY <4>1, <4>2
    <3> QED
      BY <2>1, <3>1 DEF BurstInv
<1>5. ASSUME NEW w \in Workers, Leave(w)
      PROVE  BurstInv'
  BY <1>5 DEF Leave, BurstInv
<1> QED
  BY <1>1, <1>2, <1>3, <1>4, <1>5
  DEF Next, NewCycle, Publish, Clear, VisionStep, StepWorked, vars

\* A worker that gives up has failed MAX_ERRORS times within the window, and one
\* that runs has failed in it less often than two windows that meet allow.
THEOREM OnlyBurstsEndWorkers == Spec => []GivesUpOnBursts
<1>1. Init => BurstInv
  <2> SUFFICES ASSUME Init PROVE BurstInv
    OBVIOUS
  <2>1. /\ status = [w \in Workers |-> "running"] /\ failed = [w \in Workers |-> <<>>]
        /\ errors = [w \in Workers |-> [cnt |-> 0, age |-> NEVER]]
    BY DEF Init
  <2>2. Burst(<<>>, [cnt |-> 0, age |-> NEVER])
    BY WorkerBounds DEF Burst, NEVER
  <2> QED
    BY <2>1, <2>2 DEF BurstInv
<1>2. BurstInv => GivesUpOnBursts
  <2> SUFFICES ASSUME BurstInv, NEW w \in Workers, status[w] = "running"
               PROVE  Len(failed[w]) <= 2 * MAX_ERRORS - 3
    BY DEF BurstInv, GivesUpOnBursts
  <2>1. Burst(failed[w], errors[w])
    BY DEF BurstInv
  <2>2. /\ errors[w].cnt \in 0..MAX_ERRORS - 1 /\ Len(failed[w]) \in Nat
        /\ MAX_ERRORS \in Nat \ {0, 1}
    BY <2>1, WorkerBounds DEF Burst
  <2>3. \/ Len(failed[w]) <= MAX_ERRORS - 2
        \/ Len(failed[w]) - errors[w].cnt <= MAX_ERRORS - 2
    BY <2>1 DEF Burst
  <2> QED
    BY <2>2, <2>3
<1> QED
  BY <1>1, <1>2, StepsKeepBurst, PTL DEF Spec

--------------------------------------------------------------------------------
(* The pipeline inside the console. *)

\* A snapshot, or the scene, or the time of the last rebuilding.
Stamped == [at : Times, robots : SUBSET Robots, mode : BOOLEAN, none : BOOLEAN]

\* The time and mode of the last rebuilding are those of the scene, and the scene
\* is there as soon as a snapshot is.
SceneInv ==
    /\ predict \in BOOLEAN
    /\ current \in Stamped /\ scene \in Stamped
    /\ rebuilt = [scene EXCEPT !.robots = {}]
    /\ scene.none => scene = Nothing
    /\ SceneKeepsUp

\* The times there are.
LEMMA TimesAre == OLD \in Nat /\ SCENE_INTERVAL \in Nat \ {0} /\ 0 \in Times /\ -OLD \in Times
BY PipelineBounds DEF Times

\* What is there before the first frame.
LEMMA NothingIs == Nothing \in Stamped /\ [Nothing EXCEPT !.robots = {}] = Nothing
<1>1. Nothing \in Stamped
  BY TimesAre DEF Nothing, Stamped
<1>2. ASSUME NEW s \in Stamped, s.robots = {} PROVE [s EXCEPT !.robots = {}] = s
  BY <1>2 DEF Stamped
<1>3. Nothing.robots = {}
  BY DEF Nothing
<1> QED
  BY <1>1, <1>2, <1>3

\* Aging keeps the order of times and does not pull them apart.
LEMMA OlderIs ==
    ASSUME NEW t \in Times
    PROVE  /\ Older(t) \in Times /\ Older(t) <= t
           /\ \A u \in Times : u - t < SCENE_INTERVAL => Older(u) - Older(t) < SCENE_INTERVAL
BY TimesAre DEF Times, Older

\* A frame that does not rebuild the scene finds one that is recent enough.
LEMMA IngestedKeepsScene ==
    ASSUME SceneInv, predict' = predict, NEW f, Ingested(f, ComputeScene)
    PROVE  SceneInv'
<1>1. CASE f = NoFrame
  BY <1>1 DEF Ingested, SceneInv, SceneKeepsUp
<1>2. CASE f # NoFrame
  <2> DEFINE seen == SnapshotOf(f)
  <2>1. seen \in Stamped /\ seen.at = 0 /\ seen.mode = predict /\ seen.none = FALSE
    BY TimesAre DEF SnapshotOf, RobotsIn, Stamped, SceneInv
  <2>2. /\ current' = seen
        /\ scene' = IF ComputeScene \/ scene = Nothing THEN seen ELSE scene
        /\ rebuilt' = IF ComputeScene THEN [seen EXCEPT !.robots = {}] ELSE rebuilt
    BY <1>2 DEF Ingested
  <2> HIDE DEF seen
  <2>3. CASE ComputeScene
    <3>1. scene' = seen /\ rebuilt' = [seen EXCEPT !.robots = {}] /\ current' = seen
      BY <2>2, <2>3
    <3>2. SceneKeepsUp'
      BY TimesAre, <2>1, <3>1 DEF SceneKeepsUp
    <3> QED
      BY <2>1, <3>1, <3>2 DEF SceneInv
  <2>4. CASE ~ComputeScene
    <3>1. rebuilt # Nothing /\ rebuilt.mode = predict /\ ~(-rebuilt.at >= SCENE_INTERVAL)
      BY <2>4 DEF ComputeScene
    <3>2. scene # Nothing
      BY <3>1, NothingIs DEF SceneInv
    <3>3. rebuilt.mode = scene.mode /\ rebuilt.at = scene.at
      BY DEF SceneInv, Stamped
    <3>4. scene' = scene /\ rebuilt' = rebuilt /\ current' = seen /\ ~scene.none
      BY <2>2, <2>4, <3>2 DEF SceneInv
    <3>5. seen.at - scene.at < SCENE_INTERVAL
      BY TimesAre, <2>1, <3>1, <3>3 DEF SceneInv, Stamped, Times
    <3>6. SceneKeepsUp'
      BY <2>1, <3>1, <3>3, <3>4, <3>5 DEF SceneKeepsUp
    <3> QED
      BY <2>1, <3>4, <3>6 DEF SceneInv
  <2> QED
    BY <2>3, <2>4
<1> QED
  BY <1>1, <1>2

\* A new cycle ages the snapshot and the scene alike.
LEMMA AgingKeepsScene == SceneInv /\ NextCycle => SceneInv'
<1> SUFFICES ASSUME SceneInv, NextCycle PROVE SceneInv'
  OBVIOUS
<1>1. /\ current' = [current EXCEPT !.at = Older(current.at)]
      /\ scene' = [scene EXCEPT !.at = Older(scene.at)]
      /\ rebuilt' = [rebuilt EXCEPT !.at = Older(rebuilt.at)]
      /\ predict' = predict
  BY DEF NextCycle
<1>2. current.at \in Times /\ scene.at \in Times /\ rebuilt.at = scene.at
  BY DEF SceneInv, Stamped
<1>3. Older(current.at) \in Times /\ Older(scene.at) \in Times
  BY <1>2, OlderIs
<1>4. current' \in Stamped /\ scene' \in Stamped /\ rebuilt' = [scene' EXCEPT !.robots = {}]
  BY <1>1, <1>2, <1>3 DEF SceneInv, Stamped
<1>5. scene'.none => scene' = Nothing
  <2>1. Older(Nothing.at) = Nothing.at
    BY DEF Older, Nothing
  <2> QED
    BY <1>1, <2>1 DEF SceneInv, Nothing, Stamped
<1>6. SceneKeepsUp'
  <2>1. /\ current'.none = current.none /\ scene'.none = scene.none
        /\ current'.mode = current.mode /\ scene'.mode = scene.mode
        /\ current'.at = Older(current.at) /\ scene'.at = Older(scene.at)
    BY <1>1 DEF SceneInv, Stamped
  <2> QED
    BY <1>2, <2>1, OlderIs DEF SceneInv, SceneKeepsUp
<1> QED
  BY <1>1, <1>4, <1>5, <1>6 DEF SceneInv

\* Every step of the pipeline keeps the invariant.
LEMMA StepsKeepScene == SceneInv /\ [PipelineNext]_pipelineVars => SceneInv'
<1> SUFFICES ASSUME SceneInv, [PipelineNext]_pipelineVars PROVE SceneInv'
  OBVIOUS
<1>1. CASE Ingest
  <2>1. predict' = predict /\ \E f : Ingested(f, ComputeScene)
    BY <1>1 DEF Ingest
  <2> QED
    BY <2>1, IngestedKeepsScene
<1>2. CASE NextCycle
  BY <1>2, AgingKeepsScene
<1>3. CASE Lose \/ TogglePrediction \/ UNCHANGED pipelineVars
  <2>1. UNCHANGED <<current, scene, rebuilt>> /\ predict' \in BOOLEAN
    BY <1>3 DEF Lose, TogglePrediction, pipelineVars, SceneInv
  <2> QED
    BY <2>1 DEF SceneInv, SceneKeepsUp
<1> QED
  BY <1>1, <1>2, <1>3 DEF PipelineNext

\* Rebuilding the scene is put off, never put aside: when a snapshot is published
\* the scene is less than an interval old and was built for the snapshot's mode
\* (ingest_vision_packet).
THEOREM ScenesKeepUp == PipelineSpec => []SceneKeepsUp
<1>1. PipelineInit => SceneInv
  <2> SUFFICES ASSUME PipelineInit PROVE SceneInv
    OBVIOUS
  <2>1. SceneKeepsUp
    BY DEF PipelineInit, SceneKeepsUp, Nothing
  <2> QED
    BY <2>1, NothingIs DEF PipelineInit, SceneInv
<1>2. SceneInv => SceneKeepsUp
  BY DEF SceneInv
<1> QED
  BY <1>1, <1>2, StepsKeepScene, PTL DEF PipelineSpec
================================================================================
