----------------------------- MODULE FrameAssembly -----------------------------
(* How detections of several cameras become frames: VisionFrameAssembler        *)
(* (process_workers/vision_runner.py) over Frame (vision/frame.py).             *)
(*                                                                              *)
(* A detection is a record with the camera that took it, the number this camera *)
(* gives it and the time it was taken. A frame keeps, for every camera seen so  *)
(* far, the time of its detection: what a camera saw is named by that time.     *)
EXTENDS Integers, FiniteSets, FiniteSetsExt, Functions

CONSTANT NoFrame    \* the assembler holds no frame

\* Frame.from_proto: the frame takes the number of the detection that opens it.
Opened(d) == [num |-> d.num, parts |-> [c \in {d.cam} |-> d.at]]

\* Frame.update: the detection's balls and robots join the frame's.
Joined(f, d) ==
    [f EXCEPT !.parts = [c \in DOMAIN @ \cup {d.cam} |->
                            IF c = d.cam THEN d.at ELSE @[c]]]

\* Frame.is_completed: as many cameras as expected, whichever they are.
IsCompleted(f, expected) == Cardinality(DOMAIN f.parts) = expected

\* Frame.t_capture: the latest of the capture times merged.
Captured(f) == Max({f.parts[c] : c \in DOMAIN f.parts})

\* A fault: a frame that is complete is given out and kept.
PushKeeps(held, d, expected) ==
    LET closes == held # NoFrame /\ d.cam \in DOMAIN held.parts
        next == IF held = NoFrame \/ closes THEN Opened(d) ELSE Joined(held, d)
    IN  [held |-> next,
         out |-> IF IsCompleted(next, expected) THEN next
                 ELSE IF closes THEN held ELSE NoFrame]

\* VisionFrameAssembler.push: the frame held next, and the frame given out. A
\* camera seen for the second time closes what is held, complete or not.
Push(held, d, expected) ==
    LET closes == held # NoFrame /\ d.cam \in DOMAIN held.parts
        next == IF held = NoFrame \/ closes THEN Opened(d) ELSE Joined(held, d)
    IN  IF IsCompleted(next, expected)
        THEN [held |-> NoFrame, out |-> next]
        ELSE [held |-> next, out |-> IF closes THEN held ELSE NoFrame]

================================================================================
