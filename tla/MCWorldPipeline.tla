---------------------------- MODULE MCWorldPipeline ----------------------------
EXTENDS WorldPipeline

CONSTANTS c1, c2, r1, r2

MCSight == c1 :> (r1 :> 1 @@ r2 :> 1) @@ c2 :> (r1 :> 0 @@ r2 :> 2)

At(x, conf) == <<[x |-> x, conf |-> conf]>>
\* No ball, a ball the tracker may accept, one of low confidence, one outside, two.
MCBalls == {<<>>, At(2, 1), At(0, 0), At(1, 1) \o At(-1, 1), At(0, 2) \o At(1, 1)}
              \cup {At(x, 1) : x \in -1..1}

MCSetups ==
    {[cams |-> <<c1, c2>>, expected |-> 2, lost |-> 3, balls |-> {<<>>}, toggles |-> 2],
     [cams |-> <<c1, c2>>, expected |-> 4, lost |-> 2, balls |-> {<<>>}, toggles |-> 1],
     [cams |-> <<c1>>, expected |-> 1, lost |-> 0, balls |-> MCBalls, toggles |-> 0]}
================================================================================
