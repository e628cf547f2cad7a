---------------------------- MODULE MCProjectState ----------------------------
EXTENDS ProjectState, TLC

CONSTANTS s1, s2, p1, w1, t1, home, known, picked

LengthValue == (s1 :> 3) @@ (s2 :> 2) @@ (p1 :> 2) @@ (w1 :> 2) @@ (t1 :> 2)

AssetsValue == (s1 :> 1) @@ (s2 :> 1) @@ (p1 :> 2)

====
