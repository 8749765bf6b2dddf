---------------------------- MODULE MCEventLoop ----------------------------
(* Instances of EventLoop for TLC.                                         *)
EXTENDS EventLoop, TLC

Mode(event, edge, once) == [event |-> event, edge |-> edge, once |-> once]

LevelModes == {Mode(d, FALSE, FALSE) : d \in Directions}
InLevel    == {Mode("In", FALSE, FALSE)}
InModes    == {Mode("In", e, FALSE) : e \in BOOLEAN}
PlainModes == {Mode(d, e, FALSE) : d \in Directions, e \in BOOLEAN}
OnceModes  == {Mode("In", TRUE, TRUE)}

Symmetry == Permutations(Objects) \cup Permutations(Items) \cup Permutations(Threads)
=============================================================================
