-------------------------- MODULE MCViewDispatcher --------------------------
(* An instance: the desktop's view port, the application's, and one other. *)
EXTENDS ViewDispatcher, TLC

CONSTANTS Up, Down, Desktop, Popup, Menu, List, Flipped

MCLayerOf == (Desktop :> "Desktop") @@ (App :> "Fullscreen") @@ (Popup :> "Fullscreen")
(* Up and Down are exchanged in the left hand and in a flipped view, and   *)
(* are what they were in a flipped view in the left hand.                  *)
Opposite(k) == CHOOSE j \in Keys : j # k \/ Keys = {k}

MCKeyMap ==
    [left \in BOOLEAN |-> [turn \in BOOLEAN |->
        [k \in Keys |-> IF left = turn THEN k ELSE Opposite(k)]]]

(* Two of the views, and the keys, may be exchanged.                       *)
MCSymmetry == Permutations({Menu, List}) \cup Permutations({Up, Down})
=============================================================================
