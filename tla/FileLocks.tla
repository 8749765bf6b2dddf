----------------------------- MODULE FileLocks ------------------------------
(***************************************************************************)
(* What the storage service promises to those who open files and           *)
(* directories: each path has one holder at a time, from the open that was *)
(* granted until the path is released.                                     *)
(***************************************************************************)
CONSTANTS
    Clients,        \* those who open
    Paths,          \* what they open
    NoPath          \* none of them

VARIABLE held       \* the path that a client holds, or NoPath

Init == held = [c \in Clients |-> NoPath]

Acquire(c, p) ==
    /\ held[c] = NoPath
    /\ \A d \in Clients : held[d] # p
    /\ held' = [held EXCEPT ![c] = p]

Release(c) ==
    /\ held[c] # NoPath
    /\ held' = [held EXCEPT ![c] = NoPath]

Next == \E c \in Clients : Release(c) \/ \E p \in Paths : Acquire(c, p)

Spec == Init /\ [][Next]_held
=============================================================================
