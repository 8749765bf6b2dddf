------------------------------ MODULE AppSlot -------------------------------
(***************************************************************************)
(* What the loader promises (loader.h): there is one slot.  It is empty,   *)
(* it holds the application, from before its thread exists until after the *)
(* thread is gone, or one client has it locked and no application can      *)
(* start.                                                                  *)
(***************************************************************************)
CONSTANTS Clients, App, Nobody

VARIABLE owner          \* Nobody, App, or the client that has the lock

Init == owner = Nobody

Launch == owner = Nobody /\ owner' = App

AppGone == owner = App /\ owner' = Nobody

Lock(c) == owner = Nobody /\ owner' = c

Unlock(c) == owner = c /\ owner' = Nobody

Next == Launch \/ AppGone \/ \E c \in Clients : Lock(c) \/ Unlock(c)

Spec == Init /\ [][Next]_owner
=============================================================================
