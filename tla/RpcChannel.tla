----------------------------- MODULE RpcChannel -----------------------------
(***************************************************************************)
(* What a transport may rely on when it opens an RPC session (rpc.h): the  *)
(* session's thread calls the send callback only between the opening and   *)
(* rpc_session_close, and rpc_session_close waits for a call in progress.  *)
(* The expansion worker frees what its callback uses on the strength of    *)
(* this, see RpcClosable in Expansion.                                     *)
(***************************************************************************)
VARIABLES
    open,           \* the transport has given a send callback, not taken it back
    sending         \* the session's thread is in the send callback

vars == <<open, sending>>

Init == ~open /\ ~sending

Open == ~open /\ open' = TRUE /\ UNCHANGED sending

BeginSend == open /\ ~sending /\ sending' = TRUE /\ UNCHANGED open

EndSend == sending /\ sending' = FALSE /\ UNCHANGED open

Close == open /\ ~sending /\ open' = FALSE /\ UNCHANGED sending

Next == Open \/ BeginSend \/ EndSend \/ Close

Spec == Init /\ [][Next]_vars
=============================================================================
