----------------------------- MODULE RpcSession -----------------------------
(***************************************************************************)
(* An RPC session (applications/services/rpc/rpc.c): its thread, which     *)
(* decodes messages from a stream and runs their handlers; the transport   *)
(* that feeds bytes, sends responses and closes the session; and the timer *)
(* daemon, which frees the session after its thread has ended.             *)
(*                                                                         *)
(* Each session has its own memory, and sessions share the mutex of the    *)
(* handlers only: other_busy stands for all the other sessions.            *)
(* callbacks_mutex is held exactly while a callback runs under it; setting *)
(* a callback is a critical section of one assignment and thus a step.     *)
(***************************************************************************)
EXTENDS Naturals, Sequences

CONSTANTS
    Owners,         \* the RpcOwners there are
    StreamSize      \* RPC_BUFFER_SIZE, in chunks

(* A chunk is what one call of rpc_pb_stream_read asks for.  A Part leaves *)
(* its message incomplete; the others complete one: of a command, the one  *)
(* that stops the session, one without a handler, one that cannot be       *)
(* decoded or is empty.                                                    *)
Messages == {"Request", "Stop", "Unknown", "Garbage"}
Chunks == Messages \cup {"Part"}
NoChunk == "None"

(* The callbacks each transport sets: the CLI, the expansion worker, BLE.  *)
Callbacks == [Usb |-> {"send", "closed"}, Uart |-> {"send"}, Ble |-> {"send", "empty"}]

ASSUME OwnersAssumption == Owners # {} /\ Owners \subseteq DOMAIN Callbacks
ASSUME StreamAssumption == StreamSize \in Nat \ {0}

VARIABLES
    session,        \* the session's memory: none, open, dying (no stream)
    owner,          \* session->owner
    callbacks,      \* the callbacks that are not NULL
    stream,         \* session->stream
    flags,          \* thread flags of the session's thread
    pc,             \* where the session's thread is
    chunk,          \* what the thread has read last
    partial,        \* it is between two fields of a message
    terminate,      \* session->terminate
    decode_error,   \* session->decode_error
    other_busy,     \* another session holds rpc->busy_mutex
    feeder,         \* the transport's thread that feeds
    closer,         \* the transport's thread that opens and closes
    close_request   \* the transport's closed callback has run

workerVars == <<pc, chunk, partial, terminate, decode_error>>
ownerVars == <<owner, feeder, closer, close_request>>
vars == <<session, owner, callbacks, stream, flags, pc, chunk, partial,
          terminate, decode_error, other_busy, feeder, closer, close_request>>

Closing == {"clear_send", "clear_closed", "clear_empty", "disconnect", "return"}

TypeOK ==
    /\ session \in {"none", "open", "dying"}
    /\ owner \in Owners
    /\ callbacks \subseteq {"send", "closed", "empty"}
    /\ stream \in Seq(Chunks) /\ Len(stream) <= StreamSize
    /\ flags \subseteq {"NewData", "Disconnect"}
    /\ pc \in {"none", "read", "received", "empty_cb", "wait", "decoded", "handle",
               "send", "send_cb", "closed", "closed_cb", "restore", "failed", "stopped"}
    /\ chunk \in Chunks \cup {NoChunk}
    /\ partial \in BOOLEAN /\ terminate \in BOOLEAN /\ decode_error \in BOOLEAN
    /\ other_busy \in BOOLEAN
    /\ feeder \in {"idle", "notify"}
    /\ closer \in {"none", "set", "open", "closed"} \cup Closing
    /\ close_request \in BOOLEAN

-----------------------------------------------------------------------------
(* Locks                                                                   *)

(* rpc->busy_mutex: held by a message handler, whatever it is doing.       *)
InHandler ==
    \/ pc = "handle"
    \/ chunk \in {"Request", "Stop"} /\ pc \in {"send", "send_cb", "closed", "closed_cb"}

BusyMutexFree == ~other_busy /\ ~InHandler

CallbacksMutexFree_always == TRUE

CallbacksMutexFree == pc \notin {"send_cb", "closed_cb"}

other_session_acquires ==
    /\ BusyMutexFree
    /\ other_busy' = TRUE
    /\ UNCHANGED <<session, callbacks, stream, flags, workerVars, ownerVars>>

other_session_releases ==
    /\ other_busy
    /\ other_busy' = FALSE
    /\ UNCHANGED <<session, callbacks, stream, flags, workerVars, ownerVars>>

-----------------------------------------------------------------------------
(* Opening, and the session's thread: rpc_pb_stream_read                   *)

rpc_session_open ==
    /\ session = "none" /\ feeder = "idle" /\ closer \in {"none", "closed"}
    /\ session' = "open"
    /\ owner' \in Owners
    /\ callbacks' = {}
    /\ stream' = <<>> /\ flags' = {}
    /\ pc' = "read" /\ chunk' = NoChunk /\ partial' = FALSE
    /\ terminate' = FALSE /\ decode_error' = FALSE
    /\ closer' = "set"
    /\ close_request' = FALSE
    /\ UNCHANGED <<other_busy, feeder>>

furi_stream_buffer_receive ==
    /\ pc = "read"
    /\ chunk' = IF stream = <<>> THEN NoChunk ELSE Head(stream)
    /\ stream' = IF stream = <<>> THEN <<>> ELSE Tail(stream)
    /\ pc' = "received"
    /\ UNCHANGED <<session, callbacks, flags, partial, terminate, decode_error,
                   other_busy, ownerVars>>

(* After a decoding error the thread "never goes out" of the read.         *)
Accepts == chunk # NoChunk /\ ~decode_error

AfterRead ==
    /\ pc' = IF Accepts THEN "decoded" ELSE "wait"
    /\ chunk' = IF Accepts THEN chunk ELSE NoChunk

(* The buffer_is_empty callback is looked up without the mutex, and called *)
(* afterwards.                                                             *)
received ==
    /\ pc = "received"
    /\ IF stream = <<>> /\ "empty" \in callbacks
       THEN pc' = "empty_cb" /\ UNCHANGED chunk
       ELSE AfterRead
    /\ UNCHANGED <<session, callbacks, stream, flags, partial, terminate,
                   decode_error, other_busy, ownerVars>>

buffer_is_empty_callback ==
    /\ pc = "empty_cb"
    /\ AfterRead
    /\ UNCHANGED <<session, callbacks, stream, flags, partial, terminate,
                   decode_error, other_busy, ownerVars>>

SavedFlags_none == {}

(* "Save disconnect flag and continue reading buffer."                     *)
SavedFlags == {"Disconnect"}

Disconnected == "Disconnect" \in flags /\ stream = <<>>

(* The session is closed and has nothing left to read, which for the        *)
(* decoder is the end of the message: between two fields it may take what   *)
(* it has for the whole of it.                                              *)
CutShort ==
    /\ terminate' = TRUE
    /\ \/ pc' = "failed" /\ UNCHANGED chunk
       \/ partial /\ pc' = "decoded" /\ chunk' \in {"Request", "Stop", "Unknown"}

furi_thread_flags_wait ==
    /\ pc = "wait" /\ flags # {}
    /\ \/ /\ Disconnected
          /\ flags' = {}
          /\ CutShort
       \/ /\ ~Disconnected
          /\ flags' = IF "Disconnect" \in flags THEN SavedFlags ELSE {}
          /\ pc' = "read"
          /\ UNCHANGED <<chunk, terminate>>
    /\ UNCHANGED <<session, callbacks, stream, partial, decode_error, other_busy, ownerVars>>

-----------------------------------------------------------------------------
(* rpc_session_worker                                                      *)

part_decoded ==
    /\ pc = "decoded" /\ chunk = "Part"
    /\ pc' = "read"
    /\ partial' = TRUE
    /\ UNCHANGED <<session, callbacks, stream, flags, chunk, terminate, decode_error,
                   other_busy, ownerVars>>

(* What the thread does when it is done with a message.                    *)
AfterMessage == IF terminate THEN "stopped" ELSE "read"

(* The handler of a command runs under busy_mutex.                         *)
message_handler ==
    /\ pc = "decoded" /\ chunk \in {"Request", "Stop"}
    /\ BusyMutexFree
    /\ pc' = IF chunk = "Stop" THEN "send" ELSE "handle"
    /\ partial' = FALSE
    /\ UNCHANGED <<session, callbacks, stream, flags, chunk, terminate, decode_error,
                   other_busy, ownerVars>>

message_without_handler ==
    /\ pc = "decoded" /\ chunk = "Unknown"
    /\ pc' = IF terminate THEN "stopped" ELSE "send"
    /\ partial' = FALSE
    /\ UNCHANGED <<session, callbacks, stream, flags, chunk, terminate, decode_error,
                   other_busy, ownerVars>>

decode_failed ==
    /\ pc = "decoded" /\ chunk = "Garbage"
    /\ stream' = <<>>
    /\ decode_error' = TRUE
    /\ pc' = "send"
    /\ partial' = FALSE
    /\ UNCHANGED <<session, callbacks, flags, chunk, terminate, other_busy,
                   ownerVars>>

(* A command sends any number of responses.                                *)
handler_sends ==
    /\ pc = "handle"
    /\ pc' = "send"
    /\ UNCHANGED <<session, callbacks, stream, flags, chunk, partial, terminate,
                   decode_error, other_busy, ownerVars>>

handler_returns ==
    /\ pc = "handle"
    /\ pc' = AfterMessage
    /\ UNCHANGED <<session, callbacks, stream, flags, chunk, partial, terminate,
                   decode_error, other_busy, ownerVars>>

AfterSend == IF chunk = "Request" THEN "handle"
             ELSE IF chunk \in {"Stop", "Garbage"} THEN "closed" ELSE "read"

rpc_send ==
    /\ pc = "send"
    /\ pc' = IF "send" \in callbacks THEN "send_cb" ELSE AfterSend
    /\ UNCHANGED <<session, callbacks, stream, flags, chunk, partial, terminate,
                   decode_error, other_busy, ownerVars>>

send_bytes_callback_returns ==
    /\ pc = "send_cb"
    /\ pc' = AfterSend
    /\ UNCHANGED <<session, callbacks, stream, flags, chunk, partial, terminate,
                   decode_error, other_busy, ownerVars>>

(* After a decoding error the BLE session has its transport restarted.     *)
AfterClosed == IF chunk = "Garbage" /\ owner = "Ble" THEN "restore" ELSE AfterMessage

call_closed_callback ==
    /\ pc = "closed"
    /\ pc' = IF "closed" \in callbacks THEN "closed_cb" ELSE AfterClosed
    /\ UNCHANGED <<session, callbacks, stream, flags, chunk, partial, terminate,
                   decode_error, other_busy, ownerVars>>

closed_callback_returns ==
    /\ pc = "closed_cb"
    /\ close_request' = TRUE
    /\ pc' = AfterClosed
    /\ UNCHANGED <<session, callbacks, stream, flags, chunk, partial, terminate,
                   decode_error, other_busy, owner, feeder, closer>>

(* bt_profile_restore_default returns when the bt thread is done with it.  *)
bt_profile_restored ==
    /\ pc = "restore" /\ closer = "closed"
    /\ pc' = "read"
    /\ UNCHANGED <<session, callbacks, stream, flags, chunk, partial, terminate,
                   decode_error, other_busy, ownerVars>>

terminated ==
    /\ pc = "failed"
    /\ stream' = <<>>
    /\ pc' = "stopped"
    /\ UNCHANGED <<session, callbacks, flags, chunk, partial, terminate,
                   decode_error, other_busy, ownerVars>>

-----------------------------------------------------------------------------
(* rpc_session_thread_pending_callback, in the timer daemon                *)

free_stream ==
    /\ pc = "stopped" /\ session = "open"
    /\ session' = "dying"
    /\ stream' = <<>>
    /\ UNCHANGED <<callbacks, flags, workerVars, other_busy, ownerVars>>

free_session ==
    /\ session = "dying"
    /\ session' = "none"
    /\ pc' = "none"
    /\ flags' = {}
    /\ UNCHANGED <<callbacks, stream, chunk, partial, terminate, decode_error,
                   other_busy, ownerVars>>

-----------------------------------------------------------------------------
(* The transport.  The CLI and the expansion worker feed and close from one *)
(* thread; BLE feeds from the GAP thread while the bt thread may close.     *)

SameThread == owner # "Ble"

set_callbacks ==
    /\ closer = "set"
    /\ callbacks' = Callbacks[owner]
    /\ closer' = "open"
    /\ UNCHANGED <<session, stream, flags, workerVars, other_busy, owner, feeder,
                   close_request>>

(* A feed that comes so late that the session has been freed is not        *)
(* followed further: what it does then is undefined.                       *)
MayFeed ==
    session = "open" /\ (closer = "open" \/ (~SameThread /\ closer \in Closing))

HasRoom == Len(stream) < StreamSize

Feed_notified(c) ==
    /\ stream' = Append(stream, c)
    /\ feeder' = "idle"

Feed(c) ==
    /\ stream' = Append(stream, c)
    /\ feeder' = "notify"

rpc_session_feed(c) ==
    /\ feeder = "idle" /\ MayFeed
    /\ HasRoom
    /\ Feed(c)
    /\ UNCHANGED <<session, callbacks, flags, workerVars, other_busy, owner, closer,
                   close_request>>

feed_notifies ==
    /\ feeder = "notify"
    /\ feeder' = "idle"
    /\ flags' = IF session = "none" THEN flags ELSE flags \cup {"NewData"}
    /\ UNCHANGED <<session, callbacks, stream, workerVars, other_busy, owner, closer,
                   close_request>>

rpc_session_close ==
    /\ closer = "open"
    /\ SameThread => feeder = "idle"
    /\ closer' = "clear_send"
    /\ UNCHANGED <<session, callbacks, stream, flags, workerVars, other_busy, owner, feeder,
                   close_request>>

Cleared(callback, from, to) ==
    /\ closer = from /\ CallbacksMutexFree
    /\ callbacks' = callbacks \ {callback}
    /\ closer' = to
    /\ UNCHANGED <<session, stream, flags, workerVars, other_busy, owner, feeder,
                   close_request>>

clear_send_bytes_callback == Cleared("send", "clear_send", "clear_closed")
clear_close_callback == Cleared("closed", "clear_closed", "clear_empty")
clear_buffer_is_empty_callback == Cleared("empty", "clear_empty", "disconnect")

set_disconnect ==
    /\ closer = "disconnect"
    /\ flags' = flags \cup {"Disconnect"}
    /\ closer' = "return"
    /\ UNCHANGED <<session, callbacks, stream, workerVars, other_busy, owner, feeder,
                   close_request>>

close_returns ==
    /\ closer = "return"
    /\ closer' = "closed"
    /\ UNCHANGED <<session, callbacks, stream, flags, workerVars, other_busy, owner, feeder,
                   close_request>>

-----------------------------------------------------------------------------
Init ==
    /\ session = "none" /\ owner \in Owners
    /\ callbacks = {} /\ stream = <<>> /\ flags = {}
    /\ pc = "none" /\ chunk = NoChunk /\ partial = FALSE
    /\ terminate = FALSE /\ decode_error = FALSE
    /\ other_busy = FALSE
    /\ feeder = "idle" /\ closer = "none" /\ close_request = FALSE

WorkerStep ==
    \/ furi_stream_buffer_receive
    \/ received
    \/ buffer_is_empty_callback
    \/ furi_thread_flags_wait
    \/ part_decoded
    \/ message_without_handler
    \/ decode_failed
    \/ rpc_send
    \/ send_bytes_callback_returns
    \/ call_closed_callback
    \/ closed_callback_returns
    \/ bt_profile_restored
    \/ terminated

DaemonStep == free_stream \/ free_session

ClearStep ==
    \/ clear_send_bytes_callback
    \/ clear_close_callback
    \/ clear_buffer_is_empty_callback

CloseStep == set_disconnect \/ close_returns

Next ==
    \/ rpc_session_open
    \/ set_callbacks
    \/ \E c \in Chunks : rpc_session_feed(c)
    \/ feed_notifies
    \/ rpc_session_close
    \/ ClearStep
    \/ CloseStep
    \/ WorkerStep
    \/ message_handler
    \/ handler_sends
    \/ handler_returns
    \/ DaemonStep
    \/ other_session_acquires
    \/ other_session_releases

Spec == Init /\ [][Next]_vars

(* The threads are scheduled; transports take what is sent to them, or are  *)
(* broken and drop it.  A command ends after finitely many responses, and   *)
(* the mutexes, which FreeRTOS gives to their waiters in turn, are got.     *)
(* The bt thread closes the session it is asked to restart.                 *)
Fairness ==
    /\ WF_vars(WorkerStep)
    /\ WF_vars(DaemonStep)
    /\ WF_vars(feed_notifies)
    /\ WF_vars(CloseStep)
    /\ WF_vars(pc = "restore" /\ rpc_session_close)
    /\ WF_vars(other_session_releases)
    /\ SF_vars(message_handler)
    /\ SF_vars(handler_returns)
    /\ SF_vars(ClearStep)

FairSpec == Spec /\ Fairness

-----------------------------------------------------------------------------
(* Properties                                                              *)

(* The session keeps what rpc.h promises about the send callback: no call   *)
(* begins after the callback has been taken back, and none is in progress   *)
(* then, so that the transport may free what it uses.                       *)
Channel == INSTANCE RpcChannel WITH
    open <- "send" \in callbacks, sending <- pc = "send_cb"

ImplementsChannel == Channel!Spec

(* "It is guaranteed that no callbacks will be called as soon as session is *)
(* closed" (rpc.h).                                                         *)
NoCallbackAfterClose ==
    closer = "closed" => pc \notin {"send_cb", "closed_cb", "empty_cb"}

(* "RPC itself can't make decision to close session": the thread ends and   *)
(* the session is freed only after its owner has closed it, whatever is     *)
(* decoded, so that feeding and closing find it alive.                      *)
EndsOnlyWhenClosed ==
    pc \in {"failed", "stopped"} \/ session = "dying" => closer \in {"return", "closed"}

(* The thread does not wait over bytes that it could decode: either it has  *)
(* a flag, or the feeder is about to set one.                               *)
NoLostBytes ==
    pc = "wait" /\ stream # <<>> /\ ~decode_error => flags # {} \/ feeder = "notify"

(* After a decoding error the message boundaries are lost: nothing that     *)
(* arrives later is executed, until the session is closed.                  *)
QuietAfterDecodeError ==
    [][decode_error /\ decode_error' => ~(pc = "decoded" /\ pc' # "decoded")]_vars

(* A session that is being closed is freed, also after a decoding error,    *)
(* with bytes left in the stream, or in the middle of a message, whether    *)
(* that message then fails to decode or is handled as far as it came.       *)
ClosedIsFreed == closer = "clear_send" ~> session = "none"

=============================================================================
