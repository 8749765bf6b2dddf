-------------------------- MODULE RpcSessionProofs --------------------------
(* Proofs about RpcSession: it implements RpcChannel, it ends only when it  *)
(* has been closed, and it loses neither bytes nor its silence after a      *)
(* decoding error.                                                          *)
EXTENDS RpcSession, TLAPS

USE DEF Callbacks, Closing

-----------------------------------------------------------------------------
(* The type invariant in parts that the provers treat differently.     *)
StreamOK == stream \in Seq(Chunks) /\ Len(stream) <= StreamSize

FlagsOK ==
    /\ partial \in BOOLEAN /\ terminate \in BOOLEAN /\ decode_error \in BOOLEAN
    /\ other_busy \in BOOLEAN /\ close_request \in BOOLEAN

ControlOK ==
    /\ session \in {"none", "open", "dying"}
    /\ owner \in Owners
    /\ callbacks \subseteq {"send", "closed", "empty"}
    /\ flags \subseteq {"NewData", "Disconnect"}
    /\ pc \in {"none", "read", "received", "empty_cb", "wait", "decoded", "handle",
               "send", "send_cb", "closed", "closed_cb", "restore", "failed", "stopped"}
    /\ chunk \in Chunks \cup {NoChunk}
    /\ feeder \in {"idle", "notify"}
    /\ closer \in {"none", "set", "open", "closed"} \cup Closing

LEMMA TypeParts == TypeOK <=> StreamOK /\ FlagsOK /\ ControlOK
BY DEF TypeOK, StreamOK, FlagsOK, ControlOK

LEMMA InitType == Init => TypeOK
<1> SUFFICES ASSUME Init PROVE TypeOK
  OBVIOUS
<1> USE DEF Init
<1>1. StreamOK
  BY StreamAssumption DEF StreamOK
<1>2. FlagsOK
  BY DEF FlagsOK
<1>3. ControlOK
  BY OwnersAssumption DEF ControlOK
<1> QED
  BY <1>1, <1>2, <1>3, TypeParts

(* What a step may do to the stream.                                       *)
StreamStep ==
    \/ stream' = stream
    \/ stream' = <<>>
    \/ stream # <<>> /\ stream' = Tail(stream)
    \/ Len(stream) < StreamSize /\ \E c \in Chunks : stream' = Append(stream, c)

LEMMA StreamSteps == [Next]_vars => StreamStep
<1> SUFFICES ASSUME [Next]_vars PROVE StreamStep
  OBVIOUS
<1> USE DEF StreamStep
<1>1. CASE rpc_session_open
  BY <1>1 DEF rpc_session_open
<1>2. CASE set_callbacks
  BY <1>2 DEF set_callbacks, workerVars
<1>3. ASSUME NEW c \in Chunks, rpc_session_feed(c) PROVE StreamStep
  BY <1>3 DEF rpc_session_feed, Feed, HasRoom, workerVars
<1>4. CASE feed_notifies
  BY <1>4 DEF feed_notifies, workerVars
<1>5. CASE rpc_session_close
  BY <1>5 DEF rpc_session_close, workerVars
<1>6. CASE ClearStep
  BY <1>6 DEF ClearStep, clear_send_bytes_callback, clear_close_callback,
              clear_buffer_is_empty_callback, Cleared, workerVars
<1>7. CASE CloseStep
  BY <1>7 DEF CloseStep, set_disconnect, close_returns, workerVars
<1>8. CASE WorkerStep
  <2>1. CASE furi_stream_buffer_receive
    BY <2>1 DEF furi_stream_buffer_receive, ownerVars
  <2>2. CASE received \/ buffer_is_empty_callback
    BY <2>2 DEF received, buffer_is_empty_callback, ownerVars
  <2>3. CASE furi_thread_flags_wait
    BY <2>3 DEF furi_thread_flags_wait, CutShort, ownerVars
  <2>4. CASE part_decoded \/ message_without_handler
    BY <2>4 DEF part_decoded, message_without_handler, ownerVars
  <2>5. CASE decode_failed \/ terminated
    BY <2>5 DEF decode_failed, terminated, ownerVars
  <2>6. CASE rpc_send \/ send_bytes_callback_returns
    BY <2>6 DEF rpc_send, send_bytes_callback_returns, ownerVars
  <2>7. CASE call_closed_callback \/ closed_callback_returns
    BY <2>7 DEF call_closed_callback, closed_callback_returns, ownerVars
  <2>8. CASE bt_profile_restored
    BY <2>8 DEF bt_profile_restored, ownerVars
  <2> QED
    BY <1>8, <2>1, <2>2, <2>3, <2>4, <2>5, <2>6, <2>7, <2>8 DEF WorkerStep
<1>9. CASE message_handler \/ handler_sends \/ handler_returns
  BY <1>9 DEF message_handler, handler_sends, handler_returns, AfterMessage, ownerVars
<1>10. CASE DaemonStep
  BY <1>10 DEF DaemonStep, free_stream, free_session, workerVars, ownerVars
<1>11. CASE other_session_acquires \/ other_session_releases
  BY <1>11 DEF other_session_acquires, other_session_releases, workerVars, ownerVars
<1>12. CASE UNCHANGED vars
  BY <1>12 DEF vars
<1> QED
  BY <1>1, <1>2, <1>3, <1>4, <1>5, <1>6, <1>7, <1>8, <1>9, <1>10, <1>11, <1>12 DEF Next

LEMMA StreamOKNext == StreamOK /\ StreamStep => StreamOK'
<1> SUFFICES ASSUME StreamOK, StreamStep PROVE StreamOK'
  OBVIOUS
<1> USE DEF StreamOK
<1>1. CASE stream' = stream
  BY <1>1
<1>2. CASE stream' = <<>>
  BY <1>2, StreamAssumption
<1>3. CASE stream # <<>> /\ stream' = Tail(stream)
  BY <1>3, StreamAssumption
<1>4. ASSUME NEW c \in Chunks, Len(stream) < StreamSize, stream' = Append(stream, c)
      PROVE  StreamOK'
  BY <1>4, StreamAssumption
<1> QED
  BY <1>1, <1>2, <1>3, <1>4 DEF StreamStep

LEMMA FlagsOKNext == FlagsOK /\ [Next]_vars => FlagsOK'
<1> SUFFICES ASSUME FlagsOK, [Next]_vars PROVE FlagsOK'
  OBVIOUS
<1> USE DEF FlagsOK
<1>1. CASE rpc_session_open
  BY <1>1 DEF rpc_session_open
<1>2. CASE set_callbacks
  BY <1>2 DEF set_callbacks, workerVars
<1>3. ASSUME NEW c \in Chunks, rpc_session_feed(c) PROVE FlagsOK'
  BY <1>3 DEF rpc_session_feed, workerVars
<1>4. CASE feed_notifies
  BY <1>4 DEF feed_notifies, workerVars
<1>5. CASE rpc_session_close
  BY <1>5 DEF rpc_session_close, workerVars
<1>6. CASE ClearStep
  BY <1>6 DEF ClearStep, clear_send_bytes_callback, clear_close_callback,
              clear_buffer_is_empty_callback, Cleared, workerVars
<1>7. CASE CloseStep
  BY <1>7 DEF CloseStep, set_disconnect, close_returns, workerVars
<1>8. CASE WorkerStep
  <2>1. CASE furi_stream_buffer_receive
    BY <2>1 DEF furi_stream_buffer_receive, ownerVars
  <2>2. CASE received \/ buffer_is_empty_callback
    BY <2>2 DEF received, buffer_is_empty_callback, ownerVars
  <2>3. CASE furi_thread_flags_wait
    BY <2>3 DEF furi_thread_flags_wait, CutShort, ownerVars
  <2>4. CASE part_decoded \/ message_without_handler
    BY <2>4 DEF part_decoded, message_without_handler, ownerVars
  <2>5. CASE decode_failed \/ terminated
    BY <2>5 DEF decode_failed, terminated, ownerVars
  <2>6. CASE rpc_send \/ send_bytes_callback_returns
    BY <2>6 DEF rpc_send, send_bytes_callback_returns, ownerVars
  <2>7. CASE call_closed_callback \/ closed_callback_returns
    BY <2>7 DEF call_closed_callback, closed_callback_returns, ownerVars
  <2>8. CASE bt_profile_restored
    BY <2>8 DEF bt_profile_restored, ownerVars
  <2> QED
    BY <1>8, <2>1, <2>2, <2>3, <2>4, <2>5, <2>6, <2>7, <2>8 DEF WorkerStep
<1>9. CASE message_handler \/ handler_sends \/ handler_returns
  BY <1>9 DEF message_handler, handler_sends, handler_returns, AfterMessage, ownerVars
<1>10. CASE DaemonStep
  BY <1>10 DEF DaemonStep, free_stream, free_session, workerVars, ownerVars
<1>11. CASE other_session_acquires \/ other_session_releases
  BY <1>11 DEF other_session_acquires, other_session_releases, workerVars, ownerVars
<1>12. CASE UNCHANGED vars
  BY <1>12 DEF vars
<1> QED
  BY <1>1, <1>2, <1>3, <1>4, <1>5, <1>6, <1>7, <1>8, <1>9, <1>10, <1>11, <1>12 DEF Next

LEMMA ControlOKNext == StreamOK /\ ControlOK /\ [Next]_vars => ControlOK'
<1> SUFFICES ASSUME StreamOK, ControlOK, [Next]_vars PROVE ControlOK'
  OBVIOUS
<1> USE DEF StreamOK, ControlOK
<1>1. CASE rpc_session_open
  BY <1>1 DEF rpc_session_open
<1>2. CASE set_callbacks
  BY <1>2, OwnersAssumption DEF set_callbacks, workerVars
<1>3. ASSUME NEW c \in Chunks, rpc_session_feed(c) PROVE ControlOK'
  BY <1>3 DEF rpc_session_feed, Feed, workerVars
<1>4. CASE feed_notifies
  BY <1>4 DEF feed_notifies, workerVars
<1>5. CASE rpc_session_close
  BY <1>5 DEF rpc_session_close, workerVars
<1>6. CASE ClearStep
  BY <1>6 DEF ClearStep, clear_send_bytes_callback, clear_close_callback,
              clear_buffer_is_empty_callback, Cleared, workerVars
<1>7. CASE CloseStep
  BY <1>7 DEF CloseStep, set_disconnect, close_returns, workerVars
<1>8. CASE WorkerStep
  <2>1. CASE furi_stream_buffer_receive
    BY <2>1 DEF furi_stream_buffer_receive, ownerVars
  <2>2. CASE received \/ buffer_is_empty_callback
    BY <2>2 DEF received, buffer_is_empty_callback, AfterRead, Accepts, ownerVars
  <2>3. CASE furi_thread_flags_wait
    BY <2>3 DEF furi_thread_flags_wait, Disconnected, CutShort, Messages, Chunks, SavedFlags,
                ownerVars
  <2>4. CASE part_decoded \/ message_without_handler
    BY <2>4 DEF part_decoded, message_without_handler, ownerVars
  <2>5. CASE decode_failed \/ terminated
    BY <2>5 DEF decode_failed, terminated, ownerVars
  <2>6. CASE rpc_send \/ send_bytes_callback_returns
    BY <2>6 DEF rpc_send, send_bytes_callback_returns, AfterSend, ownerVars
  <2>7. CASE call_closed_callback \/ closed_callback_returns
    BY <2>7 DEF call_closed_callback, closed_callback_returns, AfterClosed, AfterMessage, ownerVars
  <2>8. CASE bt_profile_restored
    BY <2>8 DEF bt_profile_restored, ownerVars
  <2> QED
    BY <1>8, <2>1, <2>2, <2>3, <2>4, <2>5, <2>6, <2>7, <2>8 DEF WorkerStep
<1>9. CASE message_handler \/ handler_sends \/ handler_returns
  BY <1>9 DEF message_handler, handler_sends, handler_returns, AfterMessage, ownerVars
<1>10. CASE DaemonStep
  BY <1>10 DEF DaemonStep, free_stream, free_session, workerVars, ownerVars
<1>11. CASE other_session_acquires \/ other_session_releases
  BY <1>11 DEF other_session_acquires, other_session_releases, workerVars, ownerVars
<1>12. CASE UNCHANGED vars
  BY <1>12 DEF vars
<1> QED
  BY <1>1, <1>2, <1>3, <1>4, <1>5, <1>6, <1>7, <1>8, <1>9, <1>10, <1>11, <1>12 DEF Next

LEMMA TypeNext == TypeOK /\ [Next]_vars => TypeOK'
<1> SUFFICES ASSUME TypeOK, [Next]_vars PROVE TypeOK'
  OBVIOUS
<1>1. StreamOK /\ FlagsOK /\ ControlOK
  BY TypeParts
<1>2. StreamOK' /\ FlagsOK' /\ ControlOK'
  BY <1>1, StreamSteps, StreamOKNext, FlagsOKNext, ControlOKNext
<1> QED
  BY <1>2 DEF TypeOK, StreamOK, FlagsOK, ControlOK

(* Type correctness: every variable of the session keeps to its values, and *)
(* the stream to its size.                                                  *)
THEOREM TypeCorrect == Spec => []TypeOK
BY InitType, TypeNext, PTL DEF Spec

-----------------------------------------------------------------------------
(* No thread outlives the session's memory, and the send callback is set    *)
(* only while the transport is between opening and closing.                 *)
LifeInv ==
    /\ session = "none" => pc = "none"
    /\ session = "dying" => pc = "stopped"
    /\ closer \notin {"open", "clear_send"} => "send" \notin callbacks

(* Disconnect is set, and leads to the end, only by rpc_session_close.      *)
EndInv ==
    /\ "Disconnect" \in flags \/ terminate => closer \in {"return", "closed"}
    /\ EndsOnlyWhenClosed

(* From the moment the stream was found empty, somebody answers for what    *)
(* arrives in it.                                                           *)
WakeInv ==
    /\ pc = "wait" /\ ~decode_error => chunk = NoChunk
    /\ pc \in {"received", "empty_cb", "wait"} /\ chunk = NoChunk /\ ~decode_error
          /\ stream # <<>> => flags # {} \/ feeder = "notify"

(* A decoding error keeps the thread inside the read of a new message.      *)
QuietInv == decode_error => pc # "decoded" /\ ~partial

SessionInv == LifeInv /\ EndInv /\ WakeInv /\ QuietInv

LEMMA SessionInit == Init => SessionInv
BY DEF NoChunk, Init, SessionInv, LifeInv, EndInv, EndsOnlyWhenClosed, WakeInv, QuietInv

LEMMA SessionNext == TypeOK /\ SessionInv /\ [Next]_vars => SessionInv'
<1> SUFFICES ASSUME TypeOK, SessionInv, [Next]_vars PROVE SessionInv'
  OBVIOUS
<1> USE DEF Messages, Chunks, NoChunk, TypeOK, SessionInv, LifeInv, EndInv,
            EndsOnlyWhenClosed, WakeInv, QuietInv
<1>1. CASE rpc_session_open
  BY <1>1 DEF rpc_session_open
<1>2. CASE set_callbacks
  BY <1>2 DEF set_callbacks, workerVars
<1>3. ASSUME NEW c \in Chunks, rpc_session_feed(c) PROVE SessionInv'
  BY <1>3 DEF rpc_session_feed, Feed, workerVars
<1>4. CASE feed_notifies
  BY <1>4 DEF feed_notifies, workerVars
<1>5. CASE rpc_session_close
  BY <1>5 DEF rpc_session_close, workerVars
<1>6. CASE ClearStep
  BY <1>6 DEF ClearStep, clear_send_bytes_callback, clear_close_callback,
              clear_buffer_is_empty_callback, Cleared, workerVars
<1>7. CASE CloseStep
  BY <1>7 DEF CloseStep, set_disconnect, close_returns, workerVars
<1>8. CASE WorkerStep
  <2>1. CASE furi_stream_buffer_receive
    BY <2>1 DEF furi_stream_buffer_receive, ownerVars
  <2>2. CASE received \/ buffer_is_empty_callback
    BY <2>2 DEF received, buffer_is_empty_callback, AfterRead, Accepts, ownerVars
  <2>3. CASE furi_thread_flags_wait
    BY <2>3 DEF furi_thread_flags_wait, Disconnected, CutShort, Messages, Chunks, SavedFlags,
                ownerVars
  <2>4. CASE part_decoded \/ message_without_handler
    BY <2>4 DEF part_decoded, message_without_handler, ownerVars
  <2>5. CASE decode_failed \/ terminated
    BY <2>5 DEF decode_failed, terminated, ownerVars
  <2>6. CASE rpc_send \/ send_bytes_callback_returns
    BY <2>6 DEF rpc_send, send_bytes_callback_returns, AfterSend, ownerVars
  <2>7. CASE call_closed_callback \/ closed_callback_returns
    BY <2>7 DEF call_closed_callback, closed_callback_returns, AfterClosed, AfterMessage, ownerVars
  <2>8. CASE bt_profile_restored
    BY <2>8 DEF bt_profile_restored, ownerVars
  <2> QED
    BY <1>8, <2>1, <2>2, <2>3, <2>4, <2>5, <2>6, <2>7, <2>8 DEF WorkerStep
<1>9. CASE message_handler \/ handler_sends \/ handler_returns
  BY <1>9 DEF message_handler, handler_sends, handler_returns, AfterMessage, ownerVars
<1>10. CASE DaemonStep
  BY <1>10 DEF DaemonStep, free_stream, free_session, workerVars, ownerVars
<1>11. CASE other_session_acquires \/ other_session_releases
  BY <1>11 DEF other_session_acquires, other_session_releases, workerVars, ownerVars
<1>12. CASE UNCHANGED vars
  BY <1>12 DEF vars
<1> QED
  BY <1>1, <1>2, <1>3, <1>4, <1>5, <1>6, <1>7, <1>8, <1>9, <1>10, <1>11, <1>12 DEF Next

LEMMA SessionCorrect == Spec => [](TypeOK /\ SessionInv)
BY InitType, TypeNext, SessionInit, SessionNext, PTL DEF Spec

-----------------------------------------------------------------------------
(* The session ends, and is freed, only after its owner has closed it.      *)
THEOREM EndsClosed == Spec => []EndsOnlyWhenClosed
<1>1. SessionInv => EndsOnlyWhenClosed
  BY DEF SessionInv, EndInv
<1> QED
  BY <1>1, SessionCorrect, PTL

(* The thread never waits over bytes it could decode, for any size of the   *)
(* stream and however feeding and reading interleave.                       *)
THEOREM NeverWaitsOverBytes == Spec => []NoLostBytes
<1>1. SessionInv => NoLostBytes
  BY DEF SessionInv, WakeInv, NoLostBytes
<1> QED
  BY <1>1, SessionCorrect, PTL

(* Nothing is executed after a decoding error.                              *)
THEOREM QuietAfterError == Spec => QuietAfterDecodeError
<1>1. SessionInv /\ [Next]_vars
        => [decode_error /\ decode_error' => ~(pc = "decoded" /\ pc' # "decoded")]_vars
  BY DEF SessionInv, QuietInv
<1> QED
  BY <1>1, SessionCorrect, PTL DEF Spec, QuietAfterDecodeError

-----------------------------------------------------------------------------
LEMMA ChannelStep == TypeOK /\ SessionInv /\ [Next]_vars => [Channel!Next]_(Channel!vars)
<1> SUFFICES ASSUME TypeOK, SessionInv, [Next]_vars PROVE [Channel!Next]_(Channel!vars)
  OBVIOUS
<1> USE DEF TypeOK, SessionInv, LifeInv, Channel!Next, Channel!vars
<1>1. CASE rpc_session_open
  BY <1>1 DEF rpc_session_open
<1>2. CASE set_callbacks
  BY <1>2, OwnersAssumption DEF set_callbacks, workerVars, Channel!Open
<1>3. ASSUME NEW c \in Chunks, rpc_session_feed(c) PROVE [Channel!Next]_(Channel!vars)
  BY <1>3 DEF rpc_session_feed, workerVars
<1>4. CASE feed_notifies \/ rpc_session_close \/ CloseStep
  BY <1>4 DEF feed_notifies, rpc_session_close, CloseStep, set_disconnect, close_returns,
              workerVars
<1>5. CASE ClearStep
  BY <1>5 DEF ClearStep, clear_send_bytes_callback, clear_close_callback,
              clear_buffer_is_empty_callback, Cleared, CallbacksMutexFree, workerVars,
              Channel!Close
<1>6. CASE rpc_send
  BY <1>6 DEF rpc_send, AfterSend, ownerVars, Channel!BeginSend
<1>7. CASE send_bytes_callback_returns
  BY <1>7 DEF send_bytes_callback_returns, AfterSend, ownerVars, Channel!EndSend
<1>8. CASE WorkerStep /\ ~rpc_send /\ ~send_bytes_callback_returns
  BY <1>8 DEF WorkerStep, furi_stream_buffer_receive, received, buffer_is_empty_callback,
              AfterRead, furi_thread_flags_wait, part_decoded, message_without_handler,
              decode_failed, call_closed_callback, closed_callback_returns, AfterClosed,
              AfterMessage, Disconnected, CutShort,
              bt_profile_restored, terminated, ownerVars
<1>9. CASE message_handler \/ handler_sends \/ handler_returns
  BY <1>9 DEF message_handler, handler_sends, handler_returns, AfterMessage, ownerVars
<1>10. CASE DaemonStep
  BY <1>10 DEF DaemonStep, free_stream, free_session, workerVars, ownerVars
<1>11. CASE other_session_acquires \/ other_session_releases
  BY <1>11 DEF other_session_acquires, other_session_releases, workerVars, ownerVars
<1>12. CASE UNCHANGED vars
  BY <1>12 DEF vars
<1> QED
  BY <1>1, <1>2, <1>3, <1>4, <1>5, <1>6, <1>7, <1>8, <1>9, <1>10, <1>11, <1>12
     DEF Next, WorkerStep

(* The session implements the contract its transports rely on: a send       *)
(* callback runs only between opening and closing, and closing waits for it.*)
THEOREM SessionImplementsChannel == Spec => ImplementsChannel
<1>1. Init => Channel!Init
  BY DEF Init, Channel!Init
<1> QED
  BY <1>1, ChannelStep, SessionCorrect, PTL DEF Spec, ImplementsChannel, Channel!Spec
=============================================================================
