-------------------------- MODULE ExpansionProofs ---------------------------
(* Proofs about Expansion, for any serial ports, any size of the queue and  *)
(* whatever the line, the module, the card and the applications do: the     *)
(* semaphore of the RPC thread lives long enough, calls are one message at  *)
(* a time, off means quiet until a reload of the settings, a worker is      *)
(* freed after its end unless it was overtaken by an earlier one's, and the *)
(* service is never deaf.                                                   *)
EXTENDS Expansion, TLAPS

USE DEF ctlVars, workerVars, serialVars, appVars, serviceVars, Handled, HandledOn, Returned

-----------------------------------------------------------------------------
(* Types                                                                    *)
MessagesOK == queue \in Seq(Messages) /\ Len(queue) <= QueueSize
              /\ msg \in Messages \cup Reloaded \cup {NoMessage}

ControlOK ==
    /\ state \in {"Disabled", "Enabled", "Running"}
    /\ serial_id \in Serials \cup {NoSerial}
    /\ ctl \in {"get", "handle", "stopping", "freeing"}
    /\ expansion_serial \in Serials \cup {NoSerial}
    /\ irq \subseteq Serials
    /\ app \in {"free", "off", "using"}
    /\ locked \in BOOLEAN /\ reloaded \in BOOLEAN /\ overtaken \in BOOLEAN

WorkerOK ==
    /\ worker \in {"none", "start", "receive", "close", "leave", "release", "notify",
                   "done", "fault"}
    /\ worker_serial \in Serials \cup {NoSerial}
    /\ rx_buf \in BOOLEAN
    /\ rx \in Frames \cup {NoFrame}
    /\ flags \subseteq {"Stop", "Data", "Error"}
    /\ session \in {"HandShake", "Connected", "RpcActive"}
    /\ exit_reason \in {"Unknown", "User", "Error", "Timeout"}
    /\ rpc \in {"none", "idle", "sending"}
    /\ tx_semaphore \in {0, 1, Freed}
    /\ in_use \in [Serials -> {"none", "app", "worker"}]

LEMMA Sessions == DOMAIN Accepted = {"HandShake", "Connected", "RpcActive"}
  BY DEF Accepted

LEMMA TypeParts == TypeOK <=> MessagesOK /\ ControlOK /\ WorkerOK
  BY Sessions DEF TypeOK, MessagesOK, ControlOK, WorkerOK

LEMMA InitType == Init => TypeOK
<1> SUFFICES ASSUME Init PROVE TypeOK
  OBVIOUS
<1>1. MessagesOK
  BY QueueAssumption DEF Init, MessagesOK
<1>2. ControlOK
  BY DEF Init, ControlOK
<1>3. WorkerOK
  BY DEF Init, WorkerOK, Frames, Freed
<1> QED
  BY <1>1, <1>2, <1>3, TypeParts

(* What a step may do to the queue: one message is taken, or one is put.    *)
QueueStep ==
    \/ UNCHANGED queue
    \/ furi_message_queue_get
    \/ \E s \in Serials : expansion_set_listen_serial(s)
    \/ expansion_enable \/ expansion_disable
    \/ detect \/ expansion_worker_callback \/ expansion_storage_callback

LEMMA QueueSteps == [Next]_vars => QueueStep
<1> SUFFICES ASSUME [Next]_vars, ~QueueStep PROVE FALSE
  OBVIOUS
<1>1. UNCHANGED vars \/ ControlStep \/ AppStep \/ WorkerStep \/ RpcStep
        \/ receive_flags \/ rpc_send_begin \/ module_sends \/ line_error
  BY DEF Next, QueueStep
<1>2. ~UNCHANGED vars
  BY DEF vars, QueueStep
<1>3. ~ControlStep
  BY DEF ControlStep, QueueStep, handler_enable, handler_disable, handler_set_listen_serial,
         handler_reload_settings, handler_module_connected, handler_module_disconnected,
         worker_stopped, worker_freed, Ignored, Handled, WorkerStop
<1>4. ~AppStep
  BY DEF AppStep, QueueStep, furi_hal_serial_control_acquire, furi_hal_serial_control_release
<1>5. ~WorkerStep
  BY DEF WorkerStep, QueueStep, worker_start, worker_start_fails, receive_frame,
     receive_timeout,
         rpc_session_close, worker_leave, worker_release
<1>6. ~RpcStep
  BY DEF RpcStep, QueueStep, rpc_send_frame, rpc_send_timeout
<1>7. ~(receive_flags \/ rpc_send_begin \/ module_sends \/ line_error)
  BY DEF QueueStep, receive_flags, rpc_send_begin, module_sends, line_error
<1> QED
  BY <1>1, <1>2, <1>3, <1>4, <1>5, <1>6, <1>7

(* The handlers take their message from the queue or leave it alone.        *)
LEMMA MessagesStep == TypeOK /\ [Next]_vars => MessagesOK'
<1> SUFFICES ASSUME TypeOK, [Next]_vars PROVE MessagesOK'
  OBVIOUS
<1>1. MessagesOK
  BY TypeParts
<1>2. queue' \in Seq(Messages) /\ Len(queue') <= QueueSize
  <2>1. CASE UNCHANGED queue
    BY <1>1, <2>1 DEF MessagesOK
  <2>2. CASE furi_message_queue_get
    <3>1. queue # <<>> /\ queue' = Tail(queue)
      BY <2>2 DEF furi_message_queue_get
    <3> QED
      BY <1>1, <3>1, QueueAssumption DEF MessagesOK
  <2>3. ASSUME NEW m \in Messages, HasRoom, queue' = Append(queue, m)
        PROVE  queue' \in Seq(Messages) /\ Len(queue') <= QueueSize
    BY <1>1, <2>3, QueueAssumption DEF MessagesOK, HasRoom
  <2>4. ASSUME NEW s \in Serials, expansion_set_listen_serial(s)
        PROVE  queue' \in Seq(Messages) /\ Len(queue') <= QueueSize
    BY <2>3, <2>4 DEF expansion_set_listen_serial, CallService, Messages
  <2>5. CASE expansion_enable \/ expansion_disable
    BY <2>3, <2>5 DEF expansion_enable, expansion_disable, CallService, Messages, Locking
  <2>6. CASE detect \/ expansion_worker_callback \/ expansion_storage_callback
    BY <2>3, <2>6 DEF detect, expansion_worker_callback, Disconnected,
       expansion_storage_callback, Messages
  <2> QED
    BY <2>1, <2>2, <2>4, <2>5, <2>6, QueueSteps DEF QueueStep
<1>3. msg' \in Messages \cup Reloaded \cup {NoMessage}
  <2>1. msg' = msg \/ msg' = NoMessage \/ msg' \in Reloaded \/ furi_message_queue_get
    <3>1. CASE UNCHANGED vars
      BY <3>1 DEF vars
    <3>2. CASE ControlStep
      BY <3>2
      DEF ControlStep, handler_enable, handler_disable, handler_set_listen_serial,
          handler_reload_settings, handler_module_connected, handler_module_disconnected,
          worker_stopped, worker_freed, Ignored, Handled, WorkerStop
    <3>3. CASE WorkerStep
      BY <3>3 DEF WorkerStep, worker_start, worker_start_fails, receive_frame,
         receive_timeout,
         rpc_session_close, worker_leave, worker_release
    <3>4. CASE AppStep
      BY <3>4 DEF AppStep, expansion_enable, expansion_disable, CallService,
         expansion_set_listen_serial, furi_hal_serial_control_acquire,
         furi_hal_serial_control_release
    <3>5. CASE RpcStep \/ receive_flags \/ rpc_send_begin \/ module_sends \/ line_error
      BY <3>5 DEF RpcStep, rpc_send_frame, rpc_send_timeout, receive_flags, rpc_send_begin,
         module_sends, line_error
    <3>6. CASE detect \/ expansion_worker_callback \/ expansion_storage_callback
      BY <3>6 DEF detect, expansion_worker_callback, expansion_storage_callback
    <3> QED
      BY <3>1, <3>2, <3>3, <3>4, <3>5, <3>6 DEF Next
  <2>2. CASE furi_message_queue_get
    BY <1>1, <2>2 DEF furi_message_queue_get, MessagesOK
  <2> QED
    BY <1>1, <2>1, <2>2 DEF MessagesOK
<1> QED
  BY <1>2, <1>3 DEF MessagesOK

LEMMA ListenSerials ==
    ASSUME MessagesOK, msg.type = "SetListenSerial"
    PROVE  msg.serial \in Serials
<1>1. CASE msg \in {Message(t, NoSerial, TRUE) : t \in Locking}
  BY <1>1 DEF Message, Locking
<1>2. CASE msg \in {Message("SetListenSerial", s, TRUE) : s \in Serials}
  BY <1>2 DEF Message
<1>3. CASE msg \in {Message(t, NoSerial, FALSE) :
                      t \in {"ReloadSettings", "ModuleConnected", "ModuleDisconnected"}}
  BY <1>3 DEF Message
<1>4. CASE msg \in Reloaded
  BY <1>4 DEF Reloaded, Message
<1>5. CASE msg = NoMessage
  BY <1>5 DEF NoMessage, Message
<1> QED
  BY <1>1, <1>2, <1>3, <1>4, <1>5 DEF MessagesOK, Messages

(* Where the worker and the control thread are belongs together.            *)
LifeInv ==
    /\ worker # "none" => state = "Running" \/ ctl = "freeing"
    /\ state = "Running" \/ ctl = "freeing" =>
           worker # "none" /\ worker_serial \in Serials /\ serial_id \in Serials
    /\ ctl = "stopping" => state = "Running" /\ msg.type \in {"Disable", "SetListenSerial"}
    /\ ctl = "freeing" => state = "Enabled" /\ msg.type = "ModuleDisconnected"
    /\ ctl = "get" => msg = NoMessage

LEMMA ControlStepTyped == TypeOK /\ LifeInv /\ [Next]_vars => ControlOK'
<1> SUFFICES ASSUME TypeOK, LifeInv, [Next]_vars PROVE ControlOK'
  OBVIOUS
<1>1. ControlOK /\ MessagesOK /\ WorkerOK
  BY TypeParts
<1> USE DEF ControlOK
<1>2. CASE UNCHANGED vars
  BY <1>1, <1>2 DEF vars
<1>3. CASE ControlStep
  <2> USE DEF Ignored, Handled
  <2>1. CASE furi_message_queue_get
    BY <1>1, <2>1 DEF furi_message_queue_get
  <2>2. CASE handler_enable
    BY <1>1, <2>2 DEF handler_enable, SetCallback
  <2>3. CASE handler_disable
    BY <1>1, <2>3 DEF handler_disable, WorkerStop, ClearCallback
  <2>4. CASE handler_set_listen_serial
    BY <1>1, <2>4, ListenSerials
    DEF handler_set_listen_serial, WorkerStop, SetCallback, MoveCallback, Handling
  <2>5. CASE handler_reload_settings
    BY <1>1, <2>5 DEF handler_reload_settings
  <2>6. CASE handler_module_connected
    BY <1>1, <2>6 DEF handler_module_connected, ClearCallback
  <2>7. CASE handler_module_disconnected
    BY <1>1, <2>7 DEF handler_module_disconnected
  <2>8. CASE worker_stopped
    BY <1>1, <2>8, ListenSerials DEF worker_stopped, WorkerFreed, SetCallback
  <2>9. CASE worker_freed
    BY <1>1, <2>9 DEF worker_freed, WorkerFreed, SetCallback, LifeInv
  <2> QED
    BY <1>3, <2>1, <2>2, <2>3, <2>4, <2>5, <2>6, <2>7, <2>8, <2>9 DEF ControlStep
<1>4. CASE WorkerStep
  <2>1. CASE worker_start
    BY <1>1, <2>1 DEF worker_start, Acquired
  <2>2. CASE worker_release
    <3>1. expansion_serial = worker_serial => worker_serial \in Serials
      BY <2>2 DEF worker_release, LifeInv
    <3> QED
      BY <1>1, <2>2, <3>1 DEF worker_release, Released
  <2> QED
    BY <1>1, <1>4, <2>1, <2>2
    DEF WorkerStep, worker_start_fails, receive_frame, receive_timeout, rpc_session_close,
        worker_leave
<1>5. CASE AppStep
  BY <1>1, <1>5 DEF AppStep, expansion_enable, expansion_disable, CallService,
     expansion_set_listen_serial, furi_hal_serial_control_acquire,
     furi_hal_serial_control_release, Acquired, Released
<1>6. CASE RpcStep \/ receive_flags \/ rpc_send_begin \/ module_sends \/ line_error
  BY <1>1, <1>6 DEF RpcStep, rpc_send_frame, rpc_send_timeout, receive_flags, rpc_send_begin,
     module_sends, line_error
<1>7. CASE detect \/ expansion_worker_callback \/ expansion_storage_callback
  BY <1>1, <1>7 DEF detect, expansion_worker_callback, expansion_storage_callback
<1> QED
  BY <1>2, <1>3, <1>4, <1>5, <1>6, <1>7 DEF Next

LEMMA WorkerStepTyped == TypeOK /\ [Next]_vars => WorkerOK'
<1> SUFFICES ASSUME TypeOK, [Next]_vars PROVE WorkerOK'
  OBVIOUS
<1>1. ControlOK /\ MessagesOK /\ WorkerOK
  BY TypeParts
<1>0. CASE UNCHANGED <<workerVars, in_use>>
  BY <1>1, <1>0 DEF WorkerOK
<1> USE DEF WorkerOK
<1>2. CASE UNCHANGED vars
  BY <1>1, <1>2 DEF vars
<1>3. CASE ControlStep
  <2>1. CASE handler_module_connected
    <3>1. CASE Ignored("ModuleConnected")
      BY <1>0, <3>1 DEF Ignored
    <3>2. CASE /\ worker' = "start" /\ worker_serial' = serial_id /\ rx_buf' = TRUE
               /\ UNCHANGED <<rx, flags, session, exit_reason, rpc, tx_semaphore, in_use>>
      BY <1>1, <3>2 DEF ControlOK
    <3> QED
      BY <2>1, <3>1, <3>2 DEF handler_module_connected
  <2>2. CASE worker_stopped \/ worker_freed
    BY <1>1, <2>2 DEF worker_stopped, worker_freed, WorkerFreed
  <2>3. CASE handler_module_disconnected
    BY <1>1, <2>3 DEF handler_module_disconnected, Ignored
  <2>4. CASE WorkerStop
    BY <1>1, <2>4 DEF WorkerStop
  <2>5. CASE handler_disable \/ handler_set_listen_serial
    BY <1>0, <2>4, <2>5 DEF handler_disable, handler_set_listen_serial, Ignored
  <2>6. CASE furi_message_queue_get \/ handler_enable \/ handler_reload_settings
    BY <1>0, <2>6
    DEF furi_message_queue_get, handler_enable, Ignored, handler_reload_settings
  <2> QED
    BY <1>3, <2>1, <2>2, <2>3, <2>5, <2>6 DEF ControlStep
<1>4. CASE WorkerStep
  <2>1. CASE worker_start
    BY <1>1, <2>1 DEF worker_start, Acquired
  <2>6. CASE worker_start_fails
    BY <1>1, <2>6 DEF worker_start_fails
  <2>2. CASE receive_frame
    BY <1>1, <2>2 DEF receive_frame, OpenRpc, TxReleased
  <2>3. CASE receive_timeout
    BY <1>1, <2>3 DEF receive_timeout
  <2>4. CASE rpc_session_close \/ worker_leave
    BY <1>1, <2>4 DEF rpc_session_close, worker_leave, CloseRpc
  <2>5. CASE worker_release
    BY <1>1, <2>5 DEF worker_release, Released
  <2> QED
    BY <1>4, <2>1, <2>2, <2>3, <2>4, <2>5, <2>6 DEF WorkerStep
<1>5. CASE AppStep
  <2>1. ASSUME NEW s \in Serials, NEW who \in {"none", "app"},
               in_use' = [in_use EXCEPT ![s] = who], UNCHANGED workerVars
        PROVE  WorkerOK'
    BY <1>1, <2>1
  <2> QED
    BY <1>0, <1>5, <2>1
    DEF AppStep, expansion_enable, expansion_disable, CallService,
        expansion_set_listen_serial, furi_hal_serial_control_acquire,
        furi_hal_serial_control_release, Acquired, Released
<1>6. CASE RpcStep \/ rpc_send_begin
  BY <1>1, <1>6 DEF RpcStep, rpc_send_frame, rpc_send_timeout, rpc_send_begin
<1>7. CASE receive_flags
  BY <1>1, <1>7 DEF receive_flags, LeaveReason
<1>8. CASE module_sends \/ line_error
  <2>1. CASE module_sends
    BY <1>1, <2>1 DEF module_sends
  <2>2. CASE line_error
    BY <1>1, <2>2 DEF line_error
  <2> QED
    BY <1>8, <2>1, <2>2
<1>9. CASE detect \/ expansion_worker_callback \/ expansion_storage_callback
  <2>1. CASE expansion_worker_callback
    BY <1>1, <2>1 DEF expansion_worker_callback
  <2> QED
    BY <1>0, <1>9, <2>1 DEF detect, expansion_storage_callback
<1> QED
  BY <1>2, <1>3, <1>4, <1>5, <1>6, <1>7, <1>8, <1>9 DEF Next

LEMMA TypeStep == TypeOK /\ LifeInv /\ [Next]_vars => TypeOK'
<1>1. TypeOK' <=> MessagesOK' /\ ControlOK' /\ WorkerOK'
  BY Sessions DEF TypeOK, MessagesOK, ControlOK, WorkerOK
<1> QED
  BY <1>1, MessagesStep, ControlStepTyped, WorkerStepTyped

(* The callback is set while the service listens, and only then.            *)
CallbackInv ==
    /\ state = "Enabled" /\ ctl # "freeing" =>
           expansion_serial = serial_id /\ serial_id \in Serials
    /\ state # "Enabled" \/ ctl = "freeing" => expansion_serial = NoSerial

(* Who works for the service: steps of the worker that is there.            *)
WorkerMoves ==
    /\ UNCHANGED ctlVars \/ (expansion_worker_callback /\ UNCHANGED <<state, serial_id, ctl, msg>>)
    /\ UNCHANGED <<worker_serial, expansion_serial>>
    /\ worker # "none" <=> worker' # "none"

LEMMA OtherMoves ==
    ASSUME \/ UNCHANGED vars \/ WorkerStep \/ receive_flags \/ expansion_worker_callback
           \/ RpcStep \/ rpc_send_begin \/ module_sends \/ line_error
    PROVE  WorkerMoves
<1> USE DEF WorkerMoves
<1>1. CASE UNCHANGED vars
  BY <1>1 DEF vars
<1>2. CASE WorkerStep
  BY <1>2 DEF WorkerStep, worker_start, worker_start_fails, receive_frame, receive_timeout,
     rpc_session_close,
     worker_leave, worker_release, Notifies
<1>3. CASE receive_flags \/ expansion_worker_callback
  BY <1>3 DEF receive_flags, expansion_worker_callback
<1>4. CASE RpcStep \/ rpc_send_begin \/ module_sends \/ line_error
  BY <1>4 DEF RpcStep, rpc_send_frame, rpc_send_timeout, rpc_send_begin, module_sends,
     line_error
<1> QED
  BY <1>1, <1>2, <1>3, <1>4

(* The handlers find and leave the service, its worker and its callback in  *)
(* one of three combinations.                                               *)
LEMMA LifeStep ==
    MessagesOK /\ LifeInv /\ CallbackInv /\ [Next]_vars => LifeInv' /\ CallbackInv'
<1> SUFFICES ASSUME MessagesOK, LifeInv, CallbackInv, [Next]_vars PROVE LifeInv' /\ CallbackInv'
  OBVIOUS
<1> USE DEF LifeInv, CallbackInv
<1>1. CASE UNCHANGED <<worker, state, ctl, worker_serial, serial_id, msg, expansion_serial>>
  BY <1>1
<1>2. CASE WorkerMoves
  BY <1>2 DEF WorkerMoves
<1>3. CASE ControlStep
  <2> USE DEF Handling
  <2>1. ASSUME NEW type, Ignored(type) PROVE LifeInv' /\ CallbackInv'
    BY <2>1 DEF Ignored, Handled
  <2>2. CASE furi_message_queue_get
    BY <2>2 DEF furi_message_queue_get
  <2>3. CASE handler_enable
    BY <2>1, <2>3 DEF handler_enable, SetCallback, Handled
  <2>4. CASE handler_disable
    BY <2>1, <2>4 DEF handler_disable, WorkerStop, ClearCallback, Handled
  <2>5. CASE handler_set_listen_serial
    BY <2>1, <2>5, ListenSerials
    DEF handler_set_listen_serial, WorkerStop, SetCallback, MoveCallback, Handled
  <2>6. CASE handler_reload_settings
    BY <2>6 DEF handler_reload_settings
  <2>7. CASE handler_module_connected
    BY <2>1, <2>7 DEF handler_module_connected, ConnectAllowed, ClearCallback, Handled
  <2>8. CASE handler_module_disconnected
    BY <2>1, <2>8 DEF handler_module_disconnected
  <2>9. CASE worker_stopped
    BY <2>9, ListenSerials DEF worker_stopped, WorkerFreed, SetCallback, Handled
  <2>10. CASE worker_freed
    BY <2>10 DEF worker_freed, WorkerFreed, SetCallback, Handled
  <2> QED
    BY <1>3, <2>2, <2>3, <2>4, <2>5, <2>6, <2>7, <2>8, <2>9, <2>10 DEF ControlStep
<1>4. CASE AppStep
  BY <1>1, <1>4
  DEF AppStep, expansion_enable, expansion_disable, CallService, expansion_set_listen_serial,
      furi_hal_serial_control_acquire, furi_hal_serial_control_release
<1>5. CASE detect \/ expansion_storage_callback
  BY <1>1, <1>5 DEF detect, expansion_storage_callback
<1> QED
  BY <1>2, <1>3, <1>4, <1>5, OtherMoves DEF Next

-----------------------------------------------------------------------------
(* The RPC session of a worker                                              *)
HasSession == worker = "close" \/ (worker \in {"receive", "leave"} /\ session = "RpcActive")

(* The session's thread is there only while the worker has a session, and   *)
(* so is the semaphore.                                                     *)
RpcInv ==
    /\ rpc # "none" => HasSession
    /\ HasSession => tx_semaphore # Freed
    /\ worker = "close" => session # "RpcActive"

LEMMA AcceptedFrames ==
    /\ Accepted["HandShake"] = {"BaudRate"}
    /\ Accepted["Connected"] = {"StartRpc", "Heartbeat"}
    /\ Accepted["RpcActive"] = {"Data", "StopRpc", "Status", "Heartbeat"}
  BY DEF Accepted

LEMMA RpcStepInv == WorkerOK /\ LifeInv /\ RpcInv /\ [Next]_vars => RpcInv'
<1> SUFFICES ASSUME WorkerOK, LifeInv, RpcInv, [Next]_vars PROVE RpcInv'
  OBVIOUS
<1> USE DEF RpcInv, HasSession, Freed
<1>1. CASE UNCHANGED <<worker, session, rpc, tx_semaphore>>
  BY <1>1
<1>2. CASE ControlStep
  <2>1. CASE handler_module_connected
    BY <1>1, <2>1 DEF handler_module_connected, Ignored, LifeInv, Handling, ConnectAllowed
  <2>2. CASE worker_stopped \/ worker_freed
    BY <2>2 DEF worker_stopped, worker_freed, Joined, WorkerFreed
  <2> QED
    BY <1>1, <1>2, <2>1, <2>2
    DEF ControlStep, furi_message_queue_get, handler_enable, handler_disable, WorkerStop,
        handler_set_listen_serial, handler_reload_settings, handler_module_disconnected, Ignored
<1>3. CASE WorkerStep
  <2>1. CASE worker_start \/ worker_start_fails
    BY <2>1 DEF worker_start, worker_start_fails
  <2>2. CASE receive_frame
    BY <2>2, AcceptedFrames DEF receive_frame, OpenRpc, TxReleased, WorkerOK
  <2>3. CASE receive_timeout
    BY <2>3 DEF receive_timeout
  <2>4. CASE rpc_session_close
    BY <2>4 DEF rpc_session_close, RpcClosable, CloseRpc, WorkerOK
  <2>5. CASE worker_leave
    BY <2>5 DEF worker_leave, RpcClosable, CloseRpc, WorkerOK
  <2>6. CASE worker_release
    BY <2>6 DEF worker_release, Notifies
  <2> QED
    BY <1>3, <2>1, <2>2, <2>3, <2>4, <2>5, <2>6 DEF WorkerStep
<1>4. CASE RpcStep \/ rpc_send_begin
  BY <1>4 DEF RpcStep, rpc_send_frame, rpc_send_timeout, rpc_send_begin
<1>5. CASE receive_flags \/ expansion_worker_callback
  BY <1>5 DEF receive_flags, expansion_worker_callback
<1>6. CASE AppStep
  BY <1>1, <1>6
  DEF AppStep, expansion_enable, expansion_disable, CallService, expansion_set_listen_serial,
      furi_hal_serial_control_acquire, furi_hal_serial_control_release
<1> QED
  BY <1>1, <1>2, <1>3, <1>4, <1>5, <1>6
  DEF Next, vars, detect, expansion_storage_callback, module_sends, line_error

(* The parts so far.                                                        *)
BaseInv == TypeOK /\ LifeInv /\ CallbackInv /\ RpcInv

LEMMA BaseInvAlways == Spec => []BaseInv
<1>1. Init => BaseInv
  <2>1. Init => LifeInv /\ CallbackInv /\ RpcInv
    BY DEF Init, LifeInv, CallbackInv, RpcInv, HasSession
  <2> QED
    BY <2>1, InitType DEF BaseInv
<1>2. BaseInv /\ [Next]_vars => BaseInv'
  BY TypeParts, TypeStep, LifeStep, RpcStepInv DEF BaseInv
<1> QED
  BY <1>1, <1>2, PTL DEF Spec

(* The state of the service, of the worker and of the driver keep to their  *)
(* types, for any number of ports and any size of the queue.                *)
THEOREM TypeCorrect == Spec => []TypeOK
<1>1. BaseInv => TypeOK
  BY DEF BaseInv
<1> QED
  BY <1>1, BaseInvAlways, PTL

(* The semaphore that the RPC thread waits for is freed only after that     *)
(* thread has left the send callback.                                       *)
THEOREM SemaphoreOutlivesCallback == Spec => []TxSemaphoreAlive
<1>1. BaseInv => TxSemaphoreAlive
  BY DEF BaseInv, RpcInv, TxSemaphoreAlive
<1> QED
  BY <1>1, BaseInvAlways, PTL

-----------------------------------------------------------------------------
(* Calls.  An application's call is one message with a lock, in the queue   *)
(* or with the control thread.                                              *)
Lockless(q) == \A i \in 1..Len(q) : ~q[i].lock

LockOnce(q) == \A i, j \in 1..Len(q) : q[i].lock /\ q[j].lock => i = j

LockInv ==
    /\ msg.lock => locked /\ Lockless(queue)
    /\ Lockless(queue) \/ locked
    /\ LockOnce(queue)

SwitchOff == Message("Disable", NoSerial, TRUE)

HasOff(q) == \E i \in 1..Len(q) : q[i] = SwitchOff

LEMMA TakeFirst ==
    ASSUME NEW q \in Seq(Messages), q # <<>>
    PROVE  /\ Head(q) = q[1] /\ 1 \in 1..Len(q) /\ Len(Tail(q)) = Len(q) - 1
           /\ \A i \in 1..Len(Tail(q)) : Tail(q)[i] = q[i + 1] /\ i + 1 \in 1..Len(q)
           /\ Lockless(q) => Lockless(Tail(q)) /\ ~Head(q).lock
           /\ LockOnce(q) => LockOnce(Tail(q)) /\ (Head(q).lock => Lockless(Tail(q)))
           /\ HasOff(q) => Head(q) = SwitchOff \/ HasOff(Tail(q))
<1> DEFINE t == Tail(q)
<1>1. /\ Head(q) = q[1] /\ 1 \in 1..Len(q) /\ Len(t) = Len(q) - 1 /\ Len(q) \in Nat
      /\ \A i \in 1..Len(t) : t[i] = q[i + 1] /\ i + 1 \in 1..Len(q)
  OBVIOUS
<1> HIDE DEF t
<1>2. Lockless(q) => Lockless(t) /\ ~Head(q).lock
  BY <1>1 DEF Lockless
<1>3. LockOnce(q) => LockOnce(t) /\ (Head(q).lock => Lockless(t))
  <2> SUFFICES ASSUME LockOnce(q) PROVE LockOnce(t) /\ (Head(q).lock => Lockless(t))
    OBVIOUS
  <2>1. ASSUME NEW i \in 1..Len(t), NEW j \in 1..Len(t), t[i].lock, t[j].lock PROVE i = j
    <3>1. i + 1 = j + 1
      BY <1>1, <2>1 DEF LockOnce
    <3> QED
      BY <1>1, <3>1
  <2>2. ASSUME NEW i \in 1..Len(t), Head(q).lock, t[i].lock PROVE FALSE
    <3>1. 1 = i + 1
      BY <1>1, <2>2 DEF LockOnce
    <3> QED
      BY <1>1, <3>1
  <2> QED
    BY <2>1, <2>2 DEF LockOnce, Lockless
<1>4. ASSUME NEW i \in 1..Len(q), q[i] = SwitchOff PROVE Head(q) = SwitchOff \/ HasOff(t)
  <2>1. CASE i # 1
    <3>1. i - 1 \in 1..Len(t) /\ t[i - 1] = SwitchOff
      BY <1>1, <1>4, <2>1
    <3> QED
      BY <3>1 DEF HasOff
  <2> QED
    BY <1>1, <1>4, <2>1
<1> QED
  BY <1>1, <1>2, <1>3, <1>4 DEF t, HasOff

LEMMA PutLast ==
    ASSUME NEW q \in Seq(Messages), NEW m \in Messages
    PROVE  /\ Lockless(q) /\ ~m.lock => Lockless(Append(q, m))
           /\ LockOnce(q) /\ (~m.lock \/ Lockless(q)) => LockOnce(Append(q, m))
           /\ HasOff(q) \/ m = SwitchOff => HasOff(Append(q, m))
<1> DEFINE r == Append(q, m)
<1>1. /\ Len(r) = Len(q) + 1 /\ r[Len(q) + 1] = m /\ Len(q) \in Nat
      /\ \A i \in 1..Len(q) : r[i] = q[i]
  OBVIOUS
<1>2. \A i \in 1..Len(r) : i \in 1..Len(q) \/ i = Len(q) + 1
  BY <1>1
<1> HIDE DEF r
<1>3. Lockless(q) /\ ~m.lock => Lockless(r)
  BY <1>1, <1>2 DEF Lockless
<1>4. LockOnce(q) /\ (~m.lock \/ Lockless(q)) => LockOnce(r)
  BY <1>1, <1>2 DEF Lockless, LockOnce
<1>5. HasOff(q) \/ m = SwitchOff => HasOff(r)
  BY <1>1, QueueAssumption DEF HasOff
<1> QED
  BY <1>3, <1>4, <1>5 DEF r

LEMMA LockStep == MessagesOK /\ ControlOK /\ LockInv /\ [Next]_vars => LockInv'
<1> SUFFICES ASSUME MessagesOK, ControlOK, LockInv, [Next]_vars PROVE LockInv'
  OBVIOUS
<1>1. queue \in Seq(Messages)
  BY DEF MessagesOK
<1>2. CASE UNCHANGED <<queue, msg, locked>>
  BY <1>2 DEF LockInv
<1>3. CASE furi_message_queue_get
  BY <1>1, <1>3, TakeFirst DEF furi_message_queue_get, LockInv
<1>4. ASSUME NEW m \in Messages, queue' = Append(queue, m), UNCHANGED msg,
             \/ ~m.lock /\ UNCHANGED locked
             \/ m.lock /\ ~locked /\ locked'
      PROVE  LockInv'
  BY <1>1, <1>4, PutLast DEF LockInv
<1>5. CASE Returned
  BY <1>5 DEF LockInv, NoMessage, Message, ControlOK
<1>6. ASSUME NEW t, NEW s PROVE /\ Message(t, s, TRUE).lock = TRUE
                                /\ Message(t, s, FALSE).lock = FALSE
  BY DEF Message
<1>7. CASE ControlStep
  <2>1. CASE handler_reload_settings
    <3>1. ~msg'.lock
      BY <2>1 DEF handler_reload_settings, Reloaded, Message
    <3> QED
      BY <2>1, <3>1 DEF handler_reload_settings, LockInv
  <2> QED
    BY <1>2, <1>3, <1>5, <1>7, <2>1
    DEF ControlStep, handler_enable, handler_disable, WorkerStop, handler_set_listen_serial,
        handler_module_connected, handler_module_disconnected, worker_stopped, worker_freed,
        Ignored
<1>8. CASE AppStep
  <2>1. ASSUME NEW m \in Messages, m.lock = TRUE, CallService(m) PROVE LockInv'
    BY <1>4, <2>1 DEF CallService
  <2>2. CASE expansion_enable \/ expansion_disable
    BY <1>6, <2>1, <2>2 DEF expansion_enable, expansion_disable, Messages, Locking
  <2>3. ASSUME NEW s \in Serials, expansion_set_listen_serial(s) PROVE LockInv'
    BY <1>6, <2>1, <2>3 DEF expansion_set_listen_serial, Messages
  <2> QED
    BY <1>2, <1>8, <2>2, <2>3
    DEF AppStep, furi_hal_serial_control_acquire, furi_hal_serial_control_release
<1>9. CASE detect \/ expansion_worker_callback \/ expansion_storage_callback
  <2>1. ASSUME NEW t \in {"ReloadSettings", "ModuleConnected", "ModuleDisconnected"}
        PROVE  Message(t, NoSerial, FALSE) \in Messages /\ ~Message(t, NoSerial, FALSE).lock
    BY <1>6 DEF Messages
  <2> QED
    BY <1>4, <1>9, <2>1
    DEF detect, expansion_worker_callback, Disconnected, expansion_storage_callback
<1> QED
  BY <1>2, <1>7, <1>8, <1>9
  DEF Next, vars, WorkerStep, worker_start, worker_start_fails, receive_frame,
      receive_timeout, rpc_session_close,
      worker_leave, worker_release, receive_flags, RpcStep, rpc_send_frame, rpc_send_timeout,
      rpc_send_begin, module_sends, line_error

-----------------------------------------------------------------------------
(* Off.  The service is off while an application counts on that, unless a   *)
(* reload has switched it on; while it waits for that, its call is on its   *)
(* way.                                                                     *)
AppInv ==
    /\ app \in {"off", "using"} /\ ~locked /\ ~reloaded => state = "Disabled"
    /\ app = "using" => ~locked
    /\ app = "free" \/ locked => ~reloaded
    /\ app = "off" /\ locked => msg = SwitchOff \/ HasOff(queue)

LEMMA SwitchOffFields == SwitchOff.type = "Disable" /\ SwitchOff.lock = TRUE
  BY DEF SwitchOff, Message

LEMMA NoMessageFields == NoMessage.type = "None" /\ NoMessage.lock = FALSE
  BY DEF NoMessage, Message

LEMMA EnableLocks ==
    ASSUME MessagesOK, msg.type = "Enable"
    PROVE  msg.lock = TRUE
  BY DEF MessagesOK, Messages, Reloaded, NoMessage, Message

(* A handler that returns leaves the service off if it was off, or if the   *)
(* message switched it off, unless a reload has switched it on.             *)
LEMMA HandledOff ==
    ASSUME ControlOK, LockInv, AppInv, Returned,
           reloaded' = reloaded \/ reloaded' = (reloaded \/ SwitchesOnUnasked),
           ~msg.lock /\ state = "Disabled" => state' = "Disabled" \/ reloaded'
                                                  \/ ~SwitchesOnUnasked,
           msg.type = "Disable" => state' = "Disabled"
    PROVE  AppInv'
<1>1. /\ msg' = NoMessage /\ app' = app /\ queue' = queue
      /\ locked' = (locked /\ ~msg.lock)
  OBVIOUS
<1>2. ASSUME app \in {"off", "using"}, ~locked', ~reloaded' PROVE state' = "Disabled"
  <2>1. CASE ~locked
    BY <1>2, <2>1 DEF AppInv, LockInv, SwitchesOnUnasked, ControlOK
  <2>2. CASE locked
    <3>1. msg.lock /\ Lockless(queue) /\ app = "off"
      BY <1>1, <1>2, <2>2 DEF AppInv, LockInv, ControlOK
    <3>2. ~HasOff(queue)
      BY <3>1, SwitchOffFields DEF HasOff, Lockless
    <3> QED
      BY <2>2, <3>1, <3>2, SwitchOffFields DEF AppInv
  <2> QED
    BY <2>1, <2>2
<1>3. app = "off" /\ locked' => HasOff(queue)
  BY <1>1, SwitchOffFields DEF AppInv
<1>4. app = "free" \/ locked' => ~reloaded'
  BY <1>1 DEF AppInv, SwitchesOnUnasked
<1>5. app = "using" => ~locked'
  BY <1>1 DEF AppInv
<1> QED
  BY <1>1, <1>2, <1>3, <1>4, <1>5 DEF AppInv

LEMMA AppStepInv ==
    ASSUME MessagesOK, ControlOK, LifeInv, LockInv, AppInv, [Next]_vars
    PROVE  AppInv'
<1>1. queue \in Seq(Messages)
  BY DEF MessagesOK
<1>2. CASE UNCHANGED <<app, locked, reloaded, state, msg, queue>>
  BY <1>2 DEF AppInv
<1>3. CASE furi_message_queue_get
  <2>1. queue # <<>> /\ msg' = Head(queue) /\ queue' = Tail(queue)
        /\ UNCHANGED <<app, locked, state, reloaded>> /\ msg = NoMessage
    BY <1>3 DEF furi_message_queue_get, LifeInv
  <2>2. msg # SwitchOff
    BY <2>1, NoMessageFields, SwitchOffFields
  <2>3. HasOff(queue) => Head(queue) = SwitchOff \/ HasOff(Tail(queue))
    BY <1>1, <2>1, TakeFirst
  <2> QED
    BY <2>1, <2>2, <2>3 DEF AppInv
<1>4. ASSUME NEW m \in Messages, queue' = Append(queue, m),
             UNCHANGED <<msg, state, locked, app, reloaded>>
      PROVE  AppInv'
  BY <1>1, <1>4, PutLast DEF AppInv
<1>5. CASE ControlStep
  <2> USE DEF Handling
  <2>1. CASE UNCHANGED <<state, reloaded>> /\ Returned
           /\ (msg.type = "Disable" => state = "Disabled")
    BY <2>1, HandledOff
  <2>2. CASE handler_enable
    BY <2>1, <2>2, HandledOff, EnableLocks DEF handler_enable, Ignored
  <2>3. CASE handler_disable
    BY <1>2, <2>1, <2>3, HandledOff DEF handler_disable, Ignored, WorkerStop
  <2>4. CASE handler_set_listen_serial
    <3>1. CASE Ignored("SetListenSerial") \/ WorkerStop
      BY <1>2, <2>1, <3>1 DEF Ignored, WorkerStop
    <3>2. CASE Handling("SetListenSerial") /\ HandledOn
      BY <3>2, HandledOff
    <3> QED
      BY <2>4, <3>1, <3>2 DEF handler_set_listen_serial
  <2>5. CASE handler_reload_settings
    <3>1. msg # SwitchOff
      BY <2>5, SwitchOffFields DEF handler_reload_settings
    <3> QED
      BY <2>5, <3>1 DEF handler_reload_settings, AppInv
  <2>6. CASE handler_module_connected
    BY <2>1, <2>6, HandledOff
    DEF handler_module_connected, Ignored, ConnectAllowed
  <2>7. CASE handler_module_disconnected
    <3>1. CASE Ignored("ModuleDisconnected")
      BY <2>1, <3>1 DEF Ignored
    <3>2. CASE state = "Running" /\ state' = "Enabled" /\ UNCHANGED <<queue, msg, appVars>>
      BY <3>2 DEF AppInv
    <3> QED
      BY <2>7, <3>1, <3>2 DEF handler_module_disconnected
  <2>8. CASE worker_stopped
    BY <2>8, HandledOff DEF worker_stopped, LifeInv
  <2>9. CASE worker_freed
    <3>1. UNCHANGED <<state, reloaded>> /\ Returned /\ msg.type # "Disable"
      BY <2>9 DEF worker_freed, LifeInv
    <3> QED
      BY <2>1, <3>1
  <2> QED
    BY <1>3, <1>5, <2>2, <2>3, <2>4, <2>5, <2>6, <2>7, <2>8, <2>9 DEF ControlStep
<1>6. CASE AppStep
  <2>1. CASE expansion_enable
    BY <2>1 DEF expansion_enable, CallService, AppInv
  <2>2. CASE expansion_disable
    <3>1. SwitchOff \in Messages
      BY DEF SwitchOff, Messages, Locking
    <3>2. /\ queue' = Append(queue, SwitchOff) /\ app = "free" /\ app' = "off"
          /\ locked' /\ reloaded' = reloaded
      BY <2>2 DEF expansion_disable, CallService, SwitchOff
    <3>3. HasOff(queue')
      BY <1>1, <3>1, <3>2, PutLast
    <3> QED
      BY <3>2, <3>3 DEF AppInv
  <2>3. ASSUME NEW s \in Serials, expansion_set_listen_serial(s) PROVE AppInv'
    BY <2>3 DEF expansion_set_listen_serial, CallService, AppInv
  <2>4. ASSUME NEW s \in Serials,
               furi_hal_serial_control_acquire(s) \/ furi_hal_serial_control_release(s)
        PROVE  AppInv'
    BY <2>4 DEF furi_hal_serial_control_acquire, furi_hal_serial_control_release, AppInv
  <2> QED
    BY <1>6, <2>1, <2>2, <2>3, <2>4 DEF AppStep
<1>7. CASE detect \/ expansion_worker_callback \/ expansion_storage_callback
  <2>1. ASSUME NEW t \in {"ReloadSettings", "ModuleConnected", "ModuleDisconnected"}
        PROVE  Message(t, NoSerial, FALSE) \in Messages
    BY DEF Messages
  <2> QED
    BY <1>4, <1>7, <2>1
    DEF detect, expansion_worker_callback, Disconnected, expansion_storage_callback
<1> QED
  BY <1>2, <1>5, <1>6, <1>7
  DEF Next, vars, WorkerStep, worker_start, worker_start_fails, receive_frame,
      receive_timeout,
      rpc_session_close, worker_leave, worker_release, receive_flags, RpcStep, rpc_send_frame,
      rpc_send_timeout, rpc_send_begin, module_sends, line_error

-----------------------------------------------------------------------------
(* Serial ports.  Only the port that is listened on is an interrupt line,   *)
(* an application may have taken it over, and a port in use is the worker's *)
(* own or the application's.                                                *)
Listening == state = "Enabled" /\ ctl # "freeing"

PortInv ==
    /\ irq \subseteq (IF Listening THEN {serial_id} ELSE {})
    /\ Listening => serial_id \in irq \/ in_use[serial_id] = "app"
    /\ \A s \in Serials :
           /\ in_use[s] = "app" => app = "using"
           /\ in_use[s] = "worker" =>
                  s = worker_serial /\ worker \in {"receive", "close", "leave", "release"}
    /\ \A s, t \in Serials : in_use[s] = "app" /\ in_use[t] = "app" => s = t

LEMMA PortStep ==
    ASSUME MessagesOK, ControlOK, WorkerOK, LifeInv, CallbackInv, AppInv, PortInv, [Next]_vars
    PROVE  PortInv'
<1>1. CASE UNCHANGED <<irq, state, ctl, serial_id, in_use, app, worker_serial, worker>>
  BY <1>1 DEF PortInv, Listening
<1>2. ASSUME UNCHANGED <<irq, state, ctl, serial_id, in_use, app, worker_serial>>,
             worker \in {"receive", "close", "leave", "release"} =>
                 worker' \in {"receive", "close", "leave", "release"}
      PROVE  PortInv'
  BY <1>2 DEF PortInv, Listening
<1>3. NoSerial \notin Serials
  BY SerialsAssumption
<1>4. CASE ControlStep
  <2> USE DEF Handling
  <2>1. ASSUME UNCHANGED <<in_use, app, worker_serial>>,
               worker' = worker \/ worker \in {"none", "done"},
               irq' = IF Listening' THEN {serial_id'} ELSE {}
        PROVE  PortInv'
    BY <2>1 DEF PortInv
  <2>2. ASSUME UNCHANGED <<state, serial_id, in_use, app, worker_serial, worker, irq>>,
               ctl # "freeing", ctl' # "freeing"
        PROVE  PortInv'
    BY <2>2 DEF PortInv, Listening
  <2>3. ASSUME NEW type, Ignored(type) PROVE PortInv'
    BY <2>2, <2>3 DEF Ignored, Handled
  <2>4. CASE furi_message_queue_get
    BY <2>2, <2>4 DEF furi_message_queue_get
  <2>5. CASE handler_enable
    BY <2>1, <2>3, <2>5 DEF handler_enable, SetCallback, Handled, PortInv, Listening
  <2>6. CASE handler_disable
    BY <2>1, <2>2, <2>3, <2>6 DEF handler_disable, WorkerStop, ClearCallback, Handled,
       PortInv, Listening
  <2>7. CASE handler_set_listen_serial
    BY <2>1, <2>2, <2>3, <2>7
    DEF handler_set_listen_serial, WorkerStop, SetCallback, MoveCallback, Handled, PortInv,
        Listening,
        ControlOK
  <2>8. CASE handler_reload_settings
    BY <2>2, <2>8 DEF handler_reload_settings
  <2>9. CASE handler_module_connected
    <3>1. CASE ConnectAllowed /\ ClearCallback /\ state' = "Running" /\ worker' = "start"
                 /\ worker = "none" /\ ctl # "freeing" /\ UNCHANGED <<in_use, app>>
      BY <3>1 DEF ClearCallback, ConnectAllowed, PortInv, Listening
    <3> QED
      BY <2>3, <2>9, <3>1 DEF handler_module_connected, ConnectAllowed, Handled, LifeInv
  <2>10. CASE handler_module_disconnected
    <3>1. CASE state = "Running" /\ state' = "Enabled" /\ ctl' = "freeing"
                 /\ UNCHANGED <<irq, in_use, app, worker_serial, worker>>
      BY <2>1, <3>1 DEF PortInv, Listening
    <3> QED
      BY <2>3, <2>10, <3>1 DEF handler_module_disconnected
  <2>11. CASE worker_stopped
    BY <2>1, <2>11
    DEF worker_stopped, Joined, WorkerFreed, SetCallback, Handled, PortInv, Listening, LifeInv
  <2>12. CASE worker_freed
    BY <2>1, <2>12 DEF worker_freed, Joined, WorkerFreed, SetCallback, Handled, PortInv,
       Listening, LifeInv
  <2> QED
    BY <1>4, <2>4, <2>5, <2>6, <2>7, <2>8, <2>9, <2>10, <2>11, <2>12 DEF ControlStep
<1>5. CASE WorkerStep
  <2>1. worker # "none" => /\ expansion_serial = NoSerial /\ worker_serial \in Serials
                           /\ ~Listening
    BY DEF LifeInv, CallbackInv, Listening
  <2>2. CASE worker_start
    BY <1>3, <2>1, <2>2 DEF worker_start, Acquired, PortInv, Listening, WorkerOK
  <2>3. CASE worker_release
    <3>1. /\ worker_serial \in Serials /\ irq' = irq /\ ~Listening /\ ~Listening'
          /\ in_use' = [in_use EXCEPT ![worker_serial] = "none"]
          /\ UNCHANGED <<app, worker_serial>>
      BY <1>3, <2>1, <2>3 DEF worker_release, Released, Listening
    <3> QED
      BY <3>1 DEF PortInv, WorkerOK
  <2> QED
    BY <1>2, <1>5, <2>2, <2>3
    DEF WorkerStep, worker_start_fails, receive_frame, receive_timeout, rpc_session_close,
        worker_leave
<1>6. CASE AppStep
  <2>5. expansion_serial = IF Listening THEN serial_id ELSE NoSerial
    BY DEF CallbackInv, Listening, LifeInv
  <2>1. ASSUME NEW s \in Serials, furi_hal_serial_control_acquire(s) PROVE PortInv'
    BY <1>3, <2>1, <2>5
    DEF furi_hal_serial_control_acquire, Acquired, PortInv, Listening, WorkerOK
  <2>2. ASSUME NEW s \in Serials, furi_hal_serial_control_release(s) PROVE PortInv'
    BY <1>3, <2>2, <2>5
    DEF furi_hal_serial_control_release, Released, PortInv, Listening, WorkerOK
  <2>3. CASE expansion_enable \/ expansion_disable
    BY <2>3 DEF expansion_enable, expansion_disable, CallService, PortInv, Listening
  <2>4. ASSUME NEW s \in Serials, expansion_set_listen_serial(s) PROVE PortInv'
    BY <1>1, <2>4 DEF expansion_set_listen_serial, CallService
  <2> QED
    BY <1>6, <2>1, <2>2, <2>3, <2>4 DEF AppStep
<1> QED
  BY <1>1, <1>2, <1>4, <1>5, <1>6
  DEF Next, vars, receive_flags, expansion_worker_callback, RpcStep, rpc_send_frame,
      rpc_send_timeout, rpc_send_begin, detect, module_sends, line_error,
      expansion_storage_callback

(* The parts of the argument about off.                                     *)
OffInv == BaseInv /\ LockInv /\ AppInv /\ PortInv

LEMMA OffInvAlways == Spec => []OffInv
<1>1. Init => OffInv
  <2> SUFFICES ASSUME Init PROVE LockInv /\ AppInv /\ PortInv /\ BaseInv
    BY DEF OffInv
  <2>1. LifeInv /\ CallbackInv /\ RpcInv
    BY DEF Init, LifeInv, CallbackInv, RpcInv, HasSession
  <2>2. LockInv /\ AppInv
    BY NoMessageFields DEF Init, LockInv, Lockless, LockOnce, AppInv
  <2>3. PortInv
    BY DEF Init, PortInv, Listening
  <2> QED
    BY <2>1, <2>2, <2>3, InitType DEF BaseInv
<1>2. OffInv /\ [Next]_vars => OffInv'
  BY TypeParts, TypeStep, LifeStep, RpcStepInv, LockStep, AppStepInv, PortStep
  DEF OffInv, BaseInv
<1> QED
  BY <1>1, <1>2, PTL DEF Spec

(* No furi_check of the service, of its worker or of the driver fails, and  *)
(* the worker gets its serial unless a mounted card has switched the        *)
(* service on while an application wanted it off.                           *)
THEOREM NoCheckFails == Spec => []ChecksHold
<1>1. OffInv => ChecksHold
  <2> SUFFICES ASSUME OffInv PROVE ChecksHold
    OBVIOUS
  <2>1. LifeInv /\ CallbackInv /\ AppInv /\ PortInv /\ WorkerOK /\ ControlOK
    BY TypeParts DEF OffInv, BaseInv
  <2>2. ASSUME worker = "start", ~reloaded PROVE in_use[worker_serial] = "none"
    <3>1. state = "Running" \/ ctl = "freeing"
      BY <2>1, <2>2 DEF LifeInv
    <3>2. state # "Disabled" /\ worker_serial \in Serials
      BY <2>1, <3>1 DEF LifeInv
    <3>3. app # "using"
      BY <2>1, <2>2, <3>2 DEF AppInv
    <3> QED
      BY <2>1, <2>2, <3>2, <3>3 DEF PortInv, WorkerOK
  <2> QED
    BY <2>1, <2>2 DEF ChecksHold, CanSetCallback, CanClearCallback, LifeInv, CallbackInv
<1> QED
  BY <1>1, OffInvAlways, PTL

(* Once expansion_disable has returned there is no worker, no detection and *)
(* no port in the service's hands, until expansion_enable is called or a    *)
(* mounted card has switched the service on.                                *)
THEOREM OffIsQuiet == Spec => []DisabledIsQuiet
<1>1. OffInv => DisabledIsQuiet
  <2> SUFFICES ASSUME OffInv, app \in {"off", "using"}, ~locked, ~reloaded
               PROVE  /\ worker = "none"
                      /\ expansion_serial = NoSerial /\ irq = {}
                      /\ \A s \in Serials : in_use[s] # "worker"
    BY DEF DisabledIsQuiet, SwitchedOff, QuietService
  <2>1. LifeInv /\ CallbackInv /\ AppInv /\ PortInv
    BY DEF OffInv, BaseInv
  <2>2. state = "Disabled"
    BY <2>1 DEF AppInv
  <2> QED
    BY <2>1, <2>2 DEF LifeInv, CallbackInv, PortInv, Listening
<1> QED
  BY <1>1, OffInvAlways, PTL

-----------------------------------------------------------------------------
(* Ends of workers.  A worker ends without a message only if it was told to *)
(* stop, by a control thread that waits for its end.                        *)
StopInv ==
    /\ "Stop" \in flags => ctl = "stopping"
    /\ worker \in {"receive", "close"} => exit_reason = "Unknown"
    /\ worker \in {"leave", "release"} /\ exit_reason = "User" => ctl = "stopping"

LEMMA StopStep == WorkerOK /\ LifeInv /\ StopInv /\ [Next]_vars => StopInv'
<1> SUFFICES ASSUME WorkerOK, LifeInv, StopInv, [Next]_vars PROVE StopInv'
  OBVIOUS
<1> USE DEF StopInv
<1>1. CASE UNCHANGED <<flags, ctl, worker, exit_reason>>
  BY <1>1
<1>2. CASE ControlStep
  <2> USE DEF Handling, Handled
  <2>1. ASSUME UNCHANGED <<flags, worker, exit_reason>>, ctl \in {"get", "handle"}
        PROVE  StopInv'
    BY <2>1
  <2>2. CASE WorkerStop
    BY <2>2 DEF WorkerStop
  <2>3. CASE handler_module_connected
    BY <2>1, <2>3 DEF handler_module_connected, Ignored
  <2>4. CASE worker_stopped \/ worker_freed
    BY <2>4 DEF worker_stopped, worker_freed, WorkerFreed
  <2> QED
    BY <1>2, <2>1, <2>2, <2>3, <2>4
    DEF ControlStep, furi_message_queue_get, handler_enable, handler_disable,
        handler_set_listen_serial, handler_reload_settings, handler_module_disconnected, Ignored
<1>3. CASE WorkerStep
  BY <1>3 DEF WorkerStep, worker_start, worker_start_fails, receive_frame, receive_timeout,
     rpc_session_close,
     worker_leave, worker_release, Notifies
<1>4. CASE receive_flags
  BY <1>4 DEF receive_flags, LeaveReason
<1>5. CASE expansion_worker_callback
  BY <1>5 DEF expansion_worker_callback
<1>6. CASE RpcStep \/ rpc_send_begin \/ module_sends \/ line_error
  BY <1>6 DEF RpcStep, rpc_send_frame, rpc_send_timeout, rpc_send_begin, module_sends,
     line_error
<1>7. CASE AppStep
  BY <1>1, <1>7
  DEF AppStep, expansion_enable, expansion_disable, CallService, expansion_set_listen_serial,
      furi_hal_serial_control_acquire, furi_hal_serial_control_release
<1> QED
  BY <1>1, <1>2, <1>3, <1>4, <1>5, <1>6, <1>7
  DEF Next, vars, detect, expansion_storage_callback

Has(q, type) == \E i \in 1..Len(q) : q[i].type = type

LEMMA TakeType ==
    ASSUME NEW q \in Seq(Messages), q # <<>>
    PROVE  \A t : Has(q, t) <=> Head(q).type = t \/ Has(Tail(q), t)
<1> DEFINE r == Tail(q)
<1>1. /\ Head(q) = q[1] /\ 1 \in 1..Len(q) /\ Len(r) = Len(q) - 1 /\ Len(q) \in Nat
      /\ \A i \in 1..Len(r) : r[i] = q[i + 1] /\ i + 1 \in 1..Len(q)
  OBVIOUS
<1> HIDE DEF r
<1>2. ASSUME NEW t PROVE Has(q, t) <=> Head(q).type = t \/ Has(r, t)
  <2>1. ASSUME NEW i \in 1..Len(q), q[i].type = t PROVE Head(q).type = t \/ Has(r, t)
    <3>1. CASE i = 1
      BY <1>1, <2>1, <3>1
    <3>2. CASE i # 1
      <4>1. i - 1 \in 1..Len(r) /\ r[i - 1] = q[i]
        BY <1>1, <3>2
      <4> QED
        BY <2>1, <4>1 DEF Has
    <3> QED
      BY <3>1, <3>2
  <2> QED
    BY <1>1, <2>1 DEF Has
<1> QED
  BY <1>2 DEF r

LEMMA PutType ==
    ASSUME NEW q \in Seq(Messages), NEW m \in Messages
    PROVE  \A t : Has(Append(q, m), t) <=> Has(q, t) \/ m.type = t
<1> DEFINE r == Append(q, m)
<1>1. /\ Len(r) = Len(q) + 1 /\ r[Len(q) + 1] = m /\ Len(q) \in Nat
      /\ \A i \in 1..Len(q) : r[i] = q[i]
  OBVIOUS
<1>2. \A i \in 1..Len(r) : i \in 1..Len(q) \/ i = Len(q) + 1
  BY <1>1
<1>3. 1..Len(q) \subseteq 1..Len(r) /\ Len(q) + 1 \in 1..Len(r)
  BY <1>1
<1> HIDE DEF r
<1>4. ASSUME NEW t PROVE Has(r, t) <=> Has(q, t) \/ m.type = t
  BY <1>1, <1>2, <1>3 DEF Has
<1> QED
  BY <1>4 DEF r

(* While a worker runs that has not overtaken the end of an earlier one,    *)
(* only its own end is announced.                                           *)
MessageInv ==
    /\ ctl = "freeing" /\ ~overtaken => worker = "done"
    /\ state = "Running" /\ ~overtaken
          /\ (Has(queue, "ModuleDisconnected") \/ msg.type = "ModuleDisconnected") =>
           worker = "done"

(* The end of a worker that is not told to stop is announced.               *)
EndInv ==
    state = "Running" /\ worker = "done" /\ ctl # "stopping" =>
        Has(queue, "ModuleDisconnected") \/ msg.type = "ModuleDisconnected"

(* Messages that announce no end of a worker leave both parts as they are.  *)
LEMMA OtherPuts ==
    ASSUME MessagesOK, MessageInv, EndInv, NEW m \in Messages, queue' = Append(queue, m),
           m.type # "ModuleDisconnected",
           UNCHANGED <<state, msg, ctl, worker, overtaken>>
    PROVE  MessageInv' /\ EndInv'
<1>1. \A t : Has(queue', t) <=> Has(queue, t) \/ m.type = t
  BY PutType DEF MessagesOK
<1> QED
  BY <1>1 DEF MessageInv, EndInv

LEMMA ReloadedTypes ==
    ASSUME NEW m \in Reloaded
    PROVE  m.type # "ModuleDisconnected"
  BY DEF Reloaded, Message

LEMMA ControlMessages ==
    ASSUME MessagesOK, WorkerOK, LifeInv, MessageInv, EndInv, ControlStep
    PROVE  MessageInv' /\ EndInv'
<1> USE DEF Handling
<1>1. ASSUME Returned, ctl = "handle", UNCHANGED <<worker, overtaken>>,
             state' = state \/ state' # "Running",
             state' = "Running" => msg.type # "ModuleDisconnected"
      PROVE  MessageInv' /\ EndInv'
  BY <1>1, NoMessageFields DEF MessageInv, EndInv, LifeInv
<1>2. ASSUME NEW type, Ignored(type), type = "ModuleDisconnected" => state # "Running"
      PROVE  MessageInv' /\ EndInv'
  BY <1>1, <1>2 DEF Ignored
<1>3. CASE furi_message_queue_get
  <2>1. queue # <<>> /\ queue \in Seq(Messages)
    BY <1>3 DEF furi_message_queue_get, MessagesOK
  <2>2. queue' = Tail(queue) /\ msg' = Head(queue) /\ msg = NoMessage /\ ctl' = "handle"
          /\ UNCHANGED <<state, worker, overtaken>>
    BY <1>3 DEF furi_message_queue_get, LifeInv
  <2>3. \A t : Has(queue, t) <=> msg'.type = t \/ Has(queue', t)
    BY <2>1, <2>2, TakeType
  <2> QED
    BY <2>2, <2>3, NoMessageFields, <1>3
    DEF MessageInv, EndInv, furi_message_queue_get
<1>4. CASE WorkerStop
  BY <1>4 DEF WorkerStop, MessageInv, EndInv
<1>5. CASE handler_enable
  BY <1>1, <1>2, <1>5 DEF handler_enable
<1>6. CASE handler_disable
  BY <1>1, <1>2, <1>4, <1>6 DEF handler_disable
<1>7. CASE handler_set_listen_serial
  BY <1>1, <1>2, <1>4, <1>7 DEF handler_set_listen_serial
<1>8. CASE handler_reload_settings
  <2>1. msg'.type # "ModuleDisconnected"
    BY <1>8, ReloadedTypes DEF handler_reload_settings
  <2> QED
    BY <1>8, <2>1 DEF handler_reload_settings, MessageInv, EndInv
<1>9. CASE handler_module_connected
  <2>1. CASE Ignored("ModuleConnected")
    BY <1>2, <2>1
  <2>2. CASE /\ Handling("ModuleConnected") /\ state' = "Running" /\ worker' = "start" /\ Returned
             /\ overtaken' = (\E k \in DOMAIN queue : queue[k].type = "ModuleDisconnected")
    <3>1. DOMAIN queue = 1..Len(queue)
      BY DEF MessagesOK
    <3>2. overtaken' <=> Has(queue', "ModuleDisconnected")
      BY <2>2, <3>1 DEF Has
    <3> QED
      BY <2>2, <3>2, NoMessageFields DEF MessageInv, EndInv
  <2> QED
    BY <1>9, <2>1, <2>2 DEF handler_module_connected
<1>10. CASE handler_module_disconnected
  <2>1. CASE Handling("ModuleDisconnected") /\ state = "Running" /\ state' = "Enabled"
               /\ ctl' = "freeing" /\ UNCHANGED <<queue, msg, worker, overtaken>>
    BY <2>1 DEF MessageInv, EndInv
  <2> QED
    BY <1>2, <1>10, <2>1 DEF handler_module_disconnected
<1>11. CASE worker_stopped \/ worker_freed
  <2>1. state' # "Running" /\ Returned
    BY <1>11 DEF worker_stopped, worker_freed, LifeInv
  <2> QED
    BY <2>1, NoMessageFields DEF MessageInv, EndInv
<1> QED
  BY <1>3, <1>5, <1>6, <1>7, <1>8, <1>9, <1>10, <1>11 DEF ControlStep

LEMMA WorkerMessages ==
    ASSUME MessagesOK, LifeInv, StopInv, MessageInv, EndInv,
           WorkerStep \/ receive_flags \/ expansion_worker_callback
    PROVE  MessageInv' /\ EndInv'
<1>1. ASSUME UNCHANGED <<queue, state, msg, ctl, overtaken>>, worker # "done",
             worker' = "done" => ctl = "stopping"
      PROVE  MessageInv' /\ EndInv'
  BY <1>1 DEF MessageInv, EndInv, LifeInv
<1>2. CASE worker_release
  <2>1. CASE ctl = "freeing"
    BY <1>2, <2>1 DEF worker_release, MessageInv, EndInv, LifeInv
  <2>2. CASE ctl # "freeing"
    BY <1>1, <1>2, <2>2 DEF worker_release, Notifies, StopInv
  <2> QED
    BY <2>1, <2>2
<1>3. CASE WorkerStep /\ ~worker_release
  BY <1>1, <1>3
  DEF WorkerStep, worker_start, worker_start_fails, receive_frame, receive_timeout,
      rpc_session_close, worker_leave
<1>4. CASE receive_flags
  BY <1>1, <1>4 DEF receive_flags
<1>5. CASE expansion_worker_callback
  <2> DEFINE m == Message("ModuleDisconnected", NoSerial, FALSE)
  <2>1. m \in Messages /\ m.type = "ModuleDisconnected"
    BY DEF Messages, Message
  <2>2. worker = "notify" /\ worker' = "done" /\ queue' = Append(queue, m)
          /\ UNCHANGED <<state, msg, ctl, overtaken>>
    BY <1>5 DEF expansion_worker_callback, Disconnected
  <2> HIDE DEF m
  <2>3. \A t : Has(queue', t) <=> Has(queue, t) \/ m.type = t
    BY <2>1, <2>2, PutType DEF MessagesOK
  <2> QED
    BY <2>1, <2>2, <2>3 DEF MessageInv, EndInv
<1> QED
  BY <1>2, <1>3, <1>4, <1>5

LEMMA MessageStep ==
    ASSUME MessagesOK, WorkerOK, LifeInv, StopInv, MessageInv, EndInv, [Next]_vars
    PROVE  MessageInv' /\ EndInv'
<1>1. CASE UNCHANGED <<queue, state, msg, ctl, worker, overtaken>>
  BY <1>1 DEF MessageInv, EndInv
<1>3. CASE detect \/ expansion_storage_callback
  <2>1. ASSUME NEW t \in {"ReloadSettings", "ModuleConnected"}
        PROVE  /\ Message(t, NoSerial, FALSE) \in Messages
               /\ Message(t, NoSerial, FALSE).type = t
    BY DEF Messages, Message
  <2> QED
    BY <1>3, <2>1, OtherPuts DEF detect, expansion_storage_callback
<1>4. CASE AppStep
  <2>1. ASSUME NEW type \in {"Enable", "Disable", "SetListenSerial"},
               NEW s \in Serials \cup {NoSerial}, Message(type, s, TRUE) \in Messages,
               CallService(Message(type, s, TRUE))
        PROVE  MessageInv' /\ EndInv'
    <3>1. Message(type, s, TRUE).type = type
      BY DEF Message
    <3> QED
      BY <2>1, <3>1, OtherPuts DEF CallService
  <2>2. /\ \A s \in Serials : Message("SetListenSerial", s, TRUE) \in Messages
        /\ Message("Enable", NoSerial, TRUE) \in Messages
        /\ Message("Disable", NoSerial, TRUE) \in Messages
    BY DEF Messages, Locking
  <2>3. CASE expansion_enable \/ expansion_disable
    BY <2>1, <2>2, <2>3 DEF expansion_enable, expansion_disable
  <2>4. ASSUME NEW s \in Serials, expansion_set_listen_serial(s) PROVE MessageInv' /\ EndInv'
    BY <2>1, <2>2, <2>4 DEF expansion_set_listen_serial
  <2>5. ASSUME NEW s \in Serials,
               furi_hal_serial_control_acquire(s) \/ furi_hal_serial_control_release(s)
        PROVE  MessageInv' /\ EndInv'
    BY <1>1, <2>5 DEF furi_hal_serial_control_acquire, furi_hal_serial_control_release
  <2> QED
    BY <1>4, <2>3, <2>4, <2>5 DEF AppStep
<1> QED
  BY <1>1, <1>3, <1>4, ControlMessages, WorkerMessages
  DEF Next, vars, RpcStep, rpc_send_frame, rpc_send_timeout, rpc_send_begin, module_sends,
      line_error

(* The parts of the argument about ends.                                    *)
EndsInv == BaseInv /\ StopInv /\ MessageInv /\ EndInv

LEMMA EndsInvAlways == Spec => []EndsInv
<1>1. Init => EndsInv
  <2> SUFFICES ASSUME Init PROVE BaseInv /\ StopInv /\ MessageInv /\ EndInv
    BY DEF EndsInv
  <2>1. LifeInv /\ CallbackInv /\ RpcInv
    BY DEF Init, LifeInv, CallbackInv, RpcInv, HasSession
  <2>2. StopInv
    BY DEF Init, StopInv
  <2>3. MessageInv /\ EndInv
    BY NoMessageFields DEF Init, MessageInv, EndInv, Has
  <2> QED
    BY <2>1, <2>2, <2>3, InitType DEF BaseInv
<1>2. EndsInv /\ [Next]_vars => EndsInv'
  BY TypeParts, TypeStep, LifeStep, RpcStepInv, StopStep, MessageStep DEF EndsInv, BaseInv
<1> QED
  BY <1>1, <1>2, PTL DEF Spec

(* The receive buffer of a worker is given back only after the worker's     *)
(* thread has ended, or if the worker was started while the end of an       *)
(* earlier one was still in the queue.                                      *)
THEOREM FreedAfterExit == Spec => WorkerFreedAfterExit
<1>1. EndsInv /\ [Next]_vars => [FreesRunningWorker => overtaken]_vars
  <2> SUFFICES ASSUME EndsInv, [Next]_vars, rx_buf, ~rx_buf', worker # "done" PROVE overtaken
    BY DEF FreesRunningWorker
  <2>1. CASE ControlStep
    BY <2>1
    DEF ControlStep, furi_message_queue_get, handler_enable, handler_disable,
        handler_set_listen_serial, handler_reload_settings, handler_module_connected,
        handler_module_disconnected, worker_stopped, worker_freed, Joined, Ignored,
        WorkerStop, Handling, EndsInv, MessageInv
  <2> QED
    BY <2>1
    DEF Next, vars, WorkerStep, worker_start, worker_start_fails, receive_frame,
        receive_timeout,
        rpc_session_close, worker_leave, worker_release, receive_flags,
        expansion_worker_callback, RpcStep, rpc_send_frame, rpc_send_timeout, rpc_send_begin,
        detect, module_sends, line_error, expansion_storage_callback, AppStep,
        expansion_enable, expansion_disable, expansion_set_listen_serial, CallService,
        furi_hal_serial_control_acquire, furi_hal_serial_control_release
<1>2. Spec => [][FreesRunningWorker => overtaken]_vars
  BY <1>1, EndsInvAlways, PTL DEF Spec
<1> QED
  BY <1>2 DEF WorkerFreedAfterExit

(* The service is never deaf between two messages.                          *)
THEOREM NeverDeafProved == Spec => []NeverDeaf
<1>1. OffInv /\ EndsInv => NeverDeaf
  <2> SUFFICES ASSUME OffInv, EndsInv, ctl = "get"
               PROVE  /\ state = "Enabled" =>
                             /\ expansion_serial = serial_id
                             /\ serial_id \in irq \/ in_use[serial_id] = "app"
                      /\ state = "Running" /\ worker = "done" =>
                             \E k \in DOMAIN queue : queue[k].type = "ModuleDisconnected"
                      /\ state = "Running" => worker # "none"
    BY DEF NeverDeaf
  <2>1. LifeInv /\ CallbackInv /\ PortInv /\ EndInv /\ MessagesOK
    BY TypeParts DEF OffInv, BaseInv, EndsInv
  <2>2. state = "Enabled" => /\ expansion_serial = serial_id
                             /\ serial_id \in irq \/ in_use[serial_id] = "app"
    BY <2>1 DEF CallbackInv, PortInv, Listening
  <2>3. ASSUME state = "Running", worker = "done"
        PROVE  \E k \in DOMAIN queue : queue[k].type = "ModuleDisconnected"
    <3>1. Has(queue, "ModuleDisconnected")
      BY <2>1, <2>3, NoMessageFields DEF EndInv, LifeInv
    <3>2. DOMAIN queue = 1..Len(queue)
      BY <2>1 DEF MessagesOK
    <3> QED
      BY <3>1, <3>2 DEF Has
  <2> QED
    BY <2>1, <2>2, <2>3 DEF LifeInv
<1> QED
  BY <1>1, OffInvAlways, EndsInvAlways, PTL
=============================================================================
