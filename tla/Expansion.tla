----------------------------- MODULE Expansion -----------------------------
(***************************************************************************)
(* The expansion module service (applications/services/expansion): its     *)
(* control thread, the worker thread that talks to a module, the part of   *)
(* the serial control driver that both of them and the applications use    *)
(* (targets/f7/furi_hal/furi_hal_serial_control.c), and the RPC session    *)
(* that a worker opens.                                                    *)
(*                                                                         *)
(* The serial control thread has the highest priority and runs one message *)
(* at a time, so a call of it is a step of its caller.  The control        *)
(* thread's work between two calls that block is one step.                 *)
(***************************************************************************)
EXTENDS Naturals, Sequences, FiniteSets

CONSTANTS
    Serials,        \* the serial ports
    NoSerial,       \* FuriHalSerialIdMax: expansion support is off
    QueueSize,      \* EXPANSION_CONTROL_QUEUE_SIZE
    MaxReloads      \* bound: mount events in the queue at a time

ASSUME SerialsAssumption == Serials # {} /\ NoSerial \notin Serials
ASSUME QueueAssumption == QueueSize \in Nat \ {0} /\ MaxReloads \in Nat

VARIABLES
    state,              \* instance->state
    serial_id,          \* instance->serial_id
    queue,              \* instance->queue
    msg,                \* the message the control thread works on
    ctl,                \* where the control thread is
    worker,             \* where the thread of instance->worker is
    worker_serial,      \* worker->serial_id
    rx_buf,             \* is worker->rx_buf allocated?
    rx,                 \* the frame that waits in rx_buf
    flags,              \* thread flags of the worker
    session,            \* worker->state
    exit_reason,        \* worker->exit_reason
    rpc,                \* the RPC session's thread, seen from its send callback
    tx_semaphore,       \* worker->tx_semaphore; Freed when there is none
    expansion_serial,   \* the handle with an expansion callback, if any
    irq,                \* serials whose RX pin is set up as an interrupt
    in_use,             \* who has acquired each serial
    app,                \* what the running application is doing
    locked,             \* it waits for its api_lock
    reloaded,           \* history: did a reload of the settings switch the service
                        \* on since the application has switched it off?
    overtaken           \* history: did the worker start in front of the end of
                        \* an earlier one?

serviceVars == <<state, serial_id>>
ctlVars == <<state, serial_id, queue, msg, ctl>>
workerVars == <<worker, worker_serial, rx_buf, rx, flags, session, exit_reason,
                rpc, tx_semaphore>>
serialVars == <<expansion_serial, irq, in_use>>
appVars == <<app, locked, reloaded, overtaken>>
vars == <<ctlVars, workerVars, serialVars, appVars>>

Message(type, serial, lock) == [type |-> type, serial |-> serial, lock |-> lock]
Locking == {"Enable", "Disable"}
Messages ==
    {Message(t, NoSerial, TRUE) : t \in Locking}
        \cup {Message("SetListenSerial", s, TRUE) : s \in Serials}
        \cup {Message(t, NoSerial, FALSE) :
                 t \in {"ReloadSettings", "ModuleConnected", "ModuleDisconnected"}}
(* What a reload turns into: a call of another handler.                    *)
Reloaded == {Message("SetListenSerial", s, FALSE) : s \in Serials}
                \cup {Message("Disable", NoSerial, FALSE)}
NoMessage == Message("None", NoSerial, FALSE)

Freed == 2
NoFrame == "None"
Accepted == [HandShake |-> {"BaudRate"},
             Connected |-> {"StartRpc", "Heartbeat"},
             RpcActive |-> {"Data", "StopRpc", "Status", "Heartbeat"}]
Frames == {"BaudRate", "StartRpc", "StopRpc", "Status", "Heartbeat", "Data", "Bad"}

TypeOK ==
    /\ state \in {"Disabled", "Enabled", "Running"}
    /\ serial_id \in Serials \cup {NoSerial}
    /\ queue \in Seq(Messages) /\ Len(queue) <= QueueSize
    /\ msg \in Messages \cup Reloaded \cup {NoMessage}
    /\ ctl \in {"get", "handle", "stopping", "freeing"}
    /\ worker \in {"none", "start", "receive", "close", "leave", "release",
                   "notify", "done", "fault"}
    /\ worker_serial \in Serials \cup {NoSerial}
    /\ rx_buf \in BOOLEAN
    /\ rx \in Frames \cup {NoFrame}
    /\ flags \subseteq {"Stop", "Data", "Error"}
    /\ session \in DOMAIN Accepted
    /\ exit_reason \in {"Unknown", "User", "Error", "Timeout"}
    /\ rpc \in {"none", "idle", "sending"}
    /\ tx_semaphore \in {0, 1, Freed}
    /\ expansion_serial \in Serials \cup {NoSerial}
    /\ irq \subseteq Serials
    /\ in_use \in [Serials -> {"none", "app", "worker"}]
    /\ app \in {"free", "off", "using"}
    /\ locked \in BOOLEAN /\ reloaded \in BOOLEAN /\ overtaken \in BOOLEAN

-----------------------------------------------------------------------------
(* Serial control: the expansion callback and the handles                  *)

CanSetCallback == expansion_serial = NoSerial
CanClearCallback == state = "Enabled" => expansion_serial = serial_id

SetCallback_disarmed(s) == expansion_serial' = s /\ UNCHANGED irq

SetCallback(s) ==
    /\ expansion_serial' = s
    /\ irq' = irq \cup {s}

ClearCallback_kept == UNCHANGED <<expansion_serial, irq>>

ClearCallback ==
    /\ expansion_serial' = NoSerial
    /\ irq' = irq \ {serial_id}

MoveCallback(s) ==
    /\ expansion_serial' = s
    /\ irq' = (irq \ {serial_id}) \cup {s}

Acquired(s, who) ==
    /\ in_use' = [in_use EXCEPT ![s] = who]
    /\ irq' = IF expansion_serial = s THEN irq \ {s} ELSE irq

Released(s) ==
    /\ in_use' = [in_use EXCEPT ![s] = "none"]
    /\ irq' = IF expansion_serial = s THEN irq \cup {s} ELSE irq

-----------------------------------------------------------------------------
(* The control thread                                                      *)

HasRoom == Len(queue) < QueueSize

furi_message_queue_get ==
    /\ ctl = "get" /\ queue # <<>>
    /\ msg' = Head(queue)
    /\ queue' = Tail(queue)
    /\ ctl' = "handle"
    /\ UNCHANGED <<serviceVars, workerVars, serialVars, appVars>>

Handling(type) == ctl = "handle" /\ msg.type = type

(* The handler returns; a caller that waits is let go.                     *)
Returned ==
    /\ ctl' = "get"
    /\ msg' = NoMessage
    /\ locked' = (locked /\ ~msg.lock)
    /\ UNCHANGED <<queue, app>>

Handled == Returned /\ UNCHANGED <<reloaded, overtaken>>

(* A call of a reload, with no caller that waits, finds that an application *)
(* has switched the service off.                                            *)
SwitchesOnUnasked == app \in {"off", "using"} /\ ~locked /\ ~msg.lock

(* The handler returns with the service switched on.                       *)
HandledOn ==
    /\ Returned
    /\ reloaded' = (reloaded \/ SwitchesOnUnasked)
    /\ UNCHANGED overtaken

Ignored(type) ==
    /\ Handling(type)
    /\ Handled
    /\ UNCHANGED <<serviceVars, workerVars, serialVars>>

handler_enable ==
    \/ Ignored("Enable")        \* already enabled, or off in the settings
    \/ /\ Handling("Enable") /\ state = "Disabled"
       /\ CanSetCallback
       /\ \E s \in Serials :
            /\ state' = "Enabled"
            /\ serial_id' = s
            /\ SetCallback(s)
       /\ Handled
       /\ UNCHANGED <<workerVars, in_use>>

(* expansion_worker_stop up to its furi_thread_join.                       *)
WorkerStop ==
    /\ flags' = flags \cup {"Stop"}
    /\ ctl' = "stopping"
    /\ UNCHANGED <<serviceVars, queue, msg, worker, worker_serial, rx_buf, rx, session,
                   exit_reason, rpc, tx_semaphore, serialVars, appVars>>

handler_disable ==
    \/ state = "Disabled" /\ Ignored("Disable")
    \/ Handling("Disable") /\ state = "Running" /\ WorkerStop
    \/ /\ Handling("Disable") /\ state = "Enabled"
       /\ CanClearCallback
       /\ ClearCallback
       /\ state' = "Disabled"
       /\ Handled
       /\ UNCHANGED <<serial_id, workerVars, in_use>>

handler_set_listen_serial ==
    \/ state # "Disabled" /\ serial_id = msg.serial /\ Ignored("SetListenSerial")
    \/ /\ Handling("SetListenSerial")
       /\ state = "Running" /\ serial_id # msg.serial
       /\ WorkerStop
    \/ /\ Handling("SetListenSerial")
       /\ state = "Disabled" \/ (state = "Enabled" /\ serial_id # msg.serial)
       /\ CanClearCallback /\ (state = "Disabled" => CanSetCallback)
       /\ IF state = "Enabled" THEN MoveCallback(msg.serial) ELSE SetCallback(msg.serial)
       /\ state' = "Enabled"
       /\ serial_id' = msg.serial
       /\ HandledOn
       /\ UNCHANGED <<workerVars, in_use>>

(* The worker has been joined: it is freed and the handler goes on.        *)
Joined_early == TRUE

Joined == worker = "done"

WorkerFreed ==
    /\ worker' = "none"
    /\ rx_buf' = FALSE
    /\ rx' = NoFrame
    /\ flags' = {}
    /\ UNCHANGED <<worker_serial, session, exit_reason, rpc, tx_semaphore>>

worker_stopped ==
    /\ ctl = "stopping" /\ Joined
    /\ WorkerFreed
    /\ \/ /\ msg.type = "Disable"
          /\ state' = "Disabled"
          /\ Handled
          /\ UNCHANGED <<serial_id, expansion_serial, irq>>
       \/ /\ msg.type = "SetListenSerial" /\ CanSetCallback
          /\ state' = "Enabled"
          /\ serial_id' = msg.serial
          /\ SetCallback(msg.serial)
          /\ HandledOn
    /\ UNCHANGED in_use

(* The settings file decides which of the two handlers runs.               *)
handler_reload_settings ==
    /\ Handling("ReloadSettings")
    /\ msg' \in Reloaded
    /\ UNCHANGED <<serviceVars, queue, ctl, workerVars, serialVars, appVars>>

ConnectAllowed_running == state # "Running"

ConnectAllowed == state = "Enabled"

handler_module_connected ==
    \/ ~ConnectAllowed /\ Ignored("ModuleConnected")
    \/ /\ Handling("ModuleConnected") /\ ConnectAllowed
       /\ CanClearCallback
       /\ ClearCallback
       /\ state' = "Running"
       /\ worker' = "start"
       /\ worker_serial' = serial_id
       /\ rx_buf' = TRUE
       /\ Returned
       /\ overtaken' = (\E k \in DOMAIN queue : queue[k].type = "ModuleDisconnected")
       /\ UNCHANGED <<reloaded, serial_id, rx, flags, session, exit_reason, rpc, tx_semaphore, in_use>>

(* expansion_worker_free gives the buffer back before it joins the thread. *)
handler_module_disconnected ==
    \/ state # "Running" /\ Ignored("ModuleDisconnected")
    \/ /\ Handling("ModuleDisconnected") /\ state = "Running"
       /\ state' = "Enabled"
       /\ rx_buf' = FALSE
       /\ ctl' = "freeing"
       /\ UNCHANGED <<serial_id, queue, msg, worker, worker_serial, rx, flags, session,
                      exit_reason, rpc, tx_semaphore, serialVars, appVars>>

worker_freed ==
    /\ ctl = "freeing" /\ Joined /\ CanSetCallback
    /\ WorkerFreed
    /\ SetCallback(serial_id)
    /\ Handled
    /\ UNCHANGED <<serviceVars, in_use>>

-----------------------------------------------------------------------------
(* The worker thread                                                       *)

worker_start ==
    /\ worker = "start"
    /\ in_use[worker_serial] = "none"      \* furi_check(instance->serial_handle)
    /\ Acquired(worker_serial, "worker")
    /\ worker' = "receive"
    /\ session' = "HandShake"
    /\ exit_reason' = "Unknown"
    /\ UNCHANGED <<ctlVars, worker_serial, rx_buf, rx, flags, rpc, tx_semaphore,
                   expansion_serial, appVars>>

(* Somebody else has the port: the check fails and the system halts.       *)
worker_start_fails ==
    /\ worker = "start"
    /\ in_use[worker_serial] # "none"
    /\ worker' = "fault"
    /\ UNCHANGED <<ctlVars, worker_serial, rx_buf, rx, flags, session, exit_reason, rpc,
                   tx_semaphore, serialVars, appVars>>

OpenRpc == rpc' = "idle" /\ tx_semaphore' = 1

(* furi_semaphore_release of a full semaphore fails, and nobody looks.     *)
TxReleased == 1

(* A whole frame has arrived: its handler runs.  A baud rate may be refused *)
(* and RPC may take only part of the data.                                  *)
receive_frame ==
    /\ worker = "receive" /\ rx # NoFrame
    /\ rx' = NoFrame
    /\ \/ /\ rx \notin Accepted[session]
          /\ worker' = "leave"
          /\ UNCHANGED <<session, rpc, tx_semaphore>>
       \/ /\ rx \in Accepted[session] /\ rx = "BaudRate"
          /\ session' \in {"HandShake", "Connected"}
          /\ UNCHANGED <<worker, rpc, tx_semaphore>>
       \/ /\ rx \in Accepted[session] /\ rx = "StartRpc"
          /\ session' = "RpcActive"
          /\ OpenRpc
          /\ UNCHANGED worker
       \/ /\ rx \in Accepted[session] /\ rx = "StopRpc"
          /\ session' = "Connected"
          /\ worker' = "close"
          /\ UNCHANGED <<rpc, tx_semaphore>>
       \/ /\ rx \in Accepted[session] /\ rx = "Status"
          /\ tx_semaphore' = TxReleased
          /\ UNCHANGED <<worker, session, rpc>>
       \/ /\ rx \in Accepted[session] /\ rx \in {"Heartbeat", "Data"}
          /\ worker' \in {"receive"} \cup (IF rx = "Data" THEN {"leave"} ELSE {})
          /\ UNCHANGED <<session, rpc, tx_semaphore>>
    /\ UNCHANGED <<ctlVars, worker_serial, rx_buf, flags, exit_reason, serialVars, appVars>>

LeaveReason_data == IF "Data" \in flags THEN "None"
                    ELSE IF "Stop" \in flags THEN "User" ELSE "Error"

(* What the flags ask for, in the order the code looks at them.            *)
LeaveReason == IF "Stop" \in flags THEN "User"
               ELSE IF "Error" \in flags THEN "Error" ELSE "None"

(* expansion_worker_receive_callback, while the frame is incomplete.       *)
receive_flags ==
    /\ worker = "receive" /\ rx = NoFrame /\ flags # {}
    /\ flags' = {}
    /\ IF LeaveReason = "None" THEN UNCHANGED <<worker, exit_reason>>
       ELSE worker' = "leave" /\ exit_reason' = LeaveReason
    /\ UNCHANGED <<ctlVars, worker_serial, rx_buf, rx, session, rpc, tx_semaphore,
                   serialVars, appVars>>

receive_timeout ==
    /\ worker = "receive" /\ rx = NoFrame /\ flags = {}
    /\ worker' = "leave"
    /\ exit_reason' = "Timeout"
    /\ UNCHANGED <<ctlVars, worker_serial, rx_buf, rx, flags, session, rpc, tx_semaphore,
                   serialVars, appVars>>

RpcClosable_any == TRUE

(* rpc_session_close takes the mutex that the session's thread holds while  *)
(* it is in the send callback.                                              *)
RpcClosable == rpc # "sending"

CloseRpc == tx_semaphore' = Freed /\ rpc' = IF rpc = "idle" THEN "none" ELSE rpc

rpc_session_close ==
    /\ worker = "close" /\ RpcClosable
    /\ CloseRpc
    /\ worker' = "receive"
    /\ UNCHANGED <<ctlVars, worker_serial, rx_buf, rx, flags, session, exit_reason,
                   serialVars, appVars>>

worker_leave ==
    /\ worker = "leave"
    /\ IF session = "RpcActive" THEN RpcClosable /\ CloseRpc
       ELSE UNCHANGED <<rpc, tx_semaphore>>
    /\ worker' = "release"
    /\ UNCHANGED <<ctlVars, worker_serial, rx_buf, rx, flags, session, exit_reason,
                   serialVars, appVars>>

Notifies == exit_reason # "User"

worker_release ==
    /\ worker = "release"
    /\ Released(worker_serial)
    /\ worker' = IF Notifies THEN "notify" ELSE "done"
    /\ UNCHANGED <<ctlVars, worker_serial, rx_buf, rx, flags, session, exit_reason, rpc,
                   tx_semaphore, expansion_serial, appVars>>

Disconnected == HasRoom /\ queue' = Append(queue, Message("ModuleDisconnected", NoSerial, FALSE))

(* expansion_worker_callback waits for room in the queue.                   *)
expansion_worker_callback ==
    /\ worker = "notify"
    /\ Disconnected
    /\ worker' = "done"
    /\ UNCHANGED <<serviceVars, msg, ctl, worker_serial, rx_buf, rx, flags, session,
                   exit_reason, rpc, tx_semaphore, serialVars, appVars>>

-----------------------------------------------------------------------------
(* The RPC session's thread in expansion_worker_rpc_send_callback          *)

rpc_send_begin ==
    /\ rpc = "idle"
    /\ rpc' = "sending"
    /\ UNCHANGED <<ctlVars, worker, worker_serial, rx_buf, rx, flags, session, exit_reason,
                   tx_semaphore, serialVars, appVars>>

(* One data frame goes out; it was the last one or it was not.             *)
rpc_send_frame ==
    /\ rpc = "sending" /\ tx_semaphore = 1
    /\ tx_semaphore' = 0
    /\ rpc' \in {"idle", "sending"}
    /\ UNCHANGED <<ctlVars, worker, worker_serial, rx_buf, rx, flags, session, exit_reason,
                   serialVars, appVars>>

rpc_send_timeout ==
    /\ rpc = "sending" /\ tx_semaphore = 0
    /\ rpc' = "idle"
    /\ flags' = flags \cup {"Error"}
    /\ UNCHANGED <<ctlVars, worker, worker_serial, rx_buf, rx, session, exit_reason,
                   tx_semaphore, serialVars, appVars>>

-----------------------------------------------------------------------------
(* The module, the line and the card                                       *)

(* A falling edge, any number of them if the line bounces:                  *)
(* expansion_detect_callback drops them when there is no room.              *)
detect ==
    /\ expansion_serial # NoSerial /\ irq # {}
    /\ HasRoom
    /\ queue' = Append(queue, Message("ModuleConnected", NoSerial, FALSE))
    /\ UNCHANGED <<serviceVars, msg, ctl, workerVars, serialVars, appVars>>

(* expansion_worker_serial_rx_callback; the buffer has room for one frame.  *)
Receiving == worker \in {"receive", "close"}

module_sends ==
    /\ Receiving /\ rx = NoFrame
    /\ rx' \in Frames
    /\ flags' = flags \cup {"Data"}
    /\ UNCHANGED <<ctlVars, worker, worker_serial, rx_buf, session, exit_reason, rpc,
                   tx_semaphore, serialVars, appVars>>

line_error ==
    /\ Receiving /\ "Error" \notin flags
    /\ flags' = flags \cup {"Error"}
    /\ UNCHANGED <<ctlVars, worker, worker_serial, rx_buf, rx, session, exit_reason, rpc,
                   tx_semaphore, serialVars, appVars>>

(* expansion_storage_callback, in the storage thread, at any time.         *)
expansion_storage_callback ==
    /\ HasRoom
    /\ Cardinality({k \in DOMAIN queue : queue[k].type = "ReloadSettings"}) < MaxReloads
    /\ queue' = Append(queue, Message("ReloadSettings", NoSerial, FALSE))
    /\ UNCHANGED <<serviceVars, msg, ctl, workerVars, serialVars, appVars>>

-----------------------------------------------------------------------------
(* The running application.  One that needs a serial port switches the      *)
(* service off first and on again when it is done.                         *)

CallService(m) ==
    /\ ~locked /\ HasRoom
    /\ queue' = Append(queue, m)
    /\ locked' = TRUE
    /\ UNCHANGED <<serviceVars, msg, ctl, workerVars, serialVars, overtaken>>

(* Also expansion_on_system_start, when there is a card.                    *)
expansion_enable ==
    /\ app \in {"free", "off"}
    /\ app' = "free"
    /\ reloaded' = FALSE
    /\ CallService(Message("Enable", NoSerial, TRUE))

expansion_disable ==
    /\ app = "free"
    /\ app' = "off"
    /\ CallService(Message("Disable", NoSerial, TRUE))
    /\ UNCHANGED reloaded

expansion_set_listen_serial(s) ==
    /\ app = "free"
    /\ CallService(Message("SetListenSerial", s, TRUE))
    /\ UNCHANGED <<app, reloaded>>

furi_hal_serial_control_acquire(s) ==
    /\ app = "off" /\ ~locked
    /\ in_use[s] = "none"
    /\ Acquired(s, "app")
    /\ app' = "using"
    /\ UNCHANGED <<ctlVars, workerVars, expansion_serial, locked, reloaded, overtaken>>

furi_hal_serial_control_release(s) ==
    /\ app = "using" /\ in_use[s] = "app"
    /\ Released(s)
    /\ app' = "off"
    /\ UNCHANGED <<ctlVars, workerVars, expansion_serial, locked, reloaded, overtaken>>

-----------------------------------------------------------------------------
Init ==
    /\ state = "Disabled" /\ serial_id = NoSerial
    /\ queue = <<>> /\ msg = NoMessage /\ ctl = "get"
    /\ worker = "none" /\ worker_serial = NoSerial
    /\ rx_buf = FALSE /\ rx = NoFrame
    /\ flags = {} /\ session = "HandShake" /\ exit_reason = "Unknown"
    /\ rpc = "none" /\ tx_semaphore = Freed
    /\ expansion_serial = NoSerial /\ irq = {}
    /\ in_use = [s \in Serials |-> "none"]
    /\ app = "free" /\ locked = FALSE
    /\ reloaded = FALSE /\ overtaken = FALSE

ControlStep ==
    \/ furi_message_queue_get
    \/ handler_enable
    \/ handler_disable
    \/ handler_set_listen_serial
    \/ handler_reload_settings
    \/ handler_module_connected
    \/ handler_module_disconnected
    \/ worker_stopped
    \/ worker_freed

WorkerStep ==
    \/ worker_start
    \/ worker_start_fails
    \/ receive_frame
    \/ receive_timeout
    \/ rpc_session_close
    \/ worker_leave
    \/ worker_release

RpcStep == rpc_send_frame \/ rpc_send_timeout

AppStep ==
    \/ expansion_enable
    \/ expansion_disable
    \/ \E s \in Serials :
         \/ expansion_set_listen_serial(s)
         \/ furi_hal_serial_control_acquire(s)
         \/ furi_hal_serial_control_release(s)

Halted == worker = "fault"

Next ==
    /\ ~Halted
    /\ \/ ControlStep
       \/ WorkerStep
       \/ receive_flags
       \/ expansion_worker_callback
       \/ RpcStep
       \/ rpc_send_begin
       \/ detect
       \/ module_sends
       \/ line_error
       \/ expansion_storage_callback
       \/ AppStep

Spec == Init /\ [][Next]_vars

(* All threads are scheduled and time passes, until a check fails.  Some    *)
(* steps need more than that: a put succeeds if there is room again and     *)
(* again (FreeRTOS wakes the waiters in order), the worker finds its buffer *)
(* empty again and again (it is much faster than the line), and the         *)
(* session's mutex is got in the end (a command sends a finite number of    *)
(* responses).                                                              *)
Fairness ==
    /\ WF_vars(~Halted /\ ControlStep)
    /\ WF_vars(WorkerStep)
    /\ WF_vars(~Halted /\ RpcStep)
    /\ SF_vars(receive_flags)
    /\ SF_vars(rpc_session_close \/ worker_leave)
    /\ SF_vars(expansion_worker_callback)

FairSpec == Spec /\ Fairness

-----------------------------------------------------------------------------
(* Properties                                                              *)

(* No furi_check can fail: the expansion callback is set only when there is *)
(* none and cleared only for the serial it is set on, and the worker gets   *)
(* the serial it asks for, unless a card that was mounted while an          *)
(* application has switched the service off has switched it on again.      *)
ChecksHold ==
    /\ worker = "start" => in_use[worker_serial] = "none" \/ reloaded
    /\ ctl = "handle" /\ state = "Disabled" /\ msg.type \in {"Enable", "SetListenSerial"} =>
          CanSetCallback
    /\ ctl = "handle" /\ msg.type \in {"Disable", "SetListenSerial", "ModuleConnected"} =>
          CanClearCallback
    /\ ctl = "stopping" /\ msg.type = "SetListenSerial" => CanSetCallback
    /\ ctl = "freeing" => CanSetCallback

(* The same without the exception: furi_check(instance->serial_handle)      *)
(* (expansion_worker.c) says that the worker always gets its serial.        *)
WorkerGetsItsSerial == ~Halted

FreesRunningWorker == rx_buf /\ ~rx_buf' /\ worker # "done"

(* What a worker's thread uses is given back only when that thread has      *)
(* ended, unless the worker was started in front of the end of an earlier   *)
(* one, which is then taken for its own.                                    *)
WorkerFreedAfterExit == [][FreesRunningWorker => overtaken]_vars

(* The same without the exception: the worker "is stopped upon module       *)
(* disconnection or communication error" (expansion_worker.h), and only     *)
(* then freed for one.                                                      *)
EveryWorkerFreedAfterExit == [][~FreesRunningWorker]_vars

SwitchedOff == app \in {"off", "using"} /\ ~locked

QuietService ==
    /\ worker = "none"
    /\ expansion_serial = NoSerial /\ irq = {}
    /\ \A s \in Serials : in_use[s] # "worker"

(* Once expansion_disable has returned there is no worker, no detection and *)
(* no port in the service's hands, until expansion_enable is called or a    *)
(* card that is mounted reloads the settings.                               *)
DisabledIsQuiet == SwitchedOff /\ ~reloaded => QuietService

(* The same whatever is mounted: "Calling this function will cease all      *)
(* communications with the expansion module (if any), release the serial    *)
(* handle and reset the respective pins" (expansion.h).                     *)
DisabledStaysQuiet == SwitchedOff => QuietService

(* The semaphore that the RPC session's thread takes in its send callback   *)
(* lives as long as that thread is in it.                                   *)
TxSemaphoreAlive == rpc = "sending" => tx_semaphore # Freed

(* The service is never deaf: whenever the control thread is idle, a module *)
(* can be detected (on a port an application has not taken for itself), or  *)
(* a worker serves one, or the end of that worker is still to be handled.   *)
NeverDeaf ==
    ctl = "get" =>
        /\ state = "Enabled" =>
              /\ expansion_serial = serial_id
              /\ serial_id \in irq \/ in_use[serial_id] = "app"
        /\ state = "Running" /\ worker = "done" =>
              \E k \in DOMAIN queue : queue[k].type = "ModuleDisconnected"
        /\ state = "Running" => worker # "none"

(* The control thread joins a worker that waits for room in the queue that  *)
(* only the control thread empties.                                         *)
JoinStuck == ctl \in {"stopping", "freeing"} /\ worker = "notify" /\ ~HasRoom

(* The control thread joins a worker that nobody has told to stop.          *)
JoinsTalkingWorker == ctl = "freeing" /\ overtaken

(* Every call of the service returns, also while a module keeps talking:    *)
(* there are no other ways to wait forever than these two.                  *)
CallsReturn == locked ~> ~locked \/ JoinStuck \/ JoinsTalkingWorker
=============================================================================
