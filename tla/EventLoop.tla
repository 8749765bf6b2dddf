----------------------------- MODULE EventLoop -----------------------------
(***************************************************************************)
(* FuriEventLoop (furi/core/event_loop.c) with the message queues it polls *)
(* (furi/core/message_queue.c).  One thread owns the loop and runs every   *)
(* callback; the other threads, and the interrupt handlers, put messages,  *)
(* take them, set thread flags and ask the loop to stop.                   *)
(*                                                                         *)
(* Grain of atomicity: a FURI_CRITICAL section, one FreeRTOS call or one   *)
(* read of a queue level is a step.  A put, a get and a reset are two      *)
(* steps: the queue changes, and only then the loop is notified.  State    *)
(* that only the loop thread touches is changed together with the nearest  *)
(* shared step.                                                            *)
(***************************************************************************)
EXTENDS Naturals, Sequences, FiniteSets

CONSTANTS
    Objects,            \* the message queues that can be polled
    Items,              \* addresses a FuriEventLoopItem can be allocated at
    Threads,            \* threads and interrupt handlers other than the loop's
    LoopThread,         \* instance->thread_id
    NoObject, NoItem,   \* NULL pointers
    FlagSetters,        \* the callers that set thread flags of the loop's thread
    Capacity,           \* uxLength of a queue
    Modes,              \* subscription modes that clients use
    MaxPending,         \* bound: callbacks in pending_queue
    MaxTimerRequests,   \* bound: requests in timer_queue
    Rerun               \* may a client run a stopped loop again?

Directions == {"In", "Out"}
Flags == {"Stop", "Event", "Timer", "Pending", "ThreadFlag"}

ASSUME CapacityAssumption == Capacity \in Nat \ {0}
ASSUME BoundsAssumption == MaxPending \in Nat /\ MaxTimerRequests \in Nat
ASSUME RerunAssumption == Rerun \in BOOLEAN
ASSUME NullAssumption ==
    NoObject \notin Objects /\ NoItem \notin Items /\ LoopThread \notin Threads
ASSUME FlagSettersAssumption == FlagSetters \subseteq Threads \cup {LoopThread}
ASSUME ModesAssumption ==
    Modes \subseteq [event : Directions, edge : BOOLEAN, once : BOOLEAN]

VARIABLES
    item,               \* the heap of items; a freed item is all zeroes
    tree,               \* instance->tree: object -> its item
    link,               \* object -> FuriEventLoopLink
    waiting_list,       \* instance->waiting_list
    current_item,       \* instance->current_item
    notify,             \* the loop's task notification value (bit set)
    hand,               \* the local flags taken by the last wait, less the served one
    pc,                 \* where the loop thread is
    proc,               \* the local item of furi_event_loop_process_waiting_list
    status,             \* FuriEventLoopProcessStatus
    ran,                \* has this instance been run before?
    count,              \* messages in each queue
    op,                 \* per thread: the notification it still has to send
    pending_queue,      \* instance->pending_queue, front first
    timer_requests,     \* length of instance->timer_queue
    are_thread_flags_subscribed,
    flag_owed           \* history: was a thread flag set that no callback has seen
                        \* yet ("owed"), and has the loop thrown its bit away
                        \* since ("dropped")?

loopVars == <<current_item, hand, pc, proc, status, ran>>
subVars  == <<item, tree, link>>
miscVars == <<pending_queue, timer_requests, are_thread_flags_subscribed, flag_owed>>
vars == <<item, tree, link, waiting_list, current_item, notify, hand, pc, proc,
          status, ran, count, op, pending_queue, timer_requests,
          are_thread_flags_subscribed, flag_owed>>

Callers == Threads \cup {LoopThread}

(* vPortFree clears the block (configHEAP_CLEAR_MEMORY_ON_FREE), so a freed *)
(* item reads as event 0, contract NULL, owner NULL.                        *)
Zeroed == [object |-> NoObject, event |-> "None", edge |-> FALSE,
           once |-> FALSE, owner |-> FALSE]
ItemRecords == [object : Objects \cup {NoObject}, event : Directions \cup {"None"},
                edge : BOOLEAN, once : BOOLEAN, owner : BOOLEAN]
IsFree(i) == item[i] = Zeroed

NoOp == [object |-> NoObject, event |-> "None"]
FlagOp == [object |-> NoObject, event |-> "ThreadFlag"]
Ops == [object : Objects, event : Directions] \cup {NoOp, FlagOp}

(* The states of the loop thread in which client code runs.               *)
CallbackPCs == {"item_cb", "pending_cb", "flags_cb", "timeout_cb"}
ClientPCs == CallbackPCs \cup {"none", "stopped"}
ItemPCs == {"pop", "process_event", "dispatch", "item_cb", "finish"}
PCs == ClientPCs \cup ItemPCs \cup {"wait", "fault"}

InLoop == pc \notin {"none", "stopped", "fault"}

(* A thread can make a call when its previous one has returned; the loop   *)
(* thread only from client code.                                           *)
CanCall(t) ==
    op[t] = NoOp /\ pc # "fault" /\ (t = LoopThread => pc \in ClientPCs)

TypeOK ==
    /\ item \in [Items -> ItemRecords]
    /\ tree \in [Objects -> Items \cup {NoItem}]
    /\ link \in [Objects -> [Directions -> Items \cup {NoItem}]]
    /\ waiting_list \in Seq(Items)
    /\ current_item \in Items \cup {NoItem}
    /\ notify \in SUBSET Flags
    /\ hand \in SUBSET Flags
    /\ pc \in PCs
    /\ proc \in Items \cup {NoItem}
    /\ status \in {"Complete", "Incomplete"}
    /\ ran \in BOOLEAN
    /\ count \in [Objects -> 0..Capacity]
    /\ op \in [Callers -> Ops]
    /\ pending_queue \in Seq(BOOLEAN)
    /\ timer_requests \in 0..MaxTimerRequests
    /\ are_thread_flags_subscribed \in BOOLEAN
    /\ flag_owed \in {"none", "owed", "dropped"}

-----------------------------------------------------------------------------
(* The waiting list, an intrusive list: a member is found by its own links. *)

furi_event_loop_item_is_waiting(i) ==
    \E k \in DOMAIN waiting_list : waiting_list[k] = i

Unlinked(i) ==
    LET at == CHOOSE k \in DOMAIN waiting_list : waiting_list[k] = i
    IN  IF furi_event_loop_item_is_waiting(i)
        THEN [k \in 1..(Len(waiting_list) - 1) |->
                 IF k < at THEN waiting_list[k] ELSE waiting_list[k + 1]]
        ELSE waiting_list

(* furi_event_loop_item_notify appends the item unless it already waits.   *)
Notified(i) == IF furi_event_loop_item_is_waiting(i) THEN waiting_list
               ELSE Append(waiting_list, i)

(* contract->get_level of a message queue.                                 *)
get_level(o, event) == IF event = "In" THEN count[o] > 0 ELSE count[o] < Capacity

-----------------------------------------------------------------------------
(* Life of an instance                                                     *)

furi_event_loop_alloc ==
    /\ pc = "none" /\ op[LoopThread] = NoOp
    /\ notify' = {}
    /\ pc' = "stopped"
    /\ ran' = FALSE
    /\ UNCHANGED <<subVars, waiting_list, current_item, hand, proc, status,
                   count, op, miscVars>>

(* The code checks the state, the waiting list and the thread flags; that  *)
(* every object has been unsubscribed is left to the caller.               *)
furi_event_loop_free ==
    /\ pc = "stopped" /\ op[LoopThread] = NoOp
    /\ waiting_list = <<>>
    /\ ~are_thread_flags_subscribed
    /\ \A o \in Objects : tree[o] = NoItem
    /\ timer_requests' = 0
    /\ pending_queue' = <<>>
    /\ notify' = {}
    /\ pc' = "none"
    /\ UNCHANGED <<subVars, waiting_list, current_item, hand, proc, status, ran,
                   count, op, are_thread_flags_subscribed, flag_owed>>

furi_event_loop_run ==
    /\ pc = "stopped" /\ op[LoopThread] = NoOp
    /\ ran => Rerun
    /\ pc' = "wait"
    /\ ran' = TRUE
    /\ UNCHANGED <<subVars, waiting_list, current_item, notify, hand, proc, status,
                   count, op, miscVars>>

(* Any thread, or the loop's own callbacks.                                *)
furi_event_loop_stop(t) ==
    /\ CanCall(t) /\ pc # "none"
    /\ notify' = notify \cup {"Stop"}
    /\ UNCHANGED <<subVars, waiting_list, loopVars, count, op, miscVars>>

-----------------------------------------------------------------------------
(* The body of furi_event_loop_run: xTaskNotifyWait takes every flag at    *)
(* once, one branch runs, and the Event and Timer branches put the other   *)
(* flags back when they are done.                                          *)

StopTaken == "Stop" \in notify

(* The branches that keep the other flags to themselves throw ThreadFlag    *)
(* away.                                                                    *)
OwedAfterDrop ==
    IF flag_owed = "owed" /\ "ThreadFlag" \in notify THEN "dropped" ELSE flag_owed

wait_stop ==
    /\ pc = "wait" /\ StopTaken
    /\ pc' = "stopped"
    /\ notify' = {}
    /\ flag_owed' = OwedAfterDrop
    /\ UNCHANGED <<subVars, waiting_list, current_item, hand, proc, status, ran,
                   count, op, pending_queue, timer_requests,
                   are_thread_flags_subscribed>>

FlagsKept_dropped == {}

(* The flags the Event branch puts back when it is done.                   *)
FlagsKept == notify \ {"Event"}

wait_event ==
    /\ pc = "wait" /\ "Event" \in notify /\ "Stop" \notin notify
    /\ pc' = "pop"
    /\ hand' = FlagsKept
    /\ notify' = {}
    /\ UNCHANGED <<subVars, waiting_list, current_item, proc, status, ran,
                   count, op, miscVars>>

(* furi_event_loop_process_timer_queue, then furi_event_loop_restore_flags. *)
wait_timer ==
    /\ pc = "wait" /\ "Timer" \in notify /\ notify \cap {"Stop", "Event"} = {}
    /\ timer_requests' = 0
    /\ pending_queue' = [k \in DOMAIN pending_queue |-> FALSE]
    /\ notify' = notify \ {"Timer"}
    /\ UNCHANGED <<subVars, waiting_list, loopVars, count, op,
                   are_thread_flags_subscribed, flag_owed>>

PendingTurn_early == notify \cap {"Stop", "Event"} = {}

PendingTurn == notify \cap {"Stop", "Event", "Timer"} = {}

(* This branch and the next keep what else they took to themselves.        *)
wait_pending ==
    /\ pc = "wait" /\ "Pending" \in notify /\ PendingTurn
    /\ notify' = {}
    /\ pc' = IF pending_queue = <<>> THEN "wait" ELSE "pending_cb"
    /\ flag_owed' = OwedAfterDrop
    /\ UNCHANGED <<subVars, waiting_list, current_item, hand, proc, status, ran,
                   count, op, pending_queue, timer_requests,
                   are_thread_flags_subscribed>>

(* furi_event_loop_process_pending_callbacks: the entry is popped after its *)
(* callback returned, and the loop goes on until the queue is empty.       *)
pending_callback_return ==
    /\ pc = "pending_cb" /\ op[LoopThread] = NoOp
    /\ pending_queue' = SubSeq(pending_queue, 1, Len(pending_queue) - 1)
    /\ pc' = IF Len(pending_queue) = 1 THEN "wait" ELSE "pending_cb"
    /\ UNCHANGED <<subVars, waiting_list, current_item, notify, hand, proc, status,
                   ran, count, op, timer_requests, are_thread_flags_subscribed,
                   flag_owed>>

wait_thread_flag ==
    /\ pc = "wait" /\ notify = {"ThreadFlag"}
    /\ notify' = {}
    /\ pc' = IF are_thread_flags_subscribed THEN "flags_cb" ELSE "wait"
    /\ flag_owed' = "none"
    /\ UNCHANGED <<subVars, waiting_list, current_item, hand, proc, status, ran,
                   count, op, pending_queue, timer_requests,
                   are_thread_flags_subscribed>>

(* The wait times out: an expired timer's or the tick's callback runs.     *)
(* EventLoopTimer models when.                                             *)
wait_timeout ==
    /\ pc = "wait" /\ notify = {}
    /\ pc' = "timeout_cb"
    /\ UNCHANGED <<subVars, waiting_list, current_item, notify, hand, proc, status,
                   ran, count, op, miscVars>>

callback_return ==
    /\ pc \in {"flags_cb", "timeout_cb"} /\ op[LoopThread] = NoOp
    /\ pc' = "wait"
    /\ UNCHANGED <<subVars, waiting_list, current_item, notify, hand, proc, status,
                   ran, count, op, miscVars>>

-----------------------------------------------------------------------------
(* furi_event_loop_process_waiting_list, one item per Event flag           *)

furi_event_loop_get_waiting_item ==
    /\ pc = "pop"
    /\ IF waiting_list = <<>>
       THEN /\ pc' = "wait"
            /\ notify' = notify \cup hand
            /\ hand' = {}
            /\ UNCHANGED <<waiting_list, proc>>
       ELSE /\ pc' = "process_event"
            /\ proc' = Head(waiting_list)
            /\ waiting_list' = Tail(waiting_list)
            /\ UNCHANGED <<notify, hand>>
    /\ UNCHANGED <<subVars, current_item, status, ran, count, op, miscVars>>

(* furi_event_loop_unsubscribe frees the item at once, unless it is the one *)
(* being processed: that one only loses its owner.                          *)
HeapWithout_freeing(i) == [item EXCEPT ![i] = Zeroed]

HeapWithout(i) == IF current_item = i THEN [item EXCEPT ![i].owner = FALSE]
                  ELSE [item EXCEPT ![i] = Zeroed]

LinkWithout_stale(o) == link

LinkWithout(o) == [link EXCEPT ![o][item[tree[o]].event] = NoItem]

(* The checks of furi_event_loop_unsubscribe.                              *)
CanUnsubscribe(o) ==
    /\ tree[o] # NoItem
    /\ item[tree[o]].event \in Directions
    /\ link[o][item[tree[o]].event] = tree[o]

(* The item of o leaves the tree, the link and the waiting list.           *)
Unsubscribe(o) ==
    /\ CanUnsubscribe(o)
    /\ tree' = [tree EXCEPT ![o] = NoItem]
    /\ link' = LinkWithout(o)
    /\ item' = HeapWithout(tree[o])
    /\ waiting_list' = Unlinked(tree[o])

(* furi_event_loop_process_event up to the choice of the trigger: a Once    *)
(* item is unsubscribed before it becomes the current one.                  *)
process_event ==
    /\ pc = "process_event"
    /\ IF item[proc].once THEN Unsubscribe(item[proc].object)
       ELSE UNCHANGED <<subVars, waiting_list>>
    /\ current_item' = proc
    /\ pc' = "dispatch"
    /\ UNCHANGED <<notify, hand, proc, status, ran, count, op, miscVars>>

(* get_level is reached through item->contract, which a freed item no       *)
(* longer has, and is given item->event with its flag bits, which the       *)
(* queue's get_level refuses.                                               *)
LevelFaults == item[proc].event = "None" \/ item[proc].once

LevelUp == get_level(item[proc].object, item[proc].event)

process_edge_event ==
    /\ pc = "dispatch" /\ item[proc].edge
    /\ pc' = "item_cb"
    /\ UNCHANGED <<subVars, waiting_list, current_item, notify, hand, proc, status,
                   ran, count, op, miscVars>>

process_level_event ==
    /\ pc = "dispatch" /\ ~item[proc].edge
    /\ pc' = IF LevelFaults THEN "fault" ELSE IF LevelUp THEN "item_cb" ELSE "finish"
    /\ status' = "Complete"
    /\ UNCHANGED <<subVars, waiting_list, current_item, notify, hand, proc,
                   ran, count, op, miscVars>>

StatusAfterCallback_once == "Complete"

(* A level triggered item is looked at once more after its callback.       *)
StatusAfterCallback ==
    IF ~item[proc].edge /\ ~LevelFaults /\ LevelUp THEN "Incomplete" ELSE "Complete"

item_callback_return ==
    /\ pc = "item_cb" /\ op[LoopThread] = NoOp
    /\ pc' = IF ~item[proc].edge /\ LevelFaults THEN "fault" ELSE "finish"
    /\ status' = StatusAfterCallback
    /\ UNCHANGED <<subVars, waiting_list, current_item, notify, hand, proc,
                   ran, count, op, miscVars>>

SyncedFlags_dropped(w) == {}

(* furi_event_loop_sync_flags: items that still wait raise Event again.    *)
SyncedFlags(w) == IF w = <<>> THEN {} ELSE {"Event"}

Requeued_never == waiting_list

Requeued == IF item[proc].owner /\ status = "Incomplete" THEN Notified(proc)
            ELSE waiting_list

(* The end of furi_event_loop_process_event, the three statuses,            *)
(* furi_event_loop_sync_flags and furi_event_loop_restore_flags.            *)
process_waiting_list_finish ==
    /\ pc = "finish"
    /\ current_item' = NoItem
    /\ item' = IF item[proc].owner THEN item ELSE [item EXCEPT ![proc] = Zeroed]
    /\ waiting_list' = Requeued
    /\ notify' = notify \cup hand \cup SyncedFlags(Requeued)
    /\ hand' = {}
    /\ proc' = NoItem
    /\ pc' = "wait"
    /\ UNCHANGED <<tree, link, status, ran, count, op, miscVars>>

-----------------------------------------------------------------------------
(* Subscriptions, made by client code in the loop's thread                 *)

LoopThreadCalls == CanCall(LoopThread) /\ pc # "none"

furi_event_loop_object_subscribe(o, m) ==
    /\ LoopThreadCalls
    /\ tree[o] = NoItem
    /\ link[o][m.event] = NoItem
    /\ \E i \in Items :
        /\ IsFree(i)
        /\ item' = [item EXCEPT ![i] =
               [object |-> o, event |-> m.event, edge |-> m.edge, once |-> m.once,
                owner |-> TRUE]]
        /\ tree' = [tree EXCEPT ![o] = i]
        /\ link' = [link EXCEPT ![o][m.event] = i]
        /\ IF ~m.edge /\ get_level(o, m.event)
           THEN /\ waiting_list' = Notified(i)
                /\ notify' = notify \cup {"Event"}
           ELSE UNCHANGED <<waiting_list, notify>>
    /\ UNCHANGED <<loopVars, count, op, miscVars>>

furi_event_loop_unsubscribe(o) ==
    /\ LoopThreadCalls
    /\ Unsubscribe(o)
    /\ UNCHANGED <<loopVars, notify, count, op, miscVars>>

furi_event_loop_subscribe_thread_flags ==
    /\ LoopThreadCalls /\ FlagSetters # {}
    /\ ~are_thread_flags_subscribed
    /\ are_thread_flags_subscribed' = TRUE
    /\ UNCHANGED <<subVars, waiting_list, notify, loopVars, count, op,
                   pending_queue, timer_requests, flag_owed>>

furi_event_loop_unsubscribe_thread_flags ==
    /\ LoopThreadCalls
    /\ are_thread_flags_subscribed
    /\ are_thread_flags_subscribed' = FALSE
    /\ flag_owed' = "none"
    /\ UNCHANGED <<subVars, waiting_list, notify, loopVars, count, op,
                   pending_queue, timer_requests>>

(* furi_event_loop_timer_enqueue_request.                                   *)
furi_event_loop_timer_enqueue_request ==
    /\ LoopThreadCalls
    /\ timer_requests < MaxTimerRequests
    /\ timer_requests' = timer_requests + 1
    /\ notify' = notify \cup {"Timer"}
    /\ UNCHANGED <<subVars, waiting_list, loopVars, count, op, pending_queue,
                   are_thread_flags_subscribed, flag_owed>>

(* An entry of pending_queue is TRUE while a timer request that was made    *)
(* before it has not been processed.                                        *)
furi_event_loop_pend_callback ==
    /\ LoopThreadCalls
    /\ Len(pending_queue) < MaxPending
    /\ pending_queue' = <<timer_requests > 0>> \o pending_queue
    /\ notify' = notify \cup {"Pending"}
    /\ UNCHANGED <<subVars, waiting_list, loopVars, count, op, timer_requests,
                   are_thread_flags_subscribed, flag_owed>>

-----------------------------------------------------------------------------
(* Message queues and thread flags, from any thread: the state changes      *)
(* first, the loop is told in a step of its own.                            *)

QueueStep(t, o, n, event) ==
    /\ CanCall(t)
    /\ count' = [count EXCEPT ![o] = n]
    /\ op' = [op EXCEPT ![t] = [object |-> o, event |-> event]]
    /\ UNCHANGED <<subVars, waiting_list, notify, loopVars, miscVars>>

furi_message_queue_put(t, o) ==
    count[o] < Capacity /\ QueueStep(t, o, count[o] + 1, "In")

furi_message_queue_get(t, o) ==
    count[o] > 0 /\ QueueStep(t, o, count[o] - 1, "Out")

furi_message_queue_reset(t, o) == QueueStep(t, o, 0, "Out")

furi_event_loop_link_notify(t) ==
    /\ op[t] \notin {NoOp, FlagOp}
    /\ LET i == link[op[t].object][op[t].event]
       IN  IF i = NoItem THEN UNCHANGED <<waiting_list, notify>>
           ELSE /\ waiting_list' = Notified(i)
                /\ notify' = notify \cup {"Event"}
    /\ op' = [op EXCEPT ![t] = NoOp]
    /\ UNCHANGED <<subVars, loopVars, count, miscVars>>

furi_thread_flags_set(t) ==
    /\ CanCall(t) /\ t \in FlagSetters
    /\ op' = [op EXCEPT ![t] = FlagOp]
    /\ flag_owed' = IF are_thread_flags_subscribed THEN "owed" ELSE flag_owed
    /\ UNCHANGED <<subVars, waiting_list, notify, loopVars, count, pending_queue,
                   timer_requests, are_thread_flags_subscribed>>

furi_event_loop_thread_flag_callback(t) ==
    /\ op[t] = FlagOp
    /\ notify' = notify \cup {"ThreadFlag"}
    /\ op' = [op EXCEPT ![t] = NoOp]
    /\ flag_owed' = IF flag_owed = "dropped" THEN "owed" ELSE flag_owed
    /\ UNCHANGED <<subVars, waiting_list, loopVars, count, pending_queue,
                   timer_requests, are_thread_flags_subscribed>>

-----------------------------------------------------------------------------
Init ==
    /\ item = [i \in Items |-> Zeroed]
    /\ tree = [o \in Objects |-> NoItem]
    /\ link = [o \in Objects |-> [d \in Directions |-> NoItem]]
    /\ waiting_list = <<>>
    /\ current_item = NoItem
    /\ notify = {} /\ hand = {}
    /\ pc = "none"
    /\ proc = NoItem
    /\ status = "Complete"
    /\ ran = FALSE
    /\ count = [o \in Objects |-> 0]
    /\ op = [t \in Callers |-> NoOp]
    /\ pending_queue = <<>>
    /\ timer_requests = 0
    /\ are_thread_flags_subscribed = FALSE
    /\ flag_owed = "none"

LoopStep ==
    \/ wait_stop
    \/ wait_event
    \/ wait_timer
    \/ wait_pending
    \/ wait_thread_flag
    \/ furi_event_loop_get_waiting_item
    \/ process_event
    \/ process_edge_event
    \/ process_level_event
    \/ process_waiting_list_finish

CallbackReturn ==
    \/ item_callback_return
    \/ pending_callback_return
    \/ callback_return

FinishOp(t) == furi_event_loop_link_notify(t) \/ furi_event_loop_thread_flag_callback(t)

Call(t) ==
    \/ furi_event_loop_stop(t)
    \/ \E o \in Objects :
         \/ furi_message_queue_put(t, o)
         \/ furi_message_queue_get(t, o)
         \/ furi_message_queue_reset(t, o)
    \/ furi_thread_flags_set(t)

ClientStep ==
    \/ furi_event_loop_alloc
    \/ furi_event_loop_free
    \/ furi_event_loop_run
    \/ \E o \in Objects, m \in Modes : furi_event_loop_object_subscribe(o, m)
    \/ \E o \in Objects : furi_event_loop_unsubscribe(o)
    \/ furi_event_loop_subscribe_thread_flags
    \/ furi_event_loop_unsubscribe_thread_flags
    \/ furi_event_loop_timer_enqueue_request
    \/ furi_event_loop_pend_callback

Next ==
    \/ LoopStep
    \/ wait_timeout
    \/ CallbackReturn
    \/ \E t \in Callers : FinishOp(t) \/ Call(t)
    \/ ClientStep

Spec == Init /\ [][Next]_vars

(* The scheduler runs the loop's thread and lets every started call finish; *)
(* callbacks return (a client's duty: they may not block).                  *)
Fairness ==
    /\ WF_vars(LoopStep)
    /\ SF_vars(CallbackReturn)
    /\ \A t \in Callers : WF_vars(FinishOp(t))

FairSpec == Spec /\ Fairness

-----------------------------------------------------------------------------
(* Properties                                                              *)

Subscribed(o) == tree[o] # NoItem
Event(o) == item[tree[o]].event
LevelSubscribed(o) == Subscribed(o) /\ ~item[tree[o]].edge

(* An item is allocated exactly while its object's subscription holds it or *)
(* while the loop still works on it after its callback cancelled it; it is  *)
(* in the tree and in one slot of its object's link together, and only      *)
(* subscribed items wait, each once.  Otherwise an item leaks, or           *)
(* furi_event_loop_link_notify or the waiting list follow a freed pointer.  *)
ItemsAccounted ==
    /\ \A o \in Objects : Subscribed(o) =>
          /\ item[tree[o]].object = o /\ item[tree[o]].owner
          /\ link[o][Event(o)] = tree[o]
    /\ \A o \in Objects, d \in Directions : link[o][d] # NoItem =>
          link[o][d] = tree[o] /\ Event(o) = d
    /\ \A i \in Items : ~IsFree(i) =>
          \/ tree[item[i].object] = i
          \/ i = proc /\ ~item[i].owner /\ pc \in {"item_cb", "finish"}
    /\ \A k \in DOMAIN waiting_list :
          tree[item[waiting_list[k]].object] = waiting_list[k]
    /\ \A j, k \in DOMAIN waiting_list : waiting_list[j] = waiting_list[k] => j = k

(* Between the waiting list and the end of its processing the loop never    *)
(* works on a freed item.                                                   *)
NoUseAfterFree == pc \in (ItemPCs \ {"pop"}) => ~IsFree(proc)

(* When the loop is about to sleep, each kind of queued work has its flag   *)
(* set, so it does not sleep on it: otherwise the work waits for some       *)
(* unrelated notification.                                                  *)
FlagsCoverWork ==
    pc = "wait" =>
        /\ waiting_list # <<>> => "Event" \in notify
        /\ timer_requests > 0 => "Timer" \in notify
        /\ pending_queue # <<>> => "Pending" \in notify

(* When the loop is about to sleep, each level triggered object whose level *)
(* is up either waits for its turn, or the thread that raised the level has *)
(* not sent its notification yet.  This is what "the event will be          *)
(* generated repeatedly until the level becomes zero" takes.                *)
NoLostLevel ==
    pc = "wait" =>
        \A o \in Objects :
            LevelSubscribed(o) /\ get_level(o, Event(o)) =>
                \/ furi_event_loop_item_is_waiting(tree[o]) /\ "Event" \in notify
                \/ \E t \in Callers : op[t] = [object |-> o, event |-> Event(o)]

ThreadFlagComing ==
    "ThreadFlag" \in notify \/ \E t \in Callers : op[t] = FlagOp

(* A thread flag set while the loop is subscribed is lost by the branch of  *)
(* pended callbacks and by a stop only, and the next flag set makes up for  *)
(* it: unless one of these has thrown it away since, the loop does not      *)
(* sleep before its callback has run.                                       *)
OnlyPendedDropsThreadFlag ==
    pc = "wait" /\ flag_owed = "owed" /\ are_thread_flags_subscribed =>
        ThreadFlagComing

(* A thread flag set while the loop is subscribed reaches "the callback to  *)
(* call when a flag has been set" (event_loop.h), whatever else the loop    *)
(* does: it does not sleep before the callback has run.                     *)
NoLostThreadFlag ==
    pc = "wait" /\ flag_owed # "none" /\ are_thread_flags_subscribed =>
        ThreadFlagComing

(* When the loop turns to the pended callbacks, every timer command made    *)
(* before any of them has been processed: "Call a function when all         *)
(* preceding timer commands are processed" (event_loop.h).                  *)
PendedAfterTimers ==
    [][wait_pending => \A k \in DOMAIN pending_queue : ~pending_queue[k]]_vars

(* The same of each pended callback when it is called, those of one batch   *)
(* that were pended by an earlier one of the batch included.                *)
EachPendedAfterTimers ==
    pc = "pending_cb" => ~pending_queue[Len(pending_queue)]

(* Whatever else keeps the loop busy, a level triggered object whose level  *)
(* stays up has its callback run, unless it is unsubscribed or the loop     *)
(* leaves.                                                                  *)
LevelIsServed ==
    \A o \in Objects :
        (InLoop /\ LevelSubscribed(o) /\ get_level(o, Event(o)))
            ~> \/ ~InLoop \/ ~LevelSubscribed(o) \/ ~get_level(o, Event(o))
               \/ pc = "item_cb" /\ proc = tree[o]
=============================================================================
