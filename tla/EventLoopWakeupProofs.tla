----------------------- MODULE EventLoopWakeupProofs -----------------------
(* The loop of EventLoop never sleeps over work: the theorem and its        *)
(* inductive invariant.                                                     *)
EXTENDS EventLoopProofs

(* A loop that was stopped and is not run again serves nothing.            *)
Dead == pc = "stopped" /\ ran

(* Without an instance there is nothing to serve.                          *)
NoneInv ==
    pc = "none" =>
        /\ waiting_list = <<>> /\ pending_queue = <<>> /\ timer_requests = 0
        /\ \A o \in Objects : tree[o] = NoItem

HandInv == pc \notin ItemPCs => hand = {}

RanInv == pc \notin {"none", "stopped"} => ran

(* Each kind of queued work has its flag set, or in hand, or its branch is  *)
(* running and will look at the queue again before the loop sleeps.         *)
EventFlagInv ==
    waiting_list # <<>> => "Event" \in notify \/ pc \in ItemPCs \/ Dead

TimerFlagInv ==
    timer_requests > 0 => "Timer" \in notify \cup hand \/ Dead

PendingFlagInv ==
    pending_queue # <<>> => "Pending" \in notify \cup hand \/ pc = "pending_cb" \/ Dead

FlagsInv == NoneInv /\ HandInv /\ RanInv /\ EventFlagInv /\ TimerFlagInv /\ PendingFlagInv

(* Who answers for an object whose level is up.                            *)
Answered(o) ==
    \/ furi_event_loop_item_is_waiting(tree[o])
    \/ \E t \in Callers : op[t] = [object |-> o, event |-> Event(o)]
    \/ proc = tree[o] /\ pc \in {"process_event", "dispatch", "item_cb"}
    \/ proc = tree[o] /\ pc = "finish" /\ status = "Incomplete"

LevelInv ==
    \A o \in Objects :
        LevelSubscribed(o) /\ get_level(o, Event(o)) => Answered(o)

-----------------------------------------------------------------------------
LEMMA UnlinkedKeeps ==
    ASSUME waiting_list \in Seq(Items), NEW i, NEW j, i # j,
           furi_event_loop_item_is_waiting(j)
    PROVE  \E k \in DOMAIN Unlinked(i) : Unlinked(i)[k] = j
<1>1. CASE furi_event_loop_item_is_waiting(i)
  <2> DEFINE at == CHOOSE k \in DOMAIN waiting_list : waiting_list[k] = i
  <2>1. at \in DOMAIN waiting_list /\ waiting_list[at] = i
    BY <1>1 DEF furi_event_loop_item_is_waiting
  <2> HIDE DEF at
  <2>2. Unlinked(i) = [k \in 1..(Len(waiting_list) - 1) |->
                         IF k < at THEN waiting_list[k] ELSE waiting_list[k + 1]]
    BY <1>1 DEF Unlinked, at
  <2>3. PICK k \in DOMAIN waiting_list : waiting_list[k] = j
    BY DEF furi_event_loop_item_is_waiting
  <2>4. /\ Len(waiting_list) \in Nat /\ at \in 1..Len(waiting_list)
        /\ k \in 1..Len(waiting_list) /\ k # at
    BY <2>1, <2>3
  <2>5. CASE k < at
    BY <2>2, <2>3, <2>4, <2>5
  <2>6. CASE k > at
    <3>1. k - 1 \in 1..(Len(waiting_list) - 1) /\ ~(k - 1 < at) /\ (k - 1) + 1 = k
      BY <2>4, <2>6
    <3>2. Unlinked(i)[k - 1] = j
      BY <2>2, <2>3, <3>1
    <3> QED
      BY <2>2, <3>1, <3>2
  <2> QED
    BY <2>4, <2>5, <2>6
<1>2. CASE ~furi_event_loop_item_is_waiting(i)
  BY <1>2 DEF Unlinked, furi_event_loop_item_is_waiting
<1> QED
  BY <1>1, <1>2

LEMMA NotifiedKeeps ==
    ASSUME waiting_list \in Seq(Items), NEW i \in Items, NEW j,
           j = i \/ furi_event_loop_item_is_waiting(j)
    PROVE  \E k \in DOMAIN Notified(i) : Notified(i)[k] = j
<1>1. CASE furi_event_loop_item_is_waiting(i)
  BY <1>1 DEF Notified, furi_event_loop_item_is_waiting
<1>2. CASE ~furi_event_loop_item_is_waiting(i)
  <2>1. Notified(i) = Append(waiting_list, i)
    BY <1>2 DEF Notified
  <2>2. /\ Len(waiting_list) + 1 \in DOMAIN Append(waiting_list, i)
        /\ Append(waiting_list, i)[Len(waiting_list) + 1] = i
    OBVIOUS
  <2>3. \A k \in DOMAIN waiting_list :
           k \in DOMAIN Append(waiting_list, i) /\ Append(waiting_list, i)[k] = waiting_list[k]
    OBVIOUS
  <2> QED
    BY <2>1, <2>2, <2>3 DEF furi_event_loop_item_is_waiting
<1> QED
  BY <1>1, <1>2

-----------------------------------------------------------------------------
(* The flags                                                               *)

LEMMA FlagsInit == Init => FlagsInv
BY DEF Init, FlagsInv, NoneInv, HandInv, RanInv, EventFlagInv, TimerFlagInv, PendingFlagInv,
    ItemPCs

(* Between the choice of an item and the return of its callback the loop    *)
(* itself changes only pc, status and current_item.                        *)
LEMMA DispatchFrame ==
    ASSUME ItemInv,
           \/ process_event \/ process_edge_event
           \/ process_level_event \/ item_callback_return
    PROVE  /\ UNCHANGED <<item, tree, link, waiting_list, proc, notify, hand, ran, count, op,
                          miscVars>>
           /\ ~LevelFaults
           /\ \/ pc = "process_event" /\ pc' = "dispatch"
              \/ pc \in {"dispatch", "item_cb"} /\ pc' \in {"item_cb", "finish"}
<1>1. ~item[proc].once /\ item[proc].event \in Directions
  BY DEF process_event, process_edge_event, process_level_event, item_callback_return,
     ItemInv, ProcInv, HeapInv, Processing
<1>2. ~LevelFaults
  BY <1>1 DEF LevelFaults, Directions
<1> QED
  BY <1>1, <1>2 DEF process_event, process_edge_event, process_level_event,
     item_callback_return, subVars

LEMMA FlagsNext ==
    ASSUME ~Rerun, ItemInv, FlagsInv, [Next]_vars
    PROVE  FlagsInv'
<1> USE DEF loopVars, subVars, miscVars, FlagsInv, NoneInv, HandInv, RanInv, EventFlagInv,
            TimerFlagInv, PendingFlagInv, Dead, ItemPCs, ClientPCs, CallbackPCs
<1>a. waiting_list \in Seq(Items) /\ pending_queue \in Seq(BOOLEAN) /\ timer_requests \in Nat
  BY BoundsAssumption DEF ItemInv, TypeInv, TypeOK
<1>0. CASE UNCHANGED vars
  BY <1>0 DEF vars
<1>1. CASE wait_stop
  BY <1>1 DEF wait_stop
<1>2. CASE wait_event
  BY <1>2 DEF wait_event, FlagsKept
<1>3. CASE wait_timer
  <2>1. /\ pc = "wait" /\ UNCHANGED <<pc, hand, ran, waiting_list, tree>>
        /\ "Event" \notin notify /\ timer_requests' = 0
        /\ "Pending" \in notify => "Pending" \in notify'
    BY <1>3 DEF wait_timer
  <2>2. pending_queue = <<>> => pending_queue' = <<>>
    BY <1>3 DEF wait_timer
  <2> QED
    BY <2>1, <2>2, <1>a
<1>4. CASE wait_pending
  BY <1>4 DEF wait_pending, PendingTurn
<1>5. CASE wait_thread_flag
  BY <1>5 DEF wait_thread_flag
<1>6. CASE furi_event_loop_get_waiting_item
  BY <1>6 DEF furi_event_loop_get_waiting_item
<1>7. CASE process_event \/ process_edge_event \/ process_level_event \/ item_callback_return
  BY <1>7, DispatchFrame
<1>8. CASE process_waiting_list_finish
  BY <1>8 DEF process_waiting_list_finish, SyncedFlags
<1>9. CASE wait_timeout \/ callback_return
  BY <1>9 DEF wait_timeout, callback_return
<1>10. CASE pending_callback_return
  <2>1. Len(pending_queue) = 1 => pending_queue' = <<>>
    BY <1>10, <1>a DEF pending_callback_return
  <2> QED
    BY <1>10, <2>1 DEF pending_callback_return
<1>11. CASE furi_event_loop_alloc \/ furi_event_loop_free \/ furi_event_loop_run
  BY <1>11, <1>a DEF furi_event_loop_alloc, furi_event_loop_free, furi_event_loop_run
<1>12. CASE \/ furi_event_loop_subscribe_thread_flags
            \/ furi_event_loop_unsubscribe_thread_flags
            \/ furi_event_loop_timer_enqueue_request
            \/ furi_event_loop_pend_callback
  BY <1>12
  DEF furi_event_loop_subscribe_thread_flags, furi_event_loop_unsubscribe_thread_flags,
      furi_event_loop_timer_enqueue_request, furi_event_loop_pend_callback,
      LoopThreadCalls, CanCall
<1>13. ASSUME NEW o \in Objects, NEW m \in Modes, furi_event_loop_object_subscribe(o, m)
       PROVE  FlagsInv'
  BY <1>13 DEF furi_event_loop_object_subscribe, LoopThreadCalls, CanCall
<1>14. ASSUME NEW o \in Objects, furi_event_loop_unsubscribe(o)
       PROVE  FlagsInv'
  <2>1. /\ waiting_list' = Unlinked(tree[o])
        /\ pc \in ClientPCs \ {"none"}
        /\ UNCHANGED <<notify, hand, pc, ran, pending_queue, timer_requests>>
    BY <1>14 DEF furi_event_loop_unsubscribe, LoopThreadCalls, CanCall, Unsubscribe
  <2>2. waiting_list = <<>> => Unlinked(tree[o]) = <<>>
    BY DEF Unlinked, furi_event_loop_item_is_waiting
  <2> QED
    BY <2>1, <2>2
<1>15. ASSUME NEW t \in Callers,
              \/ furi_event_loop_stop(t) \/ furi_thread_flags_set(t)
              \/ furi_event_loop_thread_flag_callback(t)
              \/ \E o \in Objects : \/ furi_message_queue_put(t, o)
                                    \/ furi_message_queue_get(t, o)
                                    \/ furi_message_queue_reset(t, o)
       PROVE  FlagsInv'
  BY <1>15
  DEF furi_event_loop_stop, furi_thread_flags_set, furi_event_loop_thread_flag_callback,
      furi_message_queue_put, furi_message_queue_get, furi_message_queue_reset, QueueStep
<1>16. ASSUME NEW t \in Callers, furi_event_loop_link_notify(t)
       PROVE  FlagsInv'
  <2> DEFINE i == link[op[t].object][op[t].event]
  <2>1. op[t].object \in Objects /\ op[t].event \in Directions
    BY <1>16 DEF furi_event_loop_link_notify, ItemInv, TypeInv, TypeOK, Ops
  <2>2. pc = "none" => i = NoItem
    BY <2>1 DEF ItemInv, LinkInv
  <2>3. /\ UNCHANGED <<hand, pc, ran, pending_queue, timer_requests, tree>>
        /\ notify \subseteq notify'
        /\ waiting_list' # waiting_list => i # NoItem /\ "Event" \in notify'
    BY <1>16 DEF furi_event_loop_link_notify
  <2> QED
    BY <2>2, <2>3
<1> QED
  BY <1>0, <1>1, <1>2, <1>3, <1>4, <1>5, <1>6, <1>7, <1>8, <1>9, <1>10, <1>11, <1>12,
     <1>13, <1>14, <1>15, <1>16
  DEF Next, LoopStep, CallbackReturn, FinishOp, Call, ClientStep

-----------------------------------------------------------------------------
(* The levels                                                              *)

ProcAnswers == {"process_event", "dispatch", "item_cb", "finish"}

(* A step that changes neither items nor queues, keeps who waits and leaves *)
(* the processing of an item alone.                                        *)
LEMMA LevelFrame ==
    ASSUME LevelInv, UNCHANGED <<item, tree, count, op, proc, status>>,
           \A j : furi_event_loop_item_is_waiting(j) => furi_event_loop_item_is_waiting(j)',
           pc' = pc \/ pc \notin ProcAnswers
    PROVE  LevelInv'
BY DEF LevelInv, LevelSubscribed, Subscribed, Event, get_level, Answered, ProcAnswers

LEMMA LevelInit == Init => LevelInv
BY DEF Init, LevelInv, LevelSubscribed, Subscribed

(* The step of a thread that puts, takes or resets is its own answer for the *)
(* direction whose level it can raise.                                      *)
LEMMA LevelQueueStep ==
    ASSUME ItemInv, LevelInv, NEW t \in Callers, NEW p \in Objects, NEW n \in Nat,
           NEW d \in Directions, QueueStep(t, p, n, d),
           d = "In" => n >= count[p], d = "Out" => n <= count[p]
    PROVE  LevelInv'
<1> SUFFICES ASSUME NEW o \in Objects, LevelSubscribed(o)', get_level(o, Event(o))'
             PROVE  Answered(o)'
  BY DEF LevelInv
<1>1. /\ UNCHANGED <<item, tree, waiting_list, proc, pc, status>> /\ op[t] = NoOp
      /\ count' = [count EXCEPT ![p] = n]
      /\ op' = [op EXCEPT ![t] = [object |-> p, event |-> d]]
  BY DEF QueueStep, subVars, loopVars, CanCall
<1>2. /\ Event(o)' = Event(o) /\ LevelSubscribed(o)
      /\ Event(o) \in Directions
  BY <1>1 DEF LevelSubscribed, Subscribed, Event, ItemInv, TreeInv
<1>3. count \in [Objects -> 0..Capacity] /\ op \in [Callers -> Ops] /\ Capacity \in Nat
  BY CapacityAssumption DEF ItemInv, TypeInv, TypeOK
<1>4. CASE get_level(o, Event(o))
  <2>1. Answered(o)
    BY <1>2, <1>4 DEF LevelInv
  <2>2. \A c \in Callers : op[c] = [object |-> o, event |-> Event(o)]
                             => op'[c] = [object |-> o, event |-> Event(o)]
    <3>1. op[t] # [object |-> o, event |-> Event(o)]
      BY <1>1, <1>2 DEF NoOp, Directions
    <3> QED
      BY <1>1, <1>3, <3>1
  <2> QED
    BY <1>1, <1>2, <2>1, <2>2 DEF Answered, furi_event_loop_item_is_waiting
<1>5. CASE ~get_level(o, Event(o))
  <2>1. o = p
    BY <1>1, <1>2, <1>3, <1>5 DEF get_level
  <2>2. Event(o) = d
    BY <1>1, <1>2, <1>3, <1>5, <2>1 DEF get_level, Directions
  <2>3. op'[t] = [object |-> o, event |-> Event(o)']
    BY <1>1, <1>2, <1>3, <2>1, <2>2
  <2> QED
    BY <2>3 DEF Answered
<1> QED
  BY <1>4, <1>5

LEMMA LevelLinkNotify ==
    ASSUME ItemInv, LevelInv, NEW t \in Callers, furi_event_loop_link_notify(t)
    PROVE  LevelInv'
<1> SUFFICES ASSUME NEW o \in Objects, LevelSubscribed(o)', get_level(o, Event(o))'
             PROVE  Answered(o)'
  BY DEF LevelInv
<1> DEFINE i == link[op[t].object][op[t].event]
<1>1. /\ UNCHANGED <<item, tree, link, proc, pc, status, count>>
      /\ op' = [op EXCEPT ![t] = NoOp]
      /\ IF i = NoItem THEN waiting_list' = waiting_list
         ELSE waiting_list' = Notified(i)
  BY DEF furi_event_loop_link_notify, subVars, loopVars
<1>2. /\ op[t].object \in Objects /\ op[t].event \in Directions
      /\ op \in [Callers -> Ops] /\ waiting_list \in Seq(Items)
      /\ i \in Items \cup {NoItem}
  BY DEF furi_event_loop_link_notify, ItemInv, TypeInv, TypeOK, Ops
<1>3. /\ Event(o)' = Event(o) /\ LevelSubscribed(o) /\ get_level(o, Event(o))
      /\ tree'[o] = tree[o]
  BY <1>1 DEF LevelSubscribed, Subscribed, Event, get_level
<1>4. Answered(o)
  BY <1>3 DEF LevelInv
<1>5. ASSUME furi_event_loop_item_is_waiting(tree[o]) \/ (i # NoItem /\ tree[o] = i)
      PROVE  furi_event_loop_item_is_waiting(tree[o])'
  <2>1. CASE i = NoItem
    BY <1>1, <1>5, <2>1 DEF furi_event_loop_item_is_waiting
  <2>2. CASE i # NoItem
    <3>1. \E k \in DOMAIN Notified(i) : Notified(i)[k] = tree[o]
      BY <1>2, <1>5, <2>2, NotifiedKeeps
    <3> QED
      BY <1>1, <2>2, <3>1 DEF furi_event_loop_item_is_waiting
  <2> QED
    BY <2>1, <2>2
<1>6. ASSUME NEW c \in Callers, op[c] = [object |-> o, event |-> Event(o)]
      PROVE  Answered(o)'
  <2>1. CASE c = t
    <3>1. i = tree[o] /\ i # NoItem
      BY <1>3, <1>6, <2>1 DEF ItemInv, TreeInv, LevelSubscribed, Subscribed
    <3> QED
      BY <1>3, <1>5, <3>1 DEF Answered, furi_event_loop_item_is_waiting
  <2>2. CASE c # t
    BY <1>1, <1>2, <1>3, <1>6, <2>2 DEF Answered
  <2> QED
    BY <2>1, <2>2
<1> QED
  BY <1>1, <1>3, <1>4, <1>5, <1>6 DEF Answered, furi_event_loop_item_is_waiting

LEMMA LevelSubscribe ==
    ASSUME ItemInv, LevelInv, NEW o \in Objects, NEW m \in Modes,
           furi_event_loop_object_subscribe(o, m)
    PROVE  LevelInv'
<1> SUFFICES ASSUME NEW p \in Objects, LevelSubscribed(p)', get_level(p, Event(p))'
             PROVE  Answered(p)'
  BY DEF LevelInv
<1>1. PICK i \in Items :
        /\ IsFree(i)
        /\ item' = [item EXCEPT ![i] =
               [object |-> o, event |-> m.event, edge |-> m.edge,
                once |-> m.once, owner |-> TRUE]]
        /\ tree' = [tree EXCEPT ![o] = i]
        /\ IF ~m.edge /\ get_level(o, m.event) THEN waiting_list' = Notified(i)
           ELSE waiting_list' = waiting_list
  BY DEF furi_event_loop_object_subscribe
<1>2. /\ item \in [Items -> ItemRecords] /\ tree \in [Objects -> Items \cup {NoItem}]
      /\ waiting_list \in Seq(Items)
      /\ UNCHANGED <<pc, proc, status, count, op>>
  BY DEF ItemInv, TypeInv, TypeOK, furi_event_loop_object_subscribe, loopVars
<1>3. CASE p = o
  <2>1. tree'[p] = i /\ Event(p)' = m.event /\ item'[i].edge = m.edge
    BY <1>1, <1>2, <1>3 DEF Event
  <2>2. ~m.edge /\ get_level(o, m.event)
    BY <1>2, <1>3, <2>1 DEF LevelSubscribed, get_level
  <2> QED
    BY <1>1, <1>2, <2>1, <2>2, NotifiedKeeps DEF Answered, furi_event_loop_item_is_waiting
<1>4. CASE p # o
  <2>1. tree'[p] = tree[p] /\ tree[p] # NoItem
    BY <1>1, <1>2, <1>4 DEF LevelSubscribed, Subscribed
  <2>2. tree[p] # i
    BY <1>1, <2>1, NullAssumption DEF ItemInv, TreeInv, Subscribed, IsFree, Zeroed
  <2>3. item'[tree[p]] = item[tree[p]]
    BY <1>1, <1>2, <2>1, <2>2
  <2>4. LevelSubscribed(p) /\ get_level(p, Event(p)) /\ Event(p)' = Event(p)
    BY <1>2, <2>1, <2>3 DEF LevelSubscribed, Subscribed, Event, get_level
  <2>5. Answered(p)
    BY <2>4 DEF LevelInv
  <2>6. furi_event_loop_item_is_waiting(tree[p])
           => furi_event_loop_item_is_waiting(tree[p])'
    <3>1. furi_event_loop_item_is_waiting(tree[p])
             => \E k \in DOMAIN Notified(i) : Notified(i)[k] = tree[p]
      BY <1>2, NotifiedKeeps
    <3> QED
      BY <1>1, <2>1, <3>1 DEF furi_event_loop_item_is_waiting
  <2> QED
    BY <1>2, <2>1, <2>4, <2>5, <2>6 DEF Answered, furi_event_loop_item_is_waiting
<1> QED
  BY <1>3, <1>4

LEMMA LevelUnsubscribe ==
    ASSUME ItemInv, LevelInv, NEW o \in Objects, furi_event_loop_unsubscribe(o)
    PROVE  LevelInv'
<1> SUFFICES ASSUME NEW p \in Objects, LevelSubscribed(p)', get_level(p, Event(p))'
             PROVE  Answered(p)'
  BY DEF LevelInv
<1>1. /\ tree' = [tree EXCEPT ![o] = NoItem]
      /\ item' = HeapWithout(tree[o])
      /\ waiting_list' = Unlinked(tree[o])
      /\ UNCHANGED <<pc, proc, status, count, op>>
  BY DEF furi_event_loop_unsubscribe, Unsubscribe, loopVars
<1>2. /\ item \in [Items -> ItemRecords] /\ tree \in [Objects -> Items \cup {NoItem}]
      /\ waiting_list \in Seq(Items) /\ tree[o] # NoItem
  BY DEF ItemInv, TypeInv, TypeOK, furi_event_loop_unsubscribe, Unsubscribe, CanUnsubscribe
<1>3. p # o /\ tree'[p] = tree[p] /\ tree[p] # NoItem
  BY <1>1, <1>2 DEF LevelSubscribed, Subscribed
<1>4. tree[p] # tree[o]
  BY <1>2, <1>3 DEF ItemInv, TreeInv, Subscribed
<1>5. item'[tree[p]] = item[tree[p]]
  BY <1>1, <1>2, <1>3, <1>4 DEF HeapWithout
<1>6. LevelSubscribed(p) /\ get_level(p, Event(p)) /\ Event(p)' = Event(p)
  BY <1>1, <1>3, <1>5 DEF LevelSubscribed, Subscribed, Event, get_level
<1>7. Answered(p)
  BY <1>6 DEF LevelInv
<1>8. furi_event_loop_item_is_waiting(tree[p]) => furi_event_loop_item_is_waiting(tree[p])'
  <2>1. furi_event_loop_item_is_waiting(tree[p])
           => \E k \in DOMAIN Unlinked(tree[o]) : Unlinked(tree[o])[k] = tree[p]
    BY <1>2, <1>4, UnlinkedKeeps
  <2> QED
    BY <1>1, <1>3, <2>1 DEF furi_event_loop_item_is_waiting
<1> QED
  BY <1>1, <1>3, <1>6, <1>7, <1>8 DEF Answered, furi_event_loop_item_is_waiting

LEMMA LevelGetWaitingItem ==
    ASSUME ItemInv, LevelInv, furi_event_loop_get_waiting_item
    PROVE  LevelInv'
<1>1. CASE waiting_list = <<>>
  BY <1>1, LevelFrame
  DEF furi_event_loop_get_waiting_item, furi_event_loop_item_is_waiting, subVars, ProcAnswers
<1>2. CASE waiting_list # <<>>
  <2>1. /\ pc = "pop" /\ pc' = "process_event"
        /\ proc' = Head(waiting_list) /\ waiting_list' = Tail(waiting_list)
        /\ UNCHANGED <<item, tree, count, op>>
    BY <1>2 DEF furi_event_loop_get_waiting_item, subVars
  <2>2. waiting_list \in Seq(Items)
    BY DEF ItemInv, TypeInv, TypeOK
  <2>3. ASSUME NEW j, furi_event_loop_item_is_waiting(j), j # proc'
        PROVE  furi_event_loop_item_is_waiting(j)'
    <3>1. PICK k \in DOMAIN waiting_list : waiting_list[k] = j
      BY <2>3 DEF furi_event_loop_item_is_waiting
    <3>2. k # 1 /\ k \in 1..Len(waiting_list) /\ Len(waiting_list) \in Nat
      BY <1>2, <2>1, <2>2, <2>3, <3>1
    <3>3. k - 1 \in DOMAIN Tail(waiting_list) /\ Tail(waiting_list)[k - 1] = j
      BY <1>2, <2>2, <3>1, <3>2
    <3> QED
      BY <2>1, <3>3 DEF furi_event_loop_item_is_waiting
  <2> QED
    BY <2>1, <2>3 DEF LevelInv, LevelSubscribed, Subscribed, Event, get_level, Answered
<1> QED
  BY <1>1, <1>2

LEMMA LevelDispatch ==
    ASSUME ItemInv, LevelInv,
           \/ process_event \/ process_edge_event
           \/ process_level_event \/ item_callback_return
    PROVE  LevelInv'
<1> SUFFICES ASSUME NEW o \in Objects, LevelSubscribed(o)', get_level(o, Event(o))'
             PROVE  Answered(o)'
  BY DEF LevelInv
<1>1. /\ UNCHANGED <<item, tree, waiting_list, proc, count, op>> /\ ~LevelFaults
      /\ \/ pc = "process_event" /\ pc' = "dispatch"
         \/ pc \in {"dispatch", "item_cb"} /\ pc' \in {"item_cb", "finish"}
  BY DispatchFrame
<1>2. /\ LevelSubscribed(o) /\ get_level(o, Event(o)) /\ Event(o)' = Event(o)
      /\ tree'[o] = tree[o]
  BY <1>1 DEF LevelSubscribed, Subscribed, Event, get_level
<1>3. Answered(o)
  BY <1>2 DEF LevelInv
<1>4. CASE proc # tree[o]
  BY <1>1, <1>2, <1>3, <1>4 DEF Answered, furi_event_loop_item_is_waiting
<1>5. CASE proc = tree[o]
  <2>1. item[proc].object = o /\ ~item[proc].edge /\ LevelUp
    BY <1>2, <1>5 DEF LevelSubscribed, ItemInv, TreeInv, LevelUp, Event
  <2>2. \/ pc' \in {"dispatch", "item_cb"}
        \/ pc' = "finish" /\ status' = "Incomplete"
    BY <1>1, <2>1 DEF process_event, process_edge_event, process_level_event,
       item_callback_return, StatusAfterCallback
  <2> QED
    BY <1>1, <1>2, <1>5, <2>2 DEF Answered
<1> QED
  BY <1>4, <1>5

LEMMA LevelFinish ==
    ASSUME ItemInv, LevelInv, process_waiting_list_finish
    PROVE  LevelInv'
<1> SUFFICES ASSUME NEW o \in Objects, LevelSubscribed(o)', get_level(o, Event(o))'
             PROVE  Answered(o)'
  BY DEF LevelInv
<1>1. /\ proc \in Items /\ pc = "finish" /\ UNCHANGED <<tree, count, op>>
      /\ item' = IF item[proc].owner THEN item ELSE [item EXCEPT ![proc] = Zeroed]
      /\ waiting_list' = Requeued
      /\ waiting_list \in Seq(Items)
      /\ item \in [Items -> ItemRecords]
  BY DEF process_waiting_list_finish, ItemInv, ProcInv, Processing, TypeInv, TypeOK
<1>2. tree[o] # NoItem /\ tree'[o] = tree[o]
  BY <1>1 DEF LevelSubscribed, Subscribed
<1>3. proc = tree[o] => item[proc].owner
  BY <1>2 DEF ItemInv, TreeInv, Subscribed
<1>4. item'[tree[o]] = item[tree[o]]
  BY <1>1, <1>3
<1>5. LevelSubscribed(o) /\ get_level(o, Event(o)) /\ Event(o)' = Event(o)
  BY <1>1, <1>2, <1>4 DEF LevelSubscribed, Subscribed, Event, get_level
<1>6. Answered(o)
  BY <1>5 DEF LevelInv
<1>7. furi_event_loop_item_is_waiting(tree[o]) => furi_event_loop_item_is_waiting(tree[o])'
  <2>1. CASE waiting_list' = waiting_list
    BY <1>2, <2>1 DEF furi_event_loop_item_is_waiting
  <2>2. CASE waiting_list' = Notified(proc)
    <3>1. furi_event_loop_item_is_waiting(tree[o])
             => \E k \in DOMAIN Notified(proc) : Notified(proc)[k] = tree[o]
      BY <1>1, NotifiedKeeps
    <3> QED
      BY <1>2, <2>2, <3>1 DEF furi_event_loop_item_is_waiting
  <2> QED
    BY <1>1, <2>1, <2>2 DEF Requeued
<1>8. proc = tree[o] /\ status = "Incomplete" => furi_event_loop_item_is_waiting(tree[o])'
  BY <1>1, <1>2, <1>3, NotifiedKeeps DEF Requeued, furi_event_loop_item_is_waiting
<1> QED
  BY <1>1, <1>2, <1>5, <1>6, <1>7, <1>8 DEF Answered

LEMMA LevelNext ==
    ASSUME ItemInv, LevelInv, [Next]_vars
    PROVE  LevelInv'
<1> USE DEF loopVars, subVars, miscVars
<1>1. CASE UNCHANGED vars
  BY <1>1, LevelFrame DEF vars, furi_event_loop_item_is_waiting
<1>2. CASE \/ wait_stop \/ wait_event \/ wait_timer \/ wait_pending
           \/ wait_thread_flag \/ wait_timeout
  BY <1>2, LevelFrame
  DEF wait_stop, wait_event, wait_timer, wait_pending, wait_thread_flag, wait_timeout,
      ProcAnswers, furi_event_loop_item_is_waiting
<1>3. CASE \/ pending_callback_return \/ callback_return
           \/ furi_event_loop_alloc \/ furi_event_loop_free \/ furi_event_loop_run
  BY <1>3, LevelFrame
  DEF pending_callback_return, callback_return, furi_event_loop_alloc,
      furi_event_loop_free, furi_event_loop_run, ProcAnswers, furi_event_loop_item_is_waiting
<1>4. CASE \/ furi_event_loop_subscribe_thread_flags
           \/ furi_event_loop_unsubscribe_thread_flags
           \/ furi_event_loop_timer_enqueue_request
           \/ furi_event_loop_pend_callback
  BY <1>4, LevelFrame
  DEF furi_event_loop_subscribe_thread_flags, furi_event_loop_unsubscribe_thread_flags,
      furi_event_loop_timer_enqueue_request, furi_event_loop_pend_callback,
      furi_event_loop_item_is_waiting
<1>5. ASSUME NEW t \in Callers, furi_event_loop_stop(t)
      PROVE  LevelInv'
  BY <1>5, LevelFrame DEF furi_event_loop_stop, furi_event_loop_item_is_waiting
<1>6. ASSUME NEW t \in Callers,
             furi_thread_flags_set(t) \/ furi_event_loop_thread_flag_callback(t)
      PROVE  LevelInv'
  <2>1. /\ UNCHANGED <<item, tree, count, proc, status, pc, waiting_list>>
        /\ op[t] \in {NoOp, FlagOp}
        /\ op' = [op EXCEPT ![t] = FlagOp] \/ op' = [op EXCEPT ![t] = NoOp]
        /\ op \in [Callers -> Ops]
    BY <1>6 DEF furi_thread_flags_set, furi_event_loop_thread_flag_callback, CanCall,
       ItemInv, TypeInv, TypeOK
  <2>2. \A o \in Objects : op[t] # [object |-> o, event |-> Event(o)]
                             \/ ~LevelSubscribed(o)
    BY <2>1 DEF NoOp, FlagOp, ItemInv, TreeInv, LevelSubscribed, Subscribed, Event,
       Directions
  <2>3. \A o \in Objects : UNCHANGED <<LevelSubscribed(o), get_level(o, Event(o)), Event(o),
                                        furi_event_loop_item_is_waiting(tree[o])>>
    BY <2>1 DEF LevelSubscribed, Subscribed, get_level, Event, furi_event_loop_item_is_waiting
  <2>4. \A c \in Callers \ {t} : op'[c] = op[c]
    BY <2>1
  <2> QED
    BY <2>1, <2>2, <2>3, <2>4 DEF LevelInv, Answered
<1>7. ASSUME NEW t \in Callers, NEW o \in Objects,
             \/ furi_message_queue_put(t, o)
             \/ furi_message_queue_get(t, o)
             \/ furi_message_queue_reset(t, o)
      PROVE  LevelInv'
  <2>1. count[o] \in 0..Capacity /\ Capacity \in Nat
    BY CapacityAssumption DEF ItemInv, TypeInv, TypeOK
  <2> QED
    BY <1>7, <2>1, LevelQueueStep
    DEF furi_message_queue_put, furi_message_queue_get, furi_message_queue_reset, Directions
<1> QED
  BY <1>1, <1>2, <1>3, <1>4, <1>5, <1>6, <1>7, LevelSubscribe, LevelUnsubscribe,
     LevelLinkNotify, LevelGetWaitingItem, LevelDispatch, LevelFinish
  DEF Next, LoopStep, CallbackReturn, FinishOp, Call, ClientStep

-----------------------------------------------------------------------------
LEMMA FlagsInvAlways ==
    ASSUME ~Rerun, \A m \in Modes : ~m.once
    PROVE  Spec => [](ItemInv /\ FlagsInv)
<1>1. Init => ItemInv /\ FlagsInv
  BY ItemInit, FlagsInit
<1>2. (ItemInv /\ FlagsInv) /\ [Next]_vars => (ItemInv /\ FlagsInv)'
  BY ItemNext, FlagsNext
<1> QED
  BY <1>1, <1>2, PTL DEF Spec

(* The loop does not sleep over work: whenever it is about to wait, every   *)
(* queue that is not empty has its flag set.  It takes a loop that is not   *)
(* run again after a stop, which drops flags, and clients that ask for no   *)
(* Once items.                                                              *)
THEOREM QueuesHaveFlags ==
    ASSUME ~Rerun, \A m \in Modes : ~m.once
    PROVE  Spec => []FlagsCoverWork
<1>1. ItemInv /\ FlagsInv => FlagsCoverWork
  BY DEF FlagsInv, FlagsCoverWork, HandInv, EventFlagInv, TimerFlagInv, PendingFlagInv,
     Dead, ItemPCs
<1> QED
  BY <1>1, FlagsInvAlways, PTL

(* Nor over a level: every level triggered object whose level is up either  *)
(* has its turn coming or is about to be notified by the thread that raised *)
(* it, under the same conditions.                                           *)
THEOREM NeverSleepsOverWork ==
    ASSUME ~Rerun, \A m \in Modes : ~m.once
    PROVE  Spec => []NoLostLevel
<1> DEFINE Inv == ItemInv /\ FlagsInv /\ LevelInv
<1>1. Init => Inv
  BY ItemInit, FlagsInit, LevelInit
<1>2. Inv /\ [Next]_vars => Inv'
  BY ItemNext, FlagsNext, LevelNext
<1>3. Inv => NoLostLevel
  <2> SUFFICES ASSUME Inv, pc = "wait", NEW o \in Objects,
                      LevelSubscribed(o), get_level(o, Event(o))
               PROVE  \/ furi_event_loop_item_is_waiting(tree[o]) /\ "Event" \in notify
                      \/ \E t \in Callers : op[t] = [object |-> o, event |-> Event(o)]
    BY DEF NoLostLevel
  <2>1. Answered(o)
    BY DEF LevelInv
  <2>2. furi_event_loop_item_is_waiting(tree[o]) => "Event" \in notify
    BY DEF FlagsInv, EventFlagInv, Dead, ItemPCs, furi_event_loop_item_is_waiting
  <2> QED
    BY <2>1, <2>2 DEF Answered
<1> QED
  BY <1>1, <1>2, <1>3, PTL DEF Spec

-----------------------------------------------------------------------------
(* Thread flags                                                            *)

(* A flag is owed only to a subscriber of an existing loop; unless its bit  *)
(* was thrown away, somebody is about to raise ThreadFlag, or the loop has  *)
(* it, in hand if not among the flags raised.                               *)
OwedInv ==
    /\ are_thread_flags_subscribed => pc # "none"
    /\ pc \notin ItemPCs \cup {"fault"} => hand = {}
    /\ flag_owed = "owed" =>
          /\ are_thread_flags_subscribed
          /\ \/ "ThreadFlag" \in notify \cup hand
             \/ \E t \in Callers : op[t] = FlagOp
    /\ flag_owed = "dropped" => are_thread_flags_subscribed

(* A caller that still has to raise ThreadFlag keeps that duty when another *)
(* call begins or ends, and carries it out when it ends its own.            *)
LEMMA DutyKept ==
    ASSUME TypeOK, NEW t \in Callers, FinishOp(t) \/ Call(t),
           \E u \in Callers : op[u] = FlagOp
    PROVE  "ThreadFlag" \in notify' \/ \E u \in Callers : op'[u] = FlagOp
<1>1. PICK u \in Callers : op[u] = FlagOp
  OBVIOUS
<1>2. FlagOp # NoOp
  BY DEF FlagOp, NoOp
<1>3. CASE furi_event_loop_thread_flag_callback(t)
  BY <1>3 DEF furi_event_loop_thread_flag_callback
<1>4. CASE furi_event_loop_link_notify(t)
  <2>1. t # u /\ op' = [op EXCEPT ![t] = NoOp]
    BY <1>1, <1>4 DEF furi_event_loop_link_notify
  <2> QED
    BY <1>1, <2>1 DEF TypeOK
<1>5. CASE furi_event_loop_stop(t)
  BY <1>1, <1>5 DEF furi_event_loop_stop
<1>6. CASE furi_thread_flags_set(t)
  <2>1. op' = [op EXCEPT ![t] = FlagOp]
    BY <1>6 DEF furi_thread_flags_set
  <2> QED
    BY <2>1 DEF TypeOK
<1>7. ASSUME NEW o \in Objects, NEW n, NEW event, QueueStep(t, o, n, event)
      PROVE  \E v \in Callers : op'[v] = FlagOp
  <2>1. t # u /\ op' = [op EXCEPT ![t] = [object |-> o, event |-> event]]
    BY <1>1, <1>2, <1>7 DEF QueueStep, CanCall
  <2> QED
    BY <1>1, <2>1 DEF TypeOK
<1> QED
  BY <1>3, <1>4, <1>5, <1>6, <1>7
  DEF FinishOp, Call, furi_message_queue_put, furi_message_queue_get, furi_message_queue_reset

LEMMA OwedNext ==
    ASSUME TypeInv, OwedInv, [Next]_vars
    PROVE  OwedInv'
<1> USE DEF loopVars, subVars, miscVars, OwedInv, ItemPCs
<1>0. TypeOK
  BY DEF TypeInv
<1>1. CASE UNCHANGED vars
  BY <1>1 DEF vars
<1>2. CASE LoopStep
  <2>1. CASE wait_stop
    BY <2>1 DEF wait_stop, OwedAfterDrop
  <2>2. CASE wait_event \/ wait_timer
    BY <2>2 DEF wait_event, FlagsKept, wait_timer
  <2>3. CASE wait_pending
    BY <2>3 DEF wait_pending, OwedAfterDrop
  <2>4. CASE wait_thread_flag
    BY <2>4 DEF wait_thread_flag
  <2>5. CASE furi_event_loop_get_waiting_item \/ process_waiting_list_finish
    BY <2>5 DEF furi_event_loop_get_waiting_item, process_waiting_list_finish
  <2>6. CASE process_event \/ process_edge_event \/ process_level_event
    BY <2>6 DEF process_event, process_edge_event, process_level_event
  <2> QED
    BY <1>2, <2>1, <2>2, <2>3, <2>4, <2>5, <2>6 DEF LoopStep
<1>3. CASE wait_timeout \/ CallbackReturn
  BY <1>3 DEF wait_timeout, CallbackReturn, item_callback_return, pending_callback_return,
     callback_return
<1>4. ASSUME NEW t \in Callers, FinishOp(t) \/ Call(t)
      PROVE  OwedInv'
  <2>1. CASE furi_thread_flags_set(t)
    <3>1. /\ op' = [op EXCEPT ![t] = FlagOp]
          /\ flag_owed' = IF are_thread_flags_subscribed THEN "owed" ELSE flag_owed
          /\ UNCHANGED <<pc, hand, are_thread_flags_subscribed>>
      BY <2>1 DEF furi_thread_flags_set
    <3>2. op'[t] = FlagOp
      BY <1>0, <3>1 DEF TypeOK
    <3> QED
      BY <3>1, <3>2
  <2>2. CASE furi_event_loop_thread_flag_callback(t)
    BY <2>2 DEF furi_event_loop_thread_flag_callback
  <2>3. CASE ~furi_thread_flags_set(t) /\ ~furi_event_loop_thread_flag_callback(t)
    <3>1. UNCHANGED <<pc, hand, flag_owed, are_thread_flags_subscribed>>
          /\ notify \subseteq notify'
      BY <1>4, <2>3
      DEF FinishOp, Call, furi_event_loop_link_notify, furi_event_loop_stop,
          furi_message_queue_put, furi_message_queue_get, furi_message_queue_reset, QueueStep
    <3>2. (\E u \in Callers : op[u] = FlagOp) =>
            "ThreadFlag" \in notify' \/ \E u \in Callers : op'[u] = FlagOp
      BY <1>0, <1>4, DutyKept
    <3> QED
      BY <3>1, <3>2
  <2> QED
    BY <2>1, <2>2, <2>3
<1>5. CASE furi_event_loop_alloc \/ furi_event_loop_free \/ furi_event_loop_run
  BY <1>5 DEF furi_event_loop_alloc, furi_event_loop_free, furi_event_loop_run
<1>6. CASE \/ \E o \in Objects, m \in Modes : furi_event_loop_object_subscribe(o, m)
           \/ \E o \in Objects : furi_event_loop_unsubscribe(o)
           \/ furi_event_loop_timer_enqueue_request
           \/ furi_event_loop_pend_callback
  BY <1>6
  DEF furi_event_loop_object_subscribe, furi_event_loop_unsubscribe,
      furi_event_loop_timer_enqueue_request, furi_event_loop_pend_callback
<1>7. CASE furi_event_loop_subscribe_thread_flags \/ furi_event_loop_unsubscribe_thread_flags
  BY <1>7 DEF furi_event_loop_subscribe_thread_flags, furi_event_loop_unsubscribe_thread_flags,
     LoopThreadCalls
<1> QED
  BY <1>1, <1>2, <1>3, <1>4, <1>5, <1>6, <1>7 DEF Next, ClientStep

(* The branch of pended callbacks and a stop are the only steps that lose a *)
(* thread flag: unless one of them threw it away since, ThreadFlag is       *)
(* raised or its setter has still to raise it whenever the loop is about to *)
(* wait.  It holds for every bound, of loops that are run again and of Once *)
(* items as well.                                                           *)
THEOREM ThreadFlagsReachTheLoop == Spec => []OnlyPendedDropsThreadFlag
<1> DEFINE Inv == TypeInv /\ OwedInv
<1>1. Init => Inv
  BY InitType DEF Init, OwedInv, ItemPCs
<1>2. Inv /\ [Next]_vars => Inv'
  BY TypeNext, OwedNext
<1>3. Inv => OnlyPendedDropsThreadFlag
  BY DEF OwedInv, OnlyPendedDropsThreadFlag, ThreadFlagComing, ItemPCs
<1> HIDE DEF Inv
<1> QED
  BY <1>1, <1>2, <1>3, PTL DEF Spec

-----------------------------------------------------------------------------
(* Pended callbacks                                                        *)

(* A callback pended before a timer command that is still waiting knows it. *)
PendedInv ==
    timer_requests = 0 => \A k \in DOMAIN pending_queue : ~pending_queue[k]

LEMMA PendedNext ==
    ASSUME ItemInv, PendedInv, [Next]_vars
    PROVE  PendedInv'
<1> USE DEF loopVars, subVars, miscVars, PendedInv
<1>a. pending_queue \in Seq(BOOLEAN) /\ timer_requests \in Nat
  BY BoundsAssumption DEF ItemInv, TypeInv, TypeOK
<1>1. CASE wait_timer
  BY <1>1 DEF wait_timer
<1>2. CASE pending_callback_return
  <2>1. /\ pending_queue' = SubSeq(pending_queue, 1, Len(pending_queue) - 1)
        /\ timer_requests' = timer_requests
    BY <1>2 DEF pending_callback_return
  <2>2. \A k \in DOMAIN pending_queue' :
           k \in DOMAIN pending_queue /\ pending_queue'[k] = pending_queue[k]
    BY <1>a, <2>1
  <2> QED
    BY <2>1, <2>2
<1>3. CASE furi_event_loop_timer_enqueue_request
  BY <1>3, <1>a DEF furi_event_loop_timer_enqueue_request
<1>4. CASE furi_event_loop_pend_callback
  <2>1. /\ pending_queue' = <<timer_requests > 0>> \o pending_queue
        /\ timer_requests' = timer_requests
    BY <1>4 DEF furi_event_loop_pend_callback
  <2>2. ASSUME timer_requests = 0, NEW k \in DOMAIN pending_queue'
        PROVE  ~pending_queue'[k]
    <3>1. CASE k = 1
      <4>1. pending_queue'[1] = (timer_requests > 0)
        BY <1>a, <2>1
      <4>2. ~(timer_requests > 0)
        BY <2>1, <2>2
      <4> QED
        BY <3>1, <4>1, <4>2
    <3>2. CASE k # 1
      <4>1. k - 1 \in DOMAIN pending_queue /\ pending_queue'[k] = pending_queue[k - 1]
        BY <1>a, <2>1, <2>2, <3>2
      <4> QED
        BY <2>2, <4>1
    <3> QED
      BY <3>1, <3>2
  <2> QED
    BY <2>1, <2>2
<1>5. CASE furi_event_loop_free
  BY <1>5 DEF furi_event_loop_free
<1>6. CASE UNCHANGED <<pending_queue, timer_requests>>
  BY <1>6
<1> QED
  BY <1>1, <1>2, <1>3, <1>4, <1>5, <1>6
  DEF Next, LoopStep, CallbackReturn, FinishOp, Call, ClientStep, vars,
      wait_stop, wait_event, wait_pending, wait_thread_flag, wait_timeout, callback_return,
      furi_event_loop_get_waiting_item, process_event, process_edge_event,
      process_level_event, process_waiting_list_finish, item_callback_return,
      furi_event_loop_link_notify, furi_event_loop_thread_flag_callback,
      furi_event_loop_stop, furi_message_queue_put, furi_message_queue_get,
      furi_message_queue_reset, QueueStep, furi_thread_flags_set, furi_event_loop_alloc,
      furi_event_loop_run, furi_event_loop_object_subscribe, furi_event_loop_unsubscribe,
      furi_event_loop_subscribe_thread_flags, furi_event_loop_unsubscribe_thread_flags

(* When the loop turns to the pended callbacks, no timer command made       *)
(* before one of them is still waiting: the Timer flag would have come      *)
(* first.                                                                   *)
THEOREM PendedInOrder ==
    ASSUME ~Rerun, \A m \in Modes : ~m.once
    PROVE  Spec => PendedAfterTimers
<1> DEFINE Inv == ItemInv /\ FlagsInv /\ PendedInv
<1>1. Init => Inv
  BY ItemInit, FlagsInit DEF Init, PendedInv
<1>2. Inv /\ [Next]_vars => Inv'
  BY ItemNext, FlagsNext, PendedNext
<1>3. Inv /\ [Next]_vars =>
        [wait_pending => \A k \in DOMAIN pending_queue : ~pending_queue[k]]_vars
  <2> SUFFICES ASSUME Inv, wait_pending
               PROVE  \A k \in DOMAIN pending_queue : ~pending_queue[k]
    OBVIOUS
  <2>1. pc = "wait" /\ "Timer" \notin notify
    BY DEF wait_pending, PendingTurn
  <2>2. hand = {} /\ timer_requests \in Nat
    BY <2>1, BoundsAssumption DEF FlagsInv, HandInv, ItemPCs, ItemInv, TypeInv, TypeOK
  <2>3. timer_requests = 0
    BY <2>1, <2>2 DEF FlagsInv, TimerFlagInv, Dead
  <2> QED
    BY <2>3 DEF PendedInv
<1> QED
  BY <1>1, <1>2, <1>3, PTL DEF Spec, PendedAfterTimers
=============================================================================
