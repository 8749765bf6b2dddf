-------------------------- MODULE EventLoopProofs --------------------------
(* Theorems about EventLoop, for any number of objects, items and threads. *)
EXTENDS EventLoop, TLAPS

(* Taking an item out of the waiting list leaves a list of items, appending *)
(* one too.                                                                 *)
LEMMA UnlinkedType ==
    ASSUME waiting_list \in Seq(Items), NEW i
    PROVE  Unlinked(i) \in Seq(Items)
<1> DEFINE at == CHOOSE k \in DOMAIN waiting_list : waiting_list[k] = i
<1>1. CASE furi_event_loop_item_is_waiting(i)
  <2>1. Len(waiting_list) - 1 \in Nat
    BY <1>1 DEF furi_event_loop_item_is_waiting
  <2>2. \A k \in 1..(Len(waiting_list) - 1) :
           (IF k < at THEN waiting_list[k] ELSE waiting_list[k + 1]) \in Items
    OBVIOUS
  <2> QED
    BY <1>1, <2>1, <2>2 DEF Unlinked
<1>2. CASE ~furi_event_loop_item_is_waiting(i)
  BY <1>2 DEF Unlinked
<1> QED
  BY <1>1, <1>2

LEMMA NotifiedType ==
    ASSUME waiting_list \in Seq(Items), NEW i \in Items
    PROVE  Notified(i) \in Seq(Items)
BY DEF Notified

(* The type invariant, and where it is needed that the local item is one.  *)
TypeInv ==
    /\ TypeOK
    /\ pc \in (ItemPCs \ {"pop"}) => proc \in Items

LEMMA InitType == Init => TypeInv
<1> SUFFICES ASSUME Init PROVE TypeInv
  OBVIOUS
<1> USE DEF Init
<1>1. item \in [Items -> ItemRecords]
  BY DEF Zeroed, ItemRecords
<1>2. tree \in [Objects -> Items \cup {NoItem}]
      /\ link \in [Objects -> [Directions -> Items \cup {NoItem}]]
  OBVIOUS
<1>3. waiting_list \in Seq(Items) /\ pending_queue \in Seq(BOOLEAN)
  OBVIOUS
<1>4. /\ current_item \in Items \cup {NoItem}
      /\ proc \in Items \cup {NoItem}
      /\ notify \in SUBSET Flags /\ hand \in SUBSET Flags
      /\ status \in {"Complete", "Incomplete"}
  OBVIOUS
<1>5. pc \in PCs /\ pc \notin ItemPCs
  BY DEF PCs, ClientPCs, ItemPCs
<1>6. count \in [Objects -> 0..Capacity] /\ timer_requests \in 0..MaxTimerRequests
  BY CapacityAssumption, BoundsAssumption
<1>7. op \in [Callers -> Ops]
  BY DEF NoOp, Ops
<1>8. ran \in BOOLEAN /\ are_thread_flags_subscribed \in BOOLEAN
      /\ flag_owed \in {"none", "owed", "dropped"}
  OBVIOUS
<1> QED
  BY <1>1, <1>2, <1>3, <1>4, <1>5, <1>6, <1>7, <1>8 DEF TypeInv, TypeOK

LEMMA UnsubscribeType ==
    ASSUME TypeOK, NEW o, Unsubscribe(o)
    PROVE  /\ item' \in [Items -> ItemRecords]
           /\ tree' \in [Objects -> Items \cup {NoItem}]
           /\ link' \in [Objects -> [Directions -> Items \cup {NoItem}]]
           /\ waiting_list' \in Seq(Items)
<1>1. item' \in [Items -> ItemRecords]
  BY DEF Unsubscribe, HeapWithout, TypeOK, Zeroed, ItemRecords
<1>2. tree' \in [Objects -> Items \cup {NoItem}]
  BY DEF Unsubscribe, TypeOK
<1>3. link' \in [Objects -> [Directions -> Items \cup {NoItem}]]
  BY DEF Unsubscribe, LinkWithout, TypeOK
<1>4. waiting_list' \in Seq(Items)
  BY UnlinkedType DEF Unsubscribe, TypeOK
<1> QED
  BY <1>1, <1>2, <1>3, <1>4

(* The waiting list and the flags that a step of the loop puts back.       *)
LEMMA RequeuedType ==
    ASSUME TypeOK, proc \in Items
    PROVE  Requeued \in Seq(Items)
BY NotifiedType DEF Requeued, TypeOK

LEMMA TypeNext == TypeInv /\ [Next]_vars => TypeInv'
<1> SUFFICES ASSUME TypeInv, [Next]_vars PROVE TypeInv'
  OBVIOUS
<1> USE DEF TypeInv, loopVars, subVars, miscVars
<1>0. CASE UNCHANGED vars
  BY <1>0 DEF vars, TypeOK
<1>1. CASE wait_stop
  BY <1>1 DEF TypeOK, wait_stop, OwedAfterDrop, PCs, ClientPCs, CallbackPCs, ItemPCs, Flags
<1>2. CASE wait_event
  BY <1>2 DEF TypeOK, wait_event, PCs, ClientPCs, CallbackPCs, ItemPCs, Flags, FlagsKept
<1>3. CASE wait_timer
  <2>1. pending_queue' \in Seq(BOOLEAN)
    <3>1. Len(pending_queue) \in Nat /\ DOMAIN pending_queue = 1..Len(pending_queue)
      BY DEF TypeOK
    <3>2. pending_queue' \in [1..Len(pending_queue) -> BOOLEAN]
      BY <1>3, <3>1, Zenon DEF wait_timer
    <3> QED
      BY <3>1, <3>2
  <2>2. timer_requests' \in 0..MaxTimerRequests
    BY <1>3, BoundsAssumption DEF wait_timer
  <2> QED
    BY <1>3, <2>1, <2>2 DEF TypeOK, wait_timer
<1>4. CASE wait_pending
  BY <1>4 DEF TypeOK, wait_pending, OwedAfterDrop, PCs, ClientPCs, CallbackPCs, ItemPCs, Flags
<1>5. CASE wait_thread_flag
  BY <1>5 DEF TypeOK, wait_thread_flag, PCs, ClientPCs, CallbackPCs, ItemPCs, Flags
<1>6. CASE furi_event_loop_get_waiting_item
  <2>1. CASE waiting_list = <<>>
    BY <1>6, <2>1 DEF TypeOK, furi_event_loop_get_waiting_item, PCs, ItemPCs
  <2>2. CASE waiting_list # <<>>
    <3>1. Head(waiting_list) \in Items /\ Tail(waiting_list) \in Seq(Items)
      BY <2>2 DEF TypeOK
    <3> QED
      BY <1>6, <2>2, <3>1 DEF TypeOK, furi_event_loop_get_waiting_item, PCs, ItemPCs
  <2> QED
    BY <2>1, <2>2
<1>7. CASE process_event
  <2>1. CASE item[proc].once
    BY <1>7, <2>1, UnsubscribeType DEF TypeOK, process_event, PCs, ItemPCs
  <2>2. CASE ~item[proc].once
    BY <1>7, <2>2 DEF TypeOK, process_event, PCs, ItemPCs
  <2> QED
    BY <2>1, <2>2
<1>8. CASE process_edge_event
  BY <1>8 DEF TypeOK, process_edge_event, PCs, ClientPCs, CallbackPCs, ItemPCs, Flags
<1>9. CASE process_level_event
  BY <1>9 DEF TypeOK, process_level_event, PCs, ClientPCs, CallbackPCs, ItemPCs, Flags
<1>10. CASE process_waiting_list_finish
  <2>1. proc \in Items
    BY <1>10 DEF process_waiting_list_finish, ItemPCs
  <2>2. item' \in [Items -> ItemRecords]
    BY <1>10, <2>1 DEF process_waiting_list_finish, TypeOK, Zeroed, ItemRecords
  <2>3. waiting_list' \in Seq(Items)
    BY <1>10, <2>1, RequeuedType DEF process_waiting_list_finish
  <2>4. notify' \in SUBSET Flags
    BY <1>10 DEF process_waiting_list_finish, SyncedFlags, TypeOK, Flags
  <2> QED
    BY <1>10, <2>2, <2>3, <2>4
    DEF process_waiting_list_finish, TypeOK, PCs, ClientPCs, ItemPCs
<1>11. CASE wait_timeout
  BY <1>11 DEF TypeOK, wait_timeout, PCs, ClientPCs, CallbackPCs, ItemPCs, Flags
<1>12. CASE item_callback_return
  BY <1>12 DEF TypeOK, item_callback_return, StatusAfterCallback, PCs, ItemPCs
<1>13. CASE pending_callback_return
  BY <1>13 DEF TypeOK, pending_callback_return, PCs, ClientPCs, CallbackPCs, ItemPCs, Flags
<1>14. CASE callback_return
  BY <1>14 DEF TypeOK, callback_return, PCs, ClientPCs, CallbackPCs, ItemPCs, Flags
<1>15. CASE furi_event_loop_alloc
  BY <1>15 DEF TypeOK, furi_event_loop_alloc, PCs, ClientPCs, CallbackPCs, ItemPCs, Flags
<1>16. CASE furi_event_loop_free
  BY <1>16, BoundsAssumption DEF TypeOK, furi_event_loop_free, PCs, ClientPCs, ItemPCs
<1>17. CASE furi_event_loop_run
  BY <1>17 DEF TypeOK, furi_event_loop_run, PCs, ClientPCs, CallbackPCs, ItemPCs, Flags
<1>18. CASE furi_event_loop_subscribe_thread_flags
  BY <1>18 DEF TypeOK, furi_event_loop_subscribe_thread_flags, PCs, ClientPCs, CallbackPCs, ItemPCs, Flags
<1>19. CASE furi_event_loop_unsubscribe_thread_flags
  BY <1>19 DEF TypeOK, furi_event_loop_unsubscribe_thread_flags, PCs, ClientPCs, CallbackPCs, ItemPCs, Flags
<1>20. CASE furi_event_loop_timer_enqueue_request
  <2>1. timer_requests' \in 0..MaxTimerRequests
    BY <1>20, BoundsAssumption DEF TypeOK, furi_event_loop_timer_enqueue_request
  <2> QED
    BY <1>20, <2>1 DEF TypeOK, furi_event_loop_timer_enqueue_request, Flags
<1>21. CASE furi_event_loop_pend_callback
  BY <1>21 DEF TypeOK, furi_event_loop_pend_callback, PCs, ClientPCs, CallbackPCs, ItemPCs, Flags
<1>22. ASSUME NEW o \in Objects, NEW m \in Modes, furi_event_loop_object_subscribe(o, m)
       PROVE  TypeInv'
  <2>1. m \in [event : Directions, edge : BOOLEAN, once : BOOLEAN]
    BY ModesAssumption
  <2>2. PICK i \in Items :
          /\ item' = [item EXCEPT ![i] =
                 [object |-> o, event |-> m.event, edge |-> m.edge,
                  once |-> m.once, owner |-> TRUE]]
          /\ tree' = [tree EXCEPT ![o] = i]
          /\ link' = [link EXCEPT ![o][m.event] = i]
          /\ \/ waiting_list' = Notified(i) /\ notify' = notify \cup {"Event"}
             \/ UNCHANGED <<waiting_list, notify>>
    BY <1>22 DEF furi_event_loop_object_subscribe
  <2>3. item' \in [Items -> ItemRecords]
    BY <2>1, <2>2 DEF TypeOK, ItemRecords
  <2>4. tree' \in [Objects -> Items \cup {NoItem}]
        /\ link' \in [Objects -> [Directions -> Items \cup {NoItem}]]
    BY <2>1, <2>2 DEF TypeOK
  <2>5. waiting_list' \in Seq(Items) /\ notify' \in SUBSET Flags
    BY <2>2, NotifiedType DEF TypeOK, Flags
  <2> QED
    BY <1>22, <2>3, <2>4, <2>5 DEF furi_event_loop_object_subscribe, TypeOK
<1>23. ASSUME NEW o \in Objects, furi_event_loop_unsubscribe(o)
       PROVE  TypeInv'
  BY <1>23, UnsubscribeType DEF furi_event_loop_unsubscribe, TypeOK
<1>24. ASSUME NEW t \in Callers, furi_event_loop_stop(t)
       PROVE  TypeInv'
  BY <1>24 DEF furi_event_loop_stop, TypeOK, Flags
<1>25. ASSUME NEW t \in Callers, NEW o \in Objects, NEW n \in 0..Capacity,
              NEW event \in Directions, QueueStep(t, o, n, event)
       PROVE  TypeInv'
  BY <1>25 DEF QueueStep, TypeOK, Ops
<1>26. ASSUME NEW t \in Callers, NEW o \in Objects,
              \/ furi_message_queue_put(t, o)
              \/ furi_message_queue_get(t, o)
              \/ furi_message_queue_reset(t, o)
       PROVE  TypeInv'
  <2>1. count[o] \in 0..Capacity /\ Capacity \in Nat
    BY CapacityAssumption DEF TypeOK
  <2> QED
    BY <1>25, <1>26, <2>1
    DEF furi_message_queue_put, furi_message_queue_get, furi_message_queue_reset, Directions
<1>27. ASSUME NEW t \in Callers, furi_thread_flags_set(t)
       PROVE  TypeInv'
  <2>1. op' \in [Callers -> Ops] /\ flag_owed' \in {"none", "owed", "dropped"}
    BY <1>27 DEF furi_thread_flags_set, TypeOK, Ops
  <2> QED
    BY <1>27, <2>1 DEF furi_thread_flags_set, TypeOK
<1>28. ASSUME NEW t \in Callers, furi_event_loop_link_notify(t)
       PROVE  TypeInv'
  <2> DEFINE i == link[op[t].object][op[t].event]
  <2>1. op' \in [Callers -> Ops]
    BY <1>28 DEF furi_event_loop_link_notify, TypeOK, Ops, NoOp
  <2>2. op[t].object \in Objects /\ op[t].event \in Directions
    BY <1>28 DEF furi_event_loop_link_notify, TypeOK, Ops
  <2>3. i \in Items \cup {NoItem}
    BY <2>2 DEF TypeOK
  <2>4. waiting_list' \in Seq(Items) /\ notify' \in SUBSET Flags
    BY <1>28, <2>3, NotifiedType DEF furi_event_loop_link_notify, TypeOK, Flags
  <2> QED
    BY <1>28, <2>1, <2>4 DEF furi_event_loop_link_notify, TypeOK
<1>29. ASSUME NEW t \in Callers, furi_event_loop_thread_flag_callback(t)
       PROVE  TypeInv'
  BY <1>29 DEF furi_event_loop_thread_flag_callback, TypeOK, Flags, Ops, NoOp
<1> QED
  BY <1>0, <1>1, <1>2, <1>3, <1>4, <1>5, <1>6, <1>7, <1>8, <1>9, <1>10, <1>11,
     <1>12, <1>13, <1>14, <1>15, <1>16, <1>17, <1>18, <1>19, <1>20, <1>21, <1>22,
     <1>23, <1>24, <1>26, <1>27, <1>28, <1>29
  DEF Next, LoopStep, CallbackReturn, FinishOp, Call, ClientStep

(* Every variable keeps its type, in every instance of the module.         *)
THEOREM TypeCorrect == Spec => []TypeOK
<1>1. TypeInv => TypeOK
  BY DEF TypeInv
<1> QED
  BY <1>1, InitType, TypeNext, PTL DEF Spec

-----------------------------------------------------------------------------
(* The life of an item.  From here on no client asks for a Once item, which *)
(* the loop frees under its own feet (NoUseAfterFree fails on them).        *)

(* Taking an item out of a list without duplicates takes out that item only. *)
LEMMA UnlinkedMembers ==
    ASSUME waiting_list \in Seq(Items), NEW i,
           \A j, k \in DOMAIN waiting_list : waiting_list[j] = waiting_list[k] => j = k
    PROVE  /\ \A k \in DOMAIN Unlinked(i) :
                 \E j \in DOMAIN waiting_list :
                     waiting_list[j] = Unlinked(i)[k] /\ waiting_list[j] # i
           /\ \A j, k \in DOMAIN Unlinked(i) : Unlinked(i)[j] = Unlinked(i)[k] => j = k
<1>1. CASE furi_event_loop_item_is_waiting(i)
  <2> DEFINE at == CHOOSE k \in DOMAIN waiting_list : waiting_list[k] = i
  <2>1. at \in DOMAIN waiting_list /\ waiting_list[at] = i
    BY <1>1 DEF furi_event_loop_item_is_waiting
  <2> HIDE DEF at
  <2>2. /\ Len(waiting_list) \in Nat /\ DOMAIN waiting_list = 1..Len(waiting_list)
        /\ at \in 1..Len(waiting_list)
    BY <2>1
  <2>3. Unlinked(i) = [k \in 1..(Len(waiting_list) - 1) |->
                         IF k < at THEN waiting_list[k] ELSE waiting_list[k + 1]]
    BY <1>1 DEF Unlinked, at
  <2>4. ASSUME NEW k \in 1..(Len(waiting_list) - 1)
        PROVE  /\ k \in DOMAIN waiting_list /\ k + 1 \in DOMAIN waiting_list
               /\ k < at => Unlinked(i)[k] = waiting_list[k] /\ k # at
               /\ ~(k < at) => Unlinked(i)[k] = waiting_list[k + 1] /\ k + 1 # at
    BY <2>2, <2>3
  <2>5. DOMAIN Unlinked(i) = 1..(Len(waiting_list) - 1)
    BY <2>3
  <2>6. ASSUME NEW k \in DOMAIN Unlinked(i)
        PROVE  \E j \in DOMAIN waiting_list :
                   waiting_list[j] = Unlinked(i)[k] /\ waiting_list[j] # i
    <3>1. CASE k < at
      BY <3>1, <2>1, <2>4, <2>5
    <3>2. CASE ~(k < at)
      BY <3>2, <2>1, <2>4, <2>5
    <3> QED
      BY <3>1, <3>2
  <2>7. ASSUME NEW j \in DOMAIN Unlinked(i), NEW k \in DOMAIN Unlinked(i),
               Unlinked(i)[j] = Unlinked(i)[k]
        PROVE  j = k
    BY <2>2, <2>4, <2>5, <2>7
  <2> QED
    BY <2>6, <2>7
<1>2. CASE ~furi_event_loop_item_is_waiting(i)
  BY <1>2 DEF Unlinked, furi_event_loop_item_is_waiting
<1> QED
  BY <1>1, <1>2

WaitingSubscribed ==
    \A k \in DOMAIN waiting_list :
        /\ item[waiting_list[k]].object \in Objects
        /\ tree[item[waiting_list[k]].object] = waiting_list[k]

WaitsOnce ==
    \A j, k \in DOMAIN waiting_list : waiting_list[j] = waiting_list[k] => j = k

TreeInv ==
    \A o \in Objects : Subscribed(o) =>
        /\ item[tree[o]].object = o
        /\ item[tree[o]].owner /\ ~item[tree[o]].once
        /\ Event(o) \in Directions
        /\ link[o][Event(o)] = tree[o]

LinkInv ==
    \A o \in Objects, d \in Directions : link[o][d] # NoItem =>
        link[o][d] = tree[o] /\ Event(o) = d

HeapInv ==
    \A i \in Items : ~IsFree(i) =>
        /\ item[i].object \in Objects
        /\ ~item[i].once /\ item[i].event \in Directions
        /\ \/ tree[item[i].object] = i
           \/ i = proc /\ ~item[i].owner /\ pc \in {"item_cb", "finish"}

Processing == {"process_event", "dispatch", "item_cb", "finish"}

(* What the loop holds while it processes an item, and only then.          *)
ProcInv ==
    /\ pc # "fault"
    /\ pc \notin Processing => proc = NoItem /\ current_item = NoItem
    /\ pc \in Processing => proc \in Items /\ ~IsFree(proc)
    /\ pc \in {"process_event", "dispatch"} => item[proc].owner
    /\ pc = "process_event" => current_item = NoItem
    /\ pc \in {"dispatch", "item_cb", "finish"} => current_item = proc

ItemInv ==
    TypeInv /\ WaitingSubscribed /\ WaitsOnce /\ TreeInv /\ LinkInv /\ HeapInv /\ ProcInv

LEMMA ItemInit == Init => ItemInv
BY InitType
DEF Init, ItemInv, WaitingSubscribed, WaitsOnce, TreeInv, LinkInv, HeapInv, ProcInv,
    Subscribed, Event, IsFree, Processing, NullAssumption

(* A step that touches neither the items nor what the loop does with one.  *)
LEMMA ItemFrame ==
    ASSUME ItemInv, TypeInv', UNCHANGED <<subVars, waiting_list, current_item, proc>>,
           pc' = pc \/ (pc \notin Processing /\ pc' \notin Processing \cup {"fault"})
    PROVE  ItemInv'
BY DEF ItemInv, WaitingSubscribed, WaitsOnce, TreeInv, LinkInv, HeapInv, ProcInv,
    Subscribed, Event, IsFree, Processing, subVars

(* An item that gets in line, unless it is there: it must be subscribed.    *)
LEMMA NotifiedMembers ==
    ASSUME waiting_list \in Seq(Items), NEW i \in Items, WaitsOnce
    PROVE  /\ \A k \in DOMAIN Notified(i) :
                 Notified(i)[k] = i \/ \E j \in DOMAIN waiting_list :
                                          waiting_list[j] = Notified(i)[k]
           /\ \A j, k \in DOMAIN Notified(i) : Notified(i)[j] = Notified(i)[k] => j = k
<1>1. CASE furi_event_loop_item_is_waiting(i)
  BY <1>1 DEF Notified, WaitsOnce
<1>2. CASE ~furi_event_loop_item_is_waiting(i)
  <2>1. Notified(i) = Append(waiting_list, i)
    BY <1>2 DEF Notified
  <2>2. \A k \in DOMAIN waiting_list : waiting_list[k] # i
    BY <1>2 DEF furi_event_loop_item_is_waiting
  <2> QED
    BY <2>1, <2>2 DEF WaitsOnce
<1> QED
  BY <1>1, <1>2

LEMMA LinkNotifyInv ==
    ASSUME ItemInv, TypeInv', NEW t \in Callers, furi_event_loop_link_notify(t)
    PROVE  ItemInv'
<1> DEFINE i == link[op[t].object][op[t].event]
<1>1. op[t].object \in Objects /\ op[t].event \in Directions
  BY DEF furi_event_loop_link_notify, ItemInv, TypeInv, TypeOK, Ops
<1>2. CASE i = NoItem
  BY <1>2, ItemFrame DEF furi_event_loop_link_notify, loopVars
<1>3. CASE i # NoItem
  <2>1. i \in Items /\ i = tree[op[t].object] /\ item[i].object = op[t].object
    BY <1>1, <1>3 DEF ItemInv, TypeInv, TypeOK, LinkInv, TreeInv, Subscribed
  <2>2. waiting_list' = Notified(i)
    BY <1>3 DEF furi_event_loop_link_notify
  <2>3. UNCHANGED <<item, tree>> /\ waiting_list \in Seq(Items) /\ WaitsOnce
    BY DEF furi_event_loop_link_notify, subVars, ItemInv, TypeInv, TypeOK
  <2>4. WaitsOnce'
    BY <2>1, <2>2, <2>3, NotifiedMembers DEF WaitsOnce
  <2>5. WaitingSubscribed'
    <3>1. ASSUME NEW k \in DOMAIN waiting_list'
          PROVE  /\ item[waiting_list'[k]].object \in Objects
                 /\ tree[item[waiting_list'[k]].object] = waiting_list'[k]
      <4>1. CASE waiting_list'[k] = i
        BY <1>1, <2>1, <4>1
      <4>2. CASE \E j \in DOMAIN waiting_list : waiting_list[j] = waiting_list'[k]
        BY <4>2 DEF ItemInv, WaitingSubscribed
      <4> QED
        BY <2>1, <2>2, <2>3, <4>1, <4>2, NotifiedMembers
    <3> QED
      BY <2>3, <3>1 DEF WaitingSubscribed
  <2> QED
    BY <2>4, <2>5 DEF furi_event_loop_link_notify, ItemInv, TreeInv, LinkInv, HeapInv,
        ProcInv, Subscribed, Event, IsFree, subVars, loopVars
<1> QED
  BY <1>2, <1>3

LEMMA SubscribeInv ==
    ASSUME \A n \in Modes : ~n.once,
           ItemInv, TypeInv', NEW o \in Objects, NEW m \in Modes,
           furi_event_loop_object_subscribe(o, m)
    PROVE  ItemInv'
<1>1. m \in [event : Directions, edge : BOOLEAN, once : BOOLEAN] /\ ~m.once
  BY ModesAssumption
<1>2. PICK i \in Items :
        /\ IsFree(i)
        /\ item' = [item EXCEPT ![i] =
               [object |-> o, event |-> m.event, edge |-> m.edge,
                once |-> m.once, owner |-> TRUE]]
        /\ tree' = [tree EXCEPT ![o] = i]
        /\ link' = [link EXCEPT ![o][m.event] = i]
        /\ waiting_list' = Notified(i) \/ waiting_list' = waiting_list
  BY DEF furi_event_loop_object_subscribe
<1>3. /\ item[i].object = NoObject /\ ~item[i].owner
      /\ item'[i].object = o /\ item'[i].owner /\ ~item'[i].once
      /\ item'[i].event = m.event /\ m.event \in Directions
      /\ \A j \in Items \ {i} : item'[j] = item[j]
  BY <1>1, <1>2 DEF IsFree, Zeroed, ItemInv, TypeInv, TypeOK
<1>4. /\ tree[o] = NoItem /\ tree'[o] = i
      /\ \A p \in Objects \ {o} : tree'[p] = tree[p] /\ link'[p] = link[p]
      /\ link'[o][m.event] = i
      /\ \A d \in Directions \ {m.event} : link'[o][d] = link[o][d]
      /\ i # NoItem
  BY <1>1, <1>2, NullAssumption
  DEF furi_event_loop_object_subscribe, ItemInv, TypeInv, TypeOK
<1>5. \A p \in Objects : tree[p] # i
  BY <1>3, <1>4, NullAssumption DEF ItemInv, TreeInv, Subscribed
<1>6. /\ tree \in [Objects -> Items \cup {NoItem}] /\ waiting_list \in Seq(Items)
      /\ \A k \in DOMAIN waiting_list : waiting_list[k] \in Items
  BY DEF ItemInv, TypeInv, TypeOK
<1>7. \A p \in Objects, d \in Directions : link[p][d] # NoItem => p # o
  BY <1>4, NullAssumption DEF ItemInv, LinkInv
<1>8. TreeInv'
  BY <1>3, <1>4, <1>5, <1>6 DEF ItemInv, TreeInv, Subscribed, Event
<1>9. LinkInv'
  BY <1>3, <1>4, <1>5, <1>6, <1>7 DEF ItemInv, LinkInv, Event
<1>10. UNCHANGED <<pc, proc, current_item>>
  BY DEF furi_event_loop_object_subscribe, loopVars
<1>11. HeapInv'
  <2>1. ASSUME NEW j \in Items \ {i}, ~IsFree(j)
        PROVE  item[j].object # o \/ (j = proc /\ ~item[j].owner /\ pc \in {"item_cb", "finish"})
    BY <1>4, <2>1, NullAssumption DEF ItemInv, HeapInv
  <2>2. \A j \in Items \ {i} : IsFree(j)' <=> IsFree(j)
    BY <1>3 DEF IsFree
  <2> QED
    BY <1>3, <1>4, <1>10, <2>1, <2>2 DEF ItemInv, HeapInv
<1>12. ProcInv'
  BY <1>2, <1>3, <1>10 DEF ItemInv, ProcInv, IsFree, Processing
<1>13. \A k \in DOMAIN waiting_list :
          waiting_list[k] # i /\ item[waiting_list[k]].object # o
  BY <1>3, <1>4, <1>5, <1>6, NullAssumption DEF ItemInv, WaitingSubscribed
<1>14. WaitingSubscribed' /\ WaitsOnce'
  BY <1>2, <1>3, <1>4, <1>6, <1>13, NotifiedMembers
  DEF ItemInv, WaitingSubscribed, WaitsOnce
<1> QED
  BY <1>8, <1>9, <1>11, <1>12, <1>14 DEF ItemInv

LEMMA UnsubscribeInv ==
    ASSUME ItemInv, TypeInv', NEW o \in Objects, furi_event_loop_unsubscribe(o)
    PROVE  ItemInv'
<1> DEFINE i == tree[o]
<1>1. /\ i \in Items /\ item[i].object = o /\ Event(o) \in Directions
      /\ Subscribed(o) /\ link[o][Event(o)] = i /\ item[i].owner
  BY DEF furi_event_loop_unsubscribe, Unsubscribe, CanUnsubscribe, ItemInv, TypeInv,
     TypeOK, TreeInv, Subscribed, Event
<1>2. /\ tree' = [tree EXCEPT ![o] = NoItem]
      /\ link' = [link EXCEPT ![o][Event(o)] = NoItem]
      /\ item' = HeapWithout(i)
      /\ waiting_list' = Unlinked(i)
      /\ UNCHANGED <<pc, proc, current_item>>
  BY DEF furi_event_loop_unsubscribe, Unsubscribe, LinkWithout, Event, loopVars
<1>3. /\ tree'[o] = NoItem
      /\ \A p \in Objects \ {o} : tree'[p] = tree[p] /\ link'[p] = link[p]
      /\ \A d \in Directions : link'[o][d] = NoItem
      /\ \A j \in Items \ {i} : item'[j] = item[j]
  <2>1. \A d \in Directions : d # Event(o) => link[o][d] = NoItem
    BY DEF ItemInv, LinkInv
  <2>2. \A d \in Directions : link'[o][d] = NoItem
    BY <1>1, <1>2, <2>1 DEF ItemInv, TypeInv, TypeOK
  <2> QED
    BY <1>1, <1>2, <2>2 DEF ItemInv, TypeInv, TypeOK, HeapWithout
<1>4. \A p \in Objects \ {o} : tree[p] # i
  BY <1>1 DEF ItemInv, TreeInv, Subscribed
<1>5. TreeInv'
  <2>1. ASSUME NEW p \in Objects, tree'[p] # NoItem
        PROVE  p # o /\ tree'[p] = tree[p] /\ item'[tree[p]] = item[tree[p]]
    BY <1>3, <1>4, <2>1 DEF ItemInv, TypeInv, TypeOK
  <2> QED
    BY <1>3, <2>1 DEF ItemInv, TreeInv, Subscribed, Event
<1>6. LinkInv'
  <2>1. ASSUME NEW p \in Objects, NEW d \in Directions, link'[p][d] # NoItem
        PROVE  p # o /\ link[p][d] # NoItem
    BY <1>3, <2>1
  <2>2. ASSUME NEW p \in Objects, NEW d \in Directions, link'[p][d] # NoItem
        PROVE  tree[p] \in Items \ {i}
    BY <1>4, <2>1, <2>2 DEF ItemInv, TypeInv, TypeOK, LinkInv
  <2> QED
    BY <1>3, <2>1, <2>2 DEF ItemInv, LinkInv, Event
<1>7. \/ current_item = i /\ proc = i /\ pc = "item_cb"
         /\ item'[i] = [item[i] EXCEPT !.owner = FALSE]
      \/ current_item # i /\ proc # i /\ item'[i] = Zeroed
  <2>1. pc \in ClientPCs
    BY DEF furi_event_loop_unsubscribe, LoopThreadCalls, CanCall
  <2>2. proc = current_item /\ (proc \in Items => pc = "item_cb")
    BY <2>1, NullAssumption
    DEF ItemInv, ProcInv, Processing, ClientPCs, CallbackPCs
  <2> QED
    BY <1>1, <1>2, <2>2 DEF HeapWithout, ItemInv, TypeInv, TypeOK
<1>8. HeapInv'
  <2>1. ASSUME NEW j \in Items, ~IsFree(j)', j # i
        PROVE  /\ item'[j] = item[j] /\ ~IsFree(j)
               /\ \/ item[j].object # o
                  \/ j = proc /\ ~item[j].owner /\ pc \in {"item_cb", "finish"}
    BY <1>3, <2>1 DEF ItemInv, HeapInv, IsFree
  <2>2. ASSUME NEW j \in Items, ~IsFree(j)', j = i
        PROVE  /\ item'[j] = [item[j] EXCEPT !.owner = FALSE]
               /\ j = proc /\ pc = "item_cb" /\ ~IsFree(j)
    BY <1>1, <1>7, <2>2 DEF IsFree, Zeroed
  <2>3. ASSUME NEW j \in Items, ~IsFree(j)'
        PROVE  /\ item'[j].object \in Objects
               /\ ~item'[j].once /\ item'[j].event \in Directions
               /\ \/ tree'[item'[j].object] = j
                  \/ j = proc /\ ~item'[j].owner /\ pc \in {"item_cb", "finish"}
    <3>1. CASE j # i
      BY <1>3, <2>1, <2>3, <3>1 DEF ItemInv, HeapInv
    <3>2. CASE j = i
      <4>1. /\ item'[j].object = item[j].object /\ item'[j].event = item[j].event
            /\ item'[j].once = item[j].once /\ item'[j].owner = FALSE
        BY <2>2, <2>3, <3>2 DEF ItemInv, TypeInv, TypeOK, ItemRecords
      <4> QED
        BY <2>2, <2>3, <3>2, <4>1 DEF ItemInv, HeapInv
    <3> QED
      BY <3>1, <3>2
  <2> QED
    BY <1>2, <2>3 DEF HeapInv
<1>9. ProcInv'
  <2>1. proc \in Items => item'[proc].object = item[proc].object
    <3>1. item[i] \in ItemRecords
      BY <1>1 DEF ItemInv, TypeInv, TypeOK
    <3>2. proc = i => item'[i].object = item[i].object
      BY <1>7, <3>1 DEF ItemRecords
    <3> QED
      BY <1>3, <3>2
  <2>2. proc \in Items /\ ~IsFree(proc) => item[proc].object # NoObject
    BY NullAssumption DEF ItemInv, HeapInv
  <2>3. pc \in Processing => ~IsFree(proc)'
    BY <2>1, <2>2, <1>2 DEF ItemInv, ProcInv, IsFree, Zeroed
  <2>4. pc \notin {"process_event", "dispatch"}
    BY DEF furi_event_loop_unsubscribe, LoopThreadCalls, CanCall, ClientPCs, CallbackPCs
  <2> QED
    BY <1>2, <2>3, <2>4 DEF ItemInv, ProcInv
<1>10. WaitsOnce' /\ WaitingSubscribed'
  <2>1. waiting_list \in Seq(Items)
    BY DEF ItemInv, TypeInv, TypeOK
  <2>2. WaitsOnce'
    BY <1>2, <2>1, UnlinkedMembers DEF ItemInv, WaitsOnce
  <2>3. ASSUME NEW k \in DOMAIN waiting_list'
        PROVE  /\ item'[waiting_list'[k]].object \in Objects
               /\ tree'[item'[waiting_list'[k]].object] = waiting_list'[k]
    <3>1. PICK j \in DOMAIN waiting_list :
             waiting_list[j] = waiting_list'[k] /\ waiting_list[j] # i
      BY <1>2, <2>1, <2>3, UnlinkedMembers DEF ItemInv, WaitsOnce
    <3>2. /\ waiting_list[j] \in Items \ {i}
          /\ item[waiting_list[j]].object \in Objects
          /\ tree[item[waiting_list[j]].object] = waiting_list[j]
      BY <2>1, <3>1 DEF ItemInv, WaitingSubscribed
    <3> QED
      BY <1>3, <3>1, <3>2
  <2> QED
    BY <2>2, <2>3 DEF WaitingSubscribed
<1> QED
  BY <1>5, <1>6, <1>8, <1>9, <1>10 DEF ItemInv

LEMMA GetWaitingItemInv ==
    ASSUME ItemInv, TypeInv', furi_event_loop_get_waiting_item
    PROVE  ItemInv'
<1>1. CASE waiting_list = <<>>
  BY <1>1, ItemFrame DEF furi_event_loop_get_waiting_item, Processing
<1>2. CASE waiting_list # <<>>
  <2>1. /\ proc' = Head(waiting_list) /\ waiting_list' = Tail(waiting_list)
        /\ pc = "pop" /\ pc' = "process_event"
        /\ UNCHANGED <<item, tree, link, current_item>>
    BY <1>2 DEF furi_event_loop_get_waiting_item, subVars
  <2>2. /\ waiting_list \in Seq(Items) /\ 1 \in DOMAIN waiting_list
        /\ Head(waiting_list) = waiting_list[1] /\ waiting_list[1] \in Items
    BY <1>2 DEF ItemInv, TypeInv, TypeOK
  <2>3. /\ item[proc'].object \in Objects /\ tree[item[proc'].object] = proc'
        /\ proc' \in Items
    BY <2>1, <2>2 DEF ItemInv, WaitingSubscribed
  <2>4. /\ item[proc'].owner /\ ~IsFree(proc)'
    BY <2>1, <2>3, NullAssumption DEF ItemInv, TreeInv, Subscribed, IsFree, Zeroed
  <2>5. \A k \in DOMAIN waiting_list' :
           k + 1 \in DOMAIN waiting_list /\ waiting_list'[k] = waiting_list[k + 1]
    BY <1>2, <2>1, <2>2
  <2>6. WaitingSubscribed'
    BY <2>1, <2>5 DEF ItemInv, WaitingSubscribed
  <2>7. WaitsOnce'
    BY <2>1, <2>2, <2>5 DEF ItemInv, WaitsOnce
  <2>8. TreeInv' /\ LinkInv'
    BY <2>1 DEF ItemInv, TreeInv, LinkInv, Subscribed, Event
  <2>9. HeapInv'
    BY <2>1 DEF ItemInv, HeapInv, IsFree
  <2>10. ProcInv'
    BY <2>1, <2>3, <2>4 DEF ItemInv, ProcInv, Processing
  <2> QED
    BY <2>6, <2>7, <2>8, <2>9, <2>10 DEF ItemInv
<1> QED
  BY <1>1, <1>2

(* The steps from dispatch to the return of the callback change nothing but *)
(* pc, status and current_item; no Once item means no unsubscribe.          *)
LEMMA DispatchInv ==
    ASSUME ItemInv, TypeInv',
           \/ process_event \/ process_edge_event
           \/ process_level_event \/ item_callback_return
    PROVE  ItemInv'
<1>1. ~item[proc].once /\ item[proc].event \in Directions
  BY DEF process_event, process_edge_event, process_level_event, item_callback_return,
     ItemInv, ProcInv, HeapInv, Processing
<1>2. ~LevelFaults
  BY <1>1 DEF LevelFaults, Directions
<1>3. UNCHANGED <<item, tree, link, waiting_list, proc>>
  BY <1>1 DEF process_event, process_edge_event, process_level_event,
     item_callback_return, subVars
<1>4. \/ pc = "process_event" /\ pc' = "dispatch" /\ current_item' = proc
      \/ /\ pc \in {"dispatch", "item_cb"} /\ pc' \in {"item_cb", "finish"}
         /\ current_item' = current_item
  BY <1>2 DEF process_event, process_edge_event, process_level_event, item_callback_return
<1>5. HeapInv'
  BY <1>3, <1>4 DEF ItemInv, HeapInv, IsFree
<1>6. ProcInv'
  BY <1>3, <1>4 DEF ItemInv, ProcInv, IsFree, Processing
<1> QED
  BY <1>3, <1>5, <1>6
  DEF ItemInv, WaitingSubscribed, WaitsOnce, TreeInv, LinkInv, Subscribed, Event

LEMMA FinishInv ==
    ASSUME ItemInv, TypeInv', process_waiting_list_finish
    PROVE  ItemInv'
<1>1. /\ proc \in Items /\ ~IsFree(proc) /\ current_item = proc
      /\ pc = "finish" /\ pc' = "wait" /\ proc' = NoItem /\ current_item' = NoItem
      /\ UNCHANGED <<tree, link>>
  BY DEF process_waiting_list_finish, ItemInv, ProcInv, Processing
<1>2. ProcInv'
  BY <1>1 DEF ProcInv, Processing
<1>3. waiting_list \in Seq(Items) /\ WaitsOnce
  BY DEF ItemInv, TypeInv, TypeOK
<1>4. CASE item[proc].owner
  <2>1. item' = item /\ (waiting_list' = Notified(proc) \/ waiting_list' = waiting_list)
    BY <1>4 DEF process_waiting_list_finish, Requeued
  <2>2. item[proc].object \in Objects /\ tree[item[proc].object] = proc
    BY <1>1, <1>4 DEF ItemInv, HeapInv
  <2>3. HeapInv'
    BY <1>1, <1>4, <2>1 DEF ItemInv, HeapInv, IsFree
  <2>4. WaitsOnce'
    BY <1>1, <1>3, <2>1, NotifiedMembers DEF WaitsOnce
  <2>5. ASSUME NEW k \in DOMAIN waiting_list'
        PROVE  /\ item[waiting_list'[k]].object \in Objects
               /\ tree[item[waiting_list'[k]].object] = waiting_list'[k]
    <3>1. waiting_list'[k] = proc \/ \E j \in DOMAIN waiting_list :
                                        waiting_list[j] = waiting_list'[k]
      BY <1>1, <1>3, <2>1, NotifiedMembers
    <3> QED
      BY <2>2, <3>1 DEF ItemInv, WaitingSubscribed
  <2> QED
    BY <1>1, <1>2, <2>1, <2>3, <2>4, <2>5
    DEF ItemInv, WaitingSubscribed, TreeInv, LinkInv, Subscribed, Event
<1>5. CASE ~item[proc].owner
  <2>1. item' = [item EXCEPT ![proc] = Zeroed] /\ waiting_list' = waiting_list
    BY <1>5 DEF process_waiting_list_finish, Requeued
  <2>2. /\ item'[proc] = Zeroed
        /\ \A j \in Items \ {proc} : item'[j] = item[j]
    BY <1>1, <2>1 DEF ItemInv, TypeInv, TypeOK
  <2>3. \A o \in Objects : tree[o] # proc
    BY <1>1, <1>5, NullAssumption DEF ItemInv, TreeInv, Subscribed
  <2>4. \A o \in Objects : tree[o] # NoItem => item'[tree[o]] = item[tree[o]]
    BY <2>2, <2>3 DEF ItemInv, TypeInv, TypeOK
  <2>5. TreeInv'
    BY <1>1, <2>4 DEF ItemInv, TreeInv, Subscribed, Event
  <2>6. LinkInv'
    <3>1. ASSUME NEW o \in Objects, NEW d \in Directions, link[o][d] # NoItem
          PROVE  tree[o] # NoItem /\ link[o][d] = tree[o] /\ item[tree[o]].event = d
      BY <3>1 DEF ItemInv, LinkInv, Event
    <3> QED
      BY <1>1, <2>4, <3>1 DEF LinkInv, Event
  <2>7. HeapInv'
    <3>1. ASSUME NEW j \in Items, ~IsFree(j)'
          PROVE  j # proc /\ item'[j] = item[j] /\ ~IsFree(j)
      BY <2>2, <3>1 DEF IsFree
    <3> QED
      BY <1>1, <3>1 DEF ItemInv, HeapInv
  <2>8. \A k \in DOMAIN waiting_list : waiting_list[k] \in Items \ {proc}
    BY <1>3, <2>3 DEF ItemInv, WaitingSubscribed
  <2>9. WaitingSubscribed' /\ WaitsOnce'
    BY <1>1, <2>1, <2>2, <2>8 DEF ItemInv, WaitingSubscribed, WaitsOnce
  <2> QED
    BY <1>2, <2>5, <2>6, <2>7, <2>9 DEF ItemInv
<1> QED
  BY <1>4, <1>5

LEMMA ItemNext ==
    ASSUME \A m \in Modes : ~m.once
    PROVE  ItemInv /\ [Next]_vars => ItemInv'
<1> SUFFICES ASSUME ItemInv, [Next]_vars PROVE ItemInv'
  OBVIOUS
<1>1. TypeInv'
  BY TypeNext DEF ItemInv
<1> USE DEF loopVars, subVars, miscVars
<1>2. CASE UNCHANGED vars
  BY <1>1, <1>2, ItemFrame DEF vars
<1>3. CASE \/ wait_stop \/ wait_event \/ wait_timer \/ wait_pending
           \/ wait_thread_flag \/ wait_timeout
  BY <1>1, <1>3, ItemFrame
  DEF wait_stop, wait_event, wait_timer, wait_pending, wait_thread_flag, wait_timeout,
      Processing
<1>4. CASE \/ pending_callback_return \/ callback_return
           \/ furi_event_loop_alloc \/ furi_event_loop_free \/ furi_event_loop_run
  BY <1>1, <1>4, ItemFrame
  DEF pending_callback_return, callback_return, furi_event_loop_alloc,
      furi_event_loop_free, furi_event_loop_run, Processing
<1>5. CASE \/ furi_event_loop_subscribe_thread_flags
           \/ furi_event_loop_unsubscribe_thread_flags
           \/ furi_event_loop_timer_enqueue_request
           \/ furi_event_loop_pend_callback
  BY <1>1, <1>5, ItemFrame
  DEF furi_event_loop_subscribe_thread_flags, furi_event_loop_unsubscribe_thread_flags,
      furi_event_loop_timer_enqueue_request, furi_event_loop_pend_callback
<1>6. ASSUME NEW t \in Callers,
             \/ furi_event_loop_stop(t) \/ furi_thread_flags_set(t)
             \/ furi_event_loop_thread_flag_callback(t)
             \/ \E o \in Objects : \/ furi_message_queue_put(t, o)
                                   \/ furi_message_queue_get(t, o)
                                   \/ furi_message_queue_reset(t, o)
      PROVE  ItemInv'
  BY <1>1, <1>6, ItemFrame
  DEF furi_event_loop_stop, furi_thread_flags_set, furi_event_loop_thread_flag_callback,
      furi_message_queue_put, furi_message_queue_get, furi_message_queue_reset, QueueStep
<1> QED
  BY <1>1, <1>2, <1>3, <1>4, <1>5, <1>6, SubscribeInv, UnsubscribeInv, LinkNotifyInv,
     GetWaitingItemInv, DispatchInv, FinishInv
  DEF Next, LoopStep, CallbackReturn, FinishOp, Call, ClientStep

LEMMA ItemInvAlways ==
    ASSUME \A m \in Modes : ~m.once
    PROVE  Spec => []ItemInv
  BY ItemInit, ItemNext, PTL DEF Spec

(* As long as no client asks for Once items, no item leaks, and neither the *)
(* tree, an object's link nor the waiting list points to a freed one.       *)
THEOREM ItemsAllAccounted ==
    ASSUME \A m \in Modes : ~m.once
    PROVE  Spec => []ItemsAccounted
<1>1. ItemInv => ItemsAccounted
  BY DEF ItemInv, ItemsAccounted, WaitingSubscribed, WaitsOnce, TreeInv, LinkInv,
     HeapInv, Event
<1> QED
  BY <1>1, ItemInvAlways, PTL

(* Nor does the loop work on a freed item between the waiting list and the  *)
(* end of its processing, not even after a callback that unsubscribed its   *)
(* own object.                                                              *)
THEOREM ItemsSafe ==
    ASSUME \A m \in Modes : ~m.once
    PROVE  Spec => []NoUseAfterFree
<1>1. ItemInv => NoUseAfterFree
  BY DEF ItemInv, ProcInv, NoUseAfterFree, ItemPCs, Processing
<1> QED
  BY <1>1, ItemInvAlways, PTL
=============================================================================
