------------------------ MODULE ViewDispatcherProofs ------------------------
(* Proofs about ViewDispatcher, for any keys, view ports, views and queues: *)
(* a press is followed by its release at the same view port and view unless *)
(* a key that is down is pressed again, both ends of a queue agree on the   *)
(* keys, nothing goes to who is gone, and the GUI thread does not sleep on  *)
(* an event.                                                                *)
EXTENDS ViewDispatcher, FiniteSetTheorems, TLAPS

(* The types of what the keys pass through.                                 *)
KeysTyped ==
    /\ gui_queue \in Seq(Events) /\ input_queue \in Seq(KeyEvents)
    /\ gui_at = "put" => gui_event \in KeyEvents
    /\ down \in [Sources -> SUBSET Keys] /\ injected \in Nat
    /\ ongoing_input \subseteq Keys /\ ongoing_keys \subseteq Keys
    /\ port_keys \in [Ports -> SUBSET [key : Keys, source : Sources]]
    /\ held \in [Views -> SUBSET Keys]
    /\ turned \in BOOLEAN /\ left_handed \in BOOLEAN

-----------------------------------------------------------------------------
(* Events and keys                                                          *)

(* Events that a key can be told of, from the input service or a view port. *)
Keyed(S) == \A e \in S : e.type \in {"Press", "Short", "Release"} /\ e.key \in Keys

LEMMA EventsKeyed == Keyed(Events) /\ Keyed(KeyEvents)
  BY DEF Keyed, Events, KeyEvents

LEMMA EventParts ==
    ASSUME NEW e \in Events
    PROVE  /\ e.type \in {"Press", "Short", "Release"} /\ e.key \in Keys
           /\ e.source \in Sources
  BY DEF Events

LEMMA EventFields ==
    ASSUME NEW t, NEW k, NEW s
    PROVE  Event(t, k, s).type = t /\ Event(t, k, s).key = k /\ Event(t, k, s).source = s
  BY DEF Event

LEMMA EventTyped ==
    ASSUME NEW t \in {"Press", "Short", "Release"}, NEW k \in Keys, NEW s \in Sources
    PROVE  Event(t, k, s) \in Events
  BY DEF Event, Events

LEMMA OngoingIs ==
    ASSUME NEW o, NEW e, e.type \in {"Press", "Short", "Release"}, NEW k
    PROVE  k \in OngoingAfter(o, e) <=> IsPress(e, k) \/ (k \in o /\ ~IsRelease(e, k))
  BY DEF OngoingAfter, IsPress, IsRelease

LEMMA OngoingTyped ==
    ASSUME NEW o \in SUBSET Keys, NEW S, Keyed(S), NEW e \in S
    PROVE  OngoingAfter(o, e) \in SUBSET Keys
  BY DEF OngoingAfter, Keyed

LEMMA GivenTyped ==
    ASSUME NEW o \in SUBSET [key : Keys, source : Sources], NEW e \in Events
    PROVE  GivenAfter(o, e) \in SUBSET [key : Keys, source : Sources]
  BY EventParts DEF GivenAfter

(* A key of a view port and an event stand for some key.                    *)
LEMMA KeyOfTyped ==
    ASSUME KeysTyped, NEW x, x.key \in Keys
    PROVE  KeyOf(x) \in Keys
  BY ViewDispatcherAssumption DEF KeyOf, KeyIn, KeysTyped

LEMMA GivenEvent ==
    ASSUME KeysTyped, NEW e \in Events
    PROVE  [type |-> e.type, key |-> KeyOf(e)] \in KeyEvents
  BY EventParts, KeyOfTyped DEF KeyEvents

-----------------------------------------------------------------------------
(* Steps.  Most of them keep what the keys pass through.                    *)
InputKept ==
    /\ UNCHANGED <<down, injected, gui_queue, ongoing_input, ongoing_input_view_port, port_keys,
                   robbed, ongoing_keys, input_queue, gui_event, turned, left_handed, sacrificed,
                   held, robbed_views, ongoing_input_view>>
    /\ gui_at' = "put" <=> gui_at = "put"
    /\ app_at' = "run" => app_at \in {"run", "off"}
    /\ app_at' = "off" => app_at = "off"

Sending ==
    \/ \E k \in Keys : press(k) \/ hold(k) \/ release(k) \/ rpc_system_gui_free(k)
    \/ \E e \in Events : inject(e.type, e.key, e.source)

KeyStep ==
    \/ Sending /\ UNCHANGED appVars
    \/ \E e \in Events, target \in Ports \cup {NoPort} : view_port_input(e, target)
    \/ view_dispatcher_input_callback
    \/ view_dispatcher_handle_input \/ hand_orient_changed
    \/ view_dispatcher_remove_view \/ set_orientation \/ drain \/ view_dispatcher_free
    \/ \E p \in Guests : guest_closes(p) /\ UNCHANGED appVars

LEMMA Steps == [Next]_vars => InputKept \/ KeyStep
<1> SUFFICES ASSUME [Next]_vars PROVE InputKept \/ KeyStep
  OBVIOUS
<1> USE DEF inputVars, keptVars, threadVars, layerVars, screenVars, guiVars, viewVars, keyVars,
            appVars, gui_update
<1>1. CASE UNCHANGED vars
  BY <1>1 DEF vars, InputKept
<1>2. CASE InputService
  <2>1. CASE furi_thread_flags_set /\ UNCHANGED appVars
    BY <2>1 DEF furi_thread_flags_set, InputKept
  <2> QED
    BY <1>2, <2>1 DEF InputService, KeyStep, Sending
<1>3. CASE GuiThread
  <2>1. CASE furi_thread_flags_wait /\ UNCHANGED appVars
    BY <2>1 DEF furi_thread_flags_wait, TurnEnds, InputKept
  <2>2. CASE queue_is_empty /\ UNCHANGED appVars
    BY <2>2 DEF queue_is_empty, TurnEnds, InputKept
  <2>3. CASE clear_draw_flag /\ UNCHANGED appVars
    BY <2>3 DEF clear_draw_flag, InputKept
  <2>4. CASE gui_redraw /\ UNCHANGED appVars
    BY <2>4 DEF gui_redraw, InputKept
  <2> QED
    BY <1>3, <2>1, <2>2, <2>3, <2>4 DEF GuiThread, KeyStep
<1>4. CASE AppGoesOn
  <2>1. CASE view_dispatcher_add_view
    BY <2>1 DEF view_dispatcher_add_view, InputKept
  <2>2. CASE view_dispatcher_send
    BY <2>2 DEF view_dispatcher_send, gui_view_port_send, InputKept
  <2>3. CASE begin_end
    BY <2>3 DEF begin_end, Begin, InputKept
  <2> QED
    BY <1>4, <2>1, <2>2, <2>3 DEF AppGoesOn, KeyStep
<1>5. ASSUME NEW v, view_dispatcher_switch_to_view(v) PROVE InputKept
  BY <1>5 DEF view_dispatcher_switch_to_view, Shown, InputKept
<1>6. CASE AppStarts
  <2>1. CASE view_dispatcher_attach_to_gui
    BY <2>1 DEF view_dispatcher_attach_to_gui, gui_add_view_port, InputKept
  <2> QED
    BY <1>5, <1>6, <2>1 DEF AppStarts
<1>7. CASE AppChooses
  <2>1. CASE switch_to_none
    BY <2>1 DEF switch_to_none, AtRun, Hidden, InputKept
  <2>2. CASE view_dispatcher_stop
    BY <2>2 DEF view_dispatcher_stop, AtRun, InputKept
  <2>3. CASE begin_call
    BY <2>3 DEF begin_call, AtRun, Begin, InputKept
  <2>4. CASE view_dispatcher_update
    BY <2>4 DEF view_dispatcher_update, InputKept
  <2> QED
    BY <1>5, <1>7, <2>1, <2>2, <2>3, <2>4 DEF AppChooses, KeyStep
<1>8. CASE Others
  <2>1. ASSUME NEW p \in Guests, guest_opens(p), UNCHANGED appVars PROVE InputKept
    BY <2>1 DEF guest_opens, gui_add_view_port, InputKept
  <2>2. CASE gui_set_lockdown /\ UNCHANGED <<inputVars, threadVars, appVars>>
    BY <2>2 DEF gui_set_lockdown, InputKept
  <2>3. CASE gui_direct_draw_acquire /\ UNCHANGED <<inputVars, threadVars, appVars>>
    BY <2>3 DEF gui_direct_draw_acquire, InputKept
  <2>4. CASE gui_direct_draw_release /\ UNCHANGED <<inputVars, threadVars, appVars>>
    BY <2>4 DEF gui_direct_draw_release, InputKept
  <2> QED
    BY <1>8, <2>1, <2>2, <2>3, <2>4 DEF Others, KeyStep
<1> QED
  BY <1>1, <1>2, <1>3, <1>4, <1>6, <1>7, <1>8 DEF Next, Changes

(* A key is sent: what its source holds changes as the event says.  As long *)
(* as software sends nothing it holds nothing.                              *)
LEMMA Sent ==
    ASSUME KeysTyped, Sending
    PROVE  /\ UNCHANGED <<threadVars, layerVars, screenVars>>
           /\ injected' \in Nat /\ (injected' = 0 => injected = 0)
           /\ \E e \in Events, s \in Sources :
                  /\ gui_queue' = Append(gui_queue, e)
                  /\ down' = [down EXCEPT ![s] = OngoingAfter(down[s], e)]
                  /\ s = "software" => injected' # 0 \/ down[s] # {}
<1> DEFINE Done(e, s) ==
               /\ gui_queue' = Append(gui_queue, e)
               /\ down' = [down EXCEPT ![s] = OngoingAfter(down[s], e)]
               /\ s = "software" => injected' # 0 \/ down[s] # {}
<1>1. "hardware" \in Sources /\ "software" \in Sources /\ "hardware" # "software"
  BY DEF Sources
<1>2. ASSUME NEW k \in Keys, press(k) PROVE \E e \in Events, s \in Sources : Done(e, s)
  <2> DEFINE f == Event("Press", k, "hardware")
  <2>1. f \in Events /\ f.type = "Press" /\ f.key = k
    BY <1>1, EventTyped, EventFields
  <2>2. gui_queue' = Append(gui_queue, f)
    BY <1>2 DEF press, Publish
  <2> HIDE DEF f
  <2>3. down' = [down EXCEPT !["hardware"] = OngoingAfter(down["hardware"], f)]
    BY <1>2, <2>1 DEF press, OngoingAfter
  <2>4. Done(f, "hardware")
    BY <1>1, <2>2, <2>3
  <2> QED
    BY <1>1, <2>1, <2>4
<1>3. ASSUME NEW k \in Keys, hold(k) PROVE \E e \in Events, s \in Sources : Done(e, s)
  <2>1. Event("Short", k, "hardware") \in Events
    BY <1>1, EventTyped
  <2>2. Done(Event("Short", k, "hardware"), "hardware")
    BY <1>1, <1>3, EventFields DEF hold, Publish, OngoingAfter, KeysTyped
  <2> QED
    BY <1>1, <2>1, <2>2
<1>4. ASSUME NEW k \in Keys, release(k) PROVE \E e \in Events, s \in Sources : Done(e, s)
  <2> DEFINE f == Event("Release", k, "hardware")
  <2>1. f \in Events /\ f.type = "Release" /\ f.key = k
    BY <1>1, EventTyped, EventFields
  <2>2. gui_queue' = Append(gui_queue, f)
    BY <1>4 DEF release, Publish
  <2> HIDE DEF f
  <2>3. down' = [down EXCEPT !["hardware"] = OngoingAfter(down["hardware"], f)]
    BY <1>4, <2>1 DEF release, OngoingAfter
  <2>4. Done(f, "hardware")
    BY <1>1, <2>2, <2>3
  <2> QED
    BY <1>1, <2>1, <2>4
<1>5. ASSUME NEW k \in Keys, rpc_system_gui_free(k)
      PROVE  \E e \in Events, s \in Sources : Done(e, s)
  <2> DEFINE f == Event("Release", k, "software")
  <2>1. f \in Events /\ f.type = "Release" /\ f.key = k
    BY <1>1, EventTyped, EventFields
  <2>2. gui_queue' = Append(gui_queue, f)
    BY <1>5 DEF rpc_system_gui_free, Publish
  <2> HIDE DEF f
  <2>3. down' = [down EXCEPT !["software"] = OngoingAfter(down["software"], f)]
    BY <1>5, <2>1 DEF rpc_system_gui_free, OngoingAfter
  <2>4. down["software"] # {}
    BY <1>5 DEF rpc_system_gui_free
  <2>5. Done(f, "software")
    BY <2>2, <2>3, <2>4
  <2> QED
    BY <1>1, <2>1, <2>5
<1>6. ASSUME NEW e \in Events, inject(e.type, e.key, e.source)
      PROVE  \E f \in Events, s \in Sources : Done(f, s)
  <2> DEFINE f == Event(e.type, e.key, e.source)
  <2>1. f \in Events /\ f.type = e.type /\ f.key = e.key
    BY EventParts, EventTyped, EventFields
  <2>2. injected' # 0
    BY <1>6 DEF inject, KeysTyped
  <2>3. gui_queue' = Append(gui_queue, f)
    BY <1>6 DEF inject, Publish
  <2>4. down' = [down EXCEPT !["software"] = OngoingAfter(down["software"], f)]
    BY <1>6, <2>1 DEF inject, OngoingAfter
  <2>5. Done(f, "software")
    BY <2>2, <2>3, <2>4
  <2> QED
    BY <1>1, <2>1, <2>5
<1>7. /\ UNCHANGED <<threadVars, layerVars, screenVars>>
      /\ injected' \in Nat /\ (injected' = 0 => injected = 0)
  BY DEF Sending, press, hold, release, rpc_system_gui_free, inject, Publish, KeysTyped
<1> QED
  BY <1>2, <1>3, <1>4, <1>5, <1>6, <1>7 DEF Sending

-----------------------------------------------------------------------------
(* Types                                                                    *)
LEMMA InitTyped == Init => KeysTyped
<1> SUFFICES ASSUME Init PROVE KeysTyped
  OBVIOUS
<1>1. gui_queue \in Seq(Events) /\ input_queue \in Seq(KeyEvents) /\ gui_at # "put"
  BY DEF Init, GuiInit, AppInit
<1>2. down \in [Sources -> SUBSET Keys] /\ injected \in Nat
  BY DEF Init, GuiInit
<1>3. ongoing_input \subseteq Keys /\ ongoing_keys \subseteq Keys
  BY DEF Init, GuiInit, AppInit
<1>4. port_keys \in [Ports -> SUBSET [key : Keys, source : Sources]]
  BY DEF Init, GuiInit
<1>5. held \in [Views -> SUBSET Keys]
  BY DEF Init, AppInit
<1>6. turned \in BOOLEAN /\ left_handed \in BOOLEAN
  BY DEF Init, AppInit
<1> QED
  BY <1>1, <1>2, <1>3, <1>4, <1>5, <1>6 DEF KeysTyped

LEMMA KeptTyped == KeysTyped /\ InputKept => KeysTyped'
  BY DEF KeysTyped, InputKept

LEMMA HandledTyped == KeysTyped /\ handle_input /\ left_handed' \in BOOLEAN => KeysTyped'
<1> SUFFICES ASSUME KeysTyped, handle_input, left_handed' \in BOOLEAN PROVE KeysTyped'
  OBVIOUS
<1> DEFINE e == Head(input_queue)
<1>1. e \in KeyEvents /\ input_queue' \in Seq(KeyEvents)
  BY DEF handle_input, KeysTyped
<1>2. ongoing_keys' \in SUBSET Keys
  BY <1>1, OngoingTyped, EventsKeyed DEF handle_input, KeysTyped
<1>3. held' \in [Views -> SUBSET Keys]
  BY <1>1, OngoingTyped, EventsKeyed DEF handle_input, KeysTyped
<1>4. UNCHANGED <<gui_queue, down, injected, ongoing_input, port_keys, turned, gui_at, gui_event>>
  BY DEF handle_input, guiVars, inputVars, threadVars, keptVars
<1> QED
  BY <1>1, <1>2, <1>3, <1>4 DEF KeysTyped

LEMMA StepTyped == KeysTyped /\ KeyStep => KeysTyped'
<1> SUFFICES ASSUME KeysTyped, KeyStep PROVE KeysTyped'
  OBVIOUS
<1> USE DEF inputVars, keptVars, threadVars, layerVars, screenVars, guiVars, viewVars, keyVars,
            appVars
<1>1. CASE Sending /\ UNCHANGED appVars
  <2>1. PICK e \in Events, s \in Sources :
            /\ gui_queue' = Append(gui_queue, e)
            /\ down' = [down EXCEPT ![s] = OngoingAfter(down[s], e)]
    BY <1>1, Sent
  <2>2. OngoingAfter(down[s], e) \in SUBSET Keys
    BY OngoingTyped, EventsKeyed DEF KeysTyped
  <2>3. down' \in [Sources -> SUBSET Keys] /\ gui_queue' \in Seq(Events)
    BY <2>1, <2>2 DEF KeysTyped
  <2>4. injected' \in Nat /\ UNCHANGED <<threadVars, layerVars, screenVars>>
    BY <1>1, Sent
  <2> QED
    BY <1>1, <2>3, <2>4 DEF KeysTyped
<1>2. ASSUME NEW e \in Events, NEW target \in Ports \cup {NoPort}, view_port_input(e, target)
      PROVE  KeysTyped'
  <2>1. ongoing_input' \in SUBSET Keys
    BY <1>2, OngoingTyped, EventsKeyed DEF view_port_input, gui_input, KeysTyped
  <2>2. port_keys' \in [Ports -> SUBSET [key : Keys, source : Sources]]
    BY <1>2, GivenTyped DEF view_port_input, gui_input, KeysTyped
  <2>3. gui_at' = "put" => gui_event' \in KeyEvents
    BY <1>2, GivenEvent DEF view_port_input, gui_input
  <2> QED
    BY <1>2, <2>1, <2>2, <2>3 DEF view_port_input, gui_input, KeysTyped
<1>3. CASE view_dispatcher_input_callback
  BY <1>3 DEF view_dispatcher_input_callback, KeysTyped
<1>4. CASE view_dispatcher_handle_input
  BY <1>4, HandledTyped DEF view_dispatcher_handle_input, KeysTyped
<1>5. CASE hand_orient_changed
  BY <1>5, HandledTyped DEF hand_orient_changed
<1>6. CASE view_dispatcher_remove_view
  BY <1>6 DEF view_dispatcher_remove_view, KeysTyped
<1>7. CASE set_orientation
  BY <1>7 DEF set_orientation, KeysTyped
<1>8. CASE drain
  <2>1. input_queue' \in Seq(KeyEvents)
    <3>1. input_queue' = input_queue \/ (input_queue # <<>> /\ input_queue' = Tail(input_queue))
      BY <1>8 DEF drain
    <3>2. input_queue \in Seq(KeyEvents)
      BY DEF KeysTyped
    <3>3. input_queue # <<>> => Tail(input_queue) \in Seq(KeyEvents)
      BY <3>2
    <3> QED
      BY <3>1, <3>2, <3>3
  <2>2. ongoing_keys' \in SUBSET Keys
    BY <1>8, OngoingTyped, EventsKeyed DEF drain, KeysTyped
  <2> QED
    BY <1>8, <2>1, <2>2 DEF drain, KeysTyped
<1>9. CASE view_dispatcher_free
  <2>1. /\ UNCHANGED <<down, injected, gui_queue, ongoing_input, gui_at, gui_event, left_handed>>
        /\ input_queue' = <<>> /\ ongoing_keys' = {} /\ turned' = FALSE
    BY <1>9 DEF view_dispatcher_free
  <2>2. port_keys' = [port_keys EXCEPT ![App] = {}] /\ held' = [v \in Views |-> {}]
    BY <1>9 DEF view_dispatcher_free
  <2>3. /\ port_keys' \in [Ports -> SUBSET [key : Keys, source : Sources]]
        /\ held' \in [Views -> SUBSET Keys]
    BY <2>2 DEF KeysTyped
  <2>4. input_queue' \in Seq(KeyEvents)
    BY <2>1
  <2> QED
    BY <2>1, <2>3, <2>4 DEF KeysTyped
<1>10. ASSUME NEW p \in Guests, guest_closes(p), UNCHANGED appVars PROVE KeysTyped'
  BY <1>10 DEF guest_closes, KeysTyped
<1> QED
  BY <1>1, <1>2, <1>3, <1>4, <1>5, <1>6, <1>7, <1>8, <1>9, <1>10 DEF KeyStep


-----------------------------------------------------------------------------
(* What a queue tells of the keys: KeysAfter is OngoingAfter of one event   *)
(* after the other, from either end.                                        *)
LEMMA KeysAfterTyped ==
    ASSUME NEW o, NEW q
    PROVE  KeysAfter(o, q) \in SUBSET Keys
  BY DEF KeysAfter

LEMMA EmptyKeys ==
    ASSUME NEW o \in SUBSET Keys
    PROVE  KeysAfter(o, <<>>) = o
  BY DEF KeysAfter, Pressed, NotReleased

LEMMA NotBoth ==
    ASSUME NEW e, NEW k, IsPress(e, k)
    PROVE  ~IsRelease(e, k)
  BY DEF IsPress, IsRelease

LEMMA AppendKeys ==
    ASSUME NEW S, Keyed(S), NEW o \in SUBSET Keys, NEW q \in Seq(S), NEW e \in S
    PROVE  KeysAfter(o, Append(q, e)) = OngoingAfter(KeysAfter(o, q), e)
<1> DEFINE r == Append(q, e)
           n == Len(q)
<1>1. /\ n \in Nat /\ Len(r) = n + 1 /\ r[n + 1] = e
      /\ \A i \in 1..n : r[i] = q[i]
  OBVIOUS
<1>2. e.type \in {"Press", "Short", "Release"} /\ e.key \in Keys
  BY DEF Keyed
<1> HIDE DEF r
<1>3. ASSUME NEW k \in Keys
      PROVE  k \in KeysAfter(o, r) <=> k \in OngoingAfter(KeysAfter(o, q), e)
  <2>1. ASSUME NEW i \in 1..(n + 1)
        PROVE  NotReleased(r, k, i) <=> NotReleased(q, k, i) /\ ~IsRelease(e, k)
    BY <1>1, <2>1 DEF NotReleased
  <2>2. Pressed(r, k) <=> IsPress(e, k) \/ (Pressed(q, k) /\ ~IsRelease(e, k))
    <3>1. NotReleased(r, k, n + 2)
      BY <1>1 DEF NotReleased
    <3>2. ASSUME NEW i \in 1..n
          PROVE  IsPress(r[i], k) /\ NotReleased(r, k, i + 1) <=>
                     /\ IsPress(q[i], k) /\ NotReleased(q, k, i + 1)
                     /\ ~IsRelease(e, k)
      BY <1>1, <2>1, <3>2
    <3>3. IsPress(r[n + 1], k) /\ NotReleased(r, k, (n + 1) + 1) <=> IsPress(e, k)
      BY <1>1, <3>1
    <3>4. \A i \in 1..Len(r) : i \in 1..n \/ i = n + 1
      BY <1>1
    <3>5. 1..n \subseteq 1..Len(r) /\ n + 1 \in 1..Len(r)
      BY <1>1
    <3>6. Pressed(q, k) <=> \E i \in 1..n : IsPress(q[i], k) /\ NotReleased(q, k, i + 1)
      BY DEF Pressed
    <3>7. Pressed(r, k) <=>
              \/ IsPress(r[n + 1], k) /\ NotReleased(r, k, (n + 1) + 1)
              \/ \E i \in 1..n : IsPress(r[i], k) /\ NotReleased(r, k, i + 1)
      BY <3>4, <3>5 DEF Pressed
    <3> QED
      BY <3>2, <3>3, <3>6, <3>7, NotBoth
  <2>3. NotReleased(r, k, 1) <=> NotReleased(q, k, 1) /\ ~IsRelease(e, k)
    BY <1>1, <2>1
  <2>4. k \in KeysAfter(o, r) <=> IsPress(e, k) \/ (k \in KeysAfter(o, q) /\ ~IsRelease(e, k))
    BY <2>2, <2>3, NotBoth DEF KeysAfter
  <2> QED
    BY <1>2, <2>4, OngoingIs
<1>4. KeysAfter(o, r) \in SUBSET Keys /\ OngoingAfter(KeysAfter(o, q), e) \in SUBSET Keys
  BY KeysAfterTyped, OngoingTyped
<1> QED
  BY <1>3, <1>4 DEF r

LEMMA TailKeys ==
    ASSUME NEW S, Keyed(S), NEW o \in SUBSET Keys, NEW q \in Seq(S), q # <<>>
    PROVE  KeysAfter(OngoingAfter(o, Head(q)), Tail(q)) = KeysAfter(o, q)
<1> DEFINE t == Tail(q)
           e == Head(q)
           p == OngoingAfter(o, e)
<1>1. Len(q) \in Nat \ {0} /\ Len(t) = Len(q) - 1 /\ \A i \in 1..Len(t) : t[i] = q[i + 1]
  OBVIOUS
<1>2. e = q[1] /\ e \in S
  OBVIOUS
<1>3. e.type \in {"Press", "Short", "Release"} /\ e.key \in Keys
  BY <1>2 DEF Keyed
<1> HIDE DEF t, e
<1>4. ASSUME NEW k \in Keys PROVE k \in KeysAfter(p, t) <=> k \in KeysAfter(o, q)
  <2>1. ASSUME NEW i \in Nat \ {0} PROVE NotReleased(t, k, i) <=> NotReleased(q, k, i + 1)
    <3>1. ASSUME NotReleased(t, k, i), NEW j \in (i + 1)..Len(q) PROVE ~IsRelease(q[j], k)
      <4>1. j - 1 \in i..Len(t) /\ t[j - 1] = q[j]
        BY <1>1, <2>1, <3>1
      <4> QED
        BY <3>1, <4>1 DEF NotReleased
    <3>2. ASSUME NotReleased(q, k, i + 1), NEW j \in i..Len(t) PROVE ~IsRelease(t[j], k)
      <4>1. j + 1 \in (i + 1)..Len(q) /\ t[j] = q[j + 1]
        BY <1>1, <2>1, <3>2
      <4> QED
        BY <3>2, <4>1 DEF NotReleased
    <3> QED
      BY <3>1, <3>2 DEF NotReleased
  <2>2. NotReleased(q, k, 1) <=> ~IsRelease(e, k) /\ NotReleased(t, k, 1)
    <3>1. \A j \in 1..Len(q) : j = 1 \/ j \in 2..Len(q)
      BY <1>1
    <3>2. NotReleased(t, k, 1) <=> NotReleased(q, k, 2)
      BY <2>1
    <3> QED
      BY <1>1, <1>2, <3>1, <3>2 DEF NotReleased
  <2>3. Pressed(q, k) <=> (IsPress(e, k) /\ NotReleased(t, k, 1)) \/ Pressed(t, k)
    <3>1. ASSUME NEW i \in 1..Len(q), IsPress(q[i], k), NotReleased(q, k, i + 1)
          PROVE  (IsPress(e, k) /\ NotReleased(t, k, 1)) \/ Pressed(t, k)
      <4>1. CASE i = 1
        BY <1>2, <2>1, <3>1, <4>1
      <4>2. CASE i # 1
        <5>1. i - 1 \in 1..Len(t) /\ t[i - 1] = q[i] /\ i - 1 \in Nat \ {0} /\ (i - 1) + 1 = i
          BY <1>1, <3>1, <4>2
        <5>2. NotReleased(t, k, i) /\ i \in Nat \ {0}
          BY <2>1, <3>1
        <5> QED
          BY <3>1, <5>1, <5>2 DEF Pressed
      <4> QED
        BY <4>1, <4>2
    <3>2. ASSUME NEW i \in 1..Len(t), IsPress(t[i], k), NotReleased(t, k, i + 1)
          PROVE  Pressed(q, k)
      <4>1. i + 1 \in 1..Len(q) /\ IsPress(q[i + 1], k) /\ i + 1 \in Nat \ {0}
        BY <1>1, <3>2
      <4>2. NotReleased(q, k, (i + 1) + 1)
        BY <2>1, <3>2, <4>1
      <4> QED
        BY <4>1, <4>2 DEF Pressed
    <3>3. ASSUME IsPress(e, k), NotReleased(t, k, 1) PROVE Pressed(q, k)
      <4>1. 1 \in 1..Len(q) /\ 1 \in Nat \ {0} /\ IsPress(q[1], k)
        BY <1>1, <1>2, <3>3
      <4>2. NotReleased(q, k, 1 + 1)
        BY <2>1, <3>3, <4>1
      <4> QED
        BY <4>1, <4>2 DEF Pressed
    <3> QED
      BY <3>1, <3>2, <3>3 DEF Pressed
  <2>4. k \in p <=> IsPress(e, k) \/ (k \in o /\ ~IsRelease(e, k))
    BY <1>3, OngoingIs
  <2>5. k \in KeysAfter(p, t) <=> Pressed(t, k) \/ (k \in p /\ NotReleased(t, k, 1))
    BY DEF KeysAfter
  <2>6. k \in KeysAfter(o, q) <=> Pressed(q, k) \/ (k \in o /\ NotReleased(q, k, 1))
    BY DEF KeysAfter
  <2> QED
    BY <2>2, <2>3, <2>4, <2>5, <2>6
<1>5. KeysAfter(p, t) \in SUBSET Keys /\ KeysAfter(o, q) \in SUBSET Keys
  BY KeysAfterTyped
<1> QED
  BY <1>4, <1>5 DEF t, e

-----------------------------------------------------------------------------
(* What the GUI thread knows of the keys, and that software holds nothing   *)
(* before it sends something.                                               *)
GuiKnows == GuiAgrees /\ (injected = 0 => down["software"] = {})

LEMMA InitGuiKnows == Init => GuiKnows
<1> SUFFICES ASSUME Init PROVE GuiKnows
  OBVIOUS
<1>1. KeysAfter({}, <<>>) = {}
  BY EmptyKeys
<1>2. /\ ongoing_input = {} /\ gui_queue = <<>>
      /\ down["software"] = {} /\ down["hardware"] = {}
  BY DEF Init, GuiInit, Sources
<1> QED
  BY <1>1, <1>2 DEF GuiKnows, GuiAgrees

LEMMA SentGuiKnows == KeysTyped /\ GuiKnows /\ Sending => GuiKnows'
<1> SUFFICES ASSUME KeysTyped, GuiKnows, Sending PROVE GuiKnows'
  OBVIOUS
<1>1. PICK e \in Events, s \in Sources :
          /\ gui_queue' = Append(gui_queue, e)
          /\ down' = [down EXCEPT ![s] = OngoingAfter(down[s], e)]
          /\ s = "software" => injected' # 0 \/ down[s] # {}
  BY Sent
<1>2. ongoing_input' = ongoing_input /\ (injected' = 0 => injected = 0)
  BY Sent DEF threadVars, keptVars
<1> DEFINE known == KeysAfter(ongoing_input, gui_queue)
<1>3. KeysAfter(ongoing_input', gui_queue') = OngoingAfter(known, e)
  BY <1>1, <1>2, AppendKeys, EventsKeyed DEF KeysTyped
<1>4. e.type \in {"Press", "Short", "Release"}
  BY EventParts
<1>5. known \subseteq down["hardware"] \cup down["software"]
  BY DEF GuiKnows, GuiAgrees
<1> HIDE DEF known
<1>6. s \in {"hardware", "software"} /\ DOMAIN down = {"hardware", "software"}
  BY DEF Sources, KeysTyped
<1>7. OngoingAfter(known, e) \subseteq down'["hardware"] \cup down'["software"]
  <2>1. SUFFICES ASSUME NEW k, k \in OngoingAfter(known, e)
                 PROVE  k \in down'["hardware"] \/ k \in down'["software"]
    OBVIOUS
  <2>2. down'[s] = OngoingAfter(down[s], e)
    BY <1>1, <1>6
  <2>3. CASE IsPress(e, k)
    BY <1>4, <1>6, <2>2, <2>3, OngoingIs
  <2>4. CASE ~IsPress(e, k)
    <3>1. k \in known /\ ~IsRelease(e, k)
      BY <1>4, <2>1, <2>4, OngoingIs
    <3>2. PICK t \in {"hardware", "software"} : k \in down[t]
      BY <1>5, <3>1
    <3>3. k \in down'[t]
      <4>1. CASE t = s
        BY <1>4, <2>2, <3>1, <3>2, <4>1, OngoingIs
      <4>2. CASE t # s
        BY <1>1, <1>6, <3>2, <4>2
      <4> QED
        BY <4>1, <4>2
    <3> QED
      BY <3>3
  <2> QED
    BY <2>3, <2>4
<1>8. ASSUME injected' = 0
      PROVE  OngoingAfter(known, e) = down'["hardware"] /\ down'["software"] = {}
  <2>1. known = down["hardware"] /\ down["software"] = {}
    BY <1>2, <1>8 DEF GuiKnows, GuiAgrees, known
  <2>2. s = "hardware"
    BY <1>1, <1>6, <1>8, <2>1
  <2> QED
    BY <1>1, <1>6, <2>1, <2>2
<1> QED
  BY <1>3, <1>7, <1>8 DEF GuiKnows, GuiAgrees

LEMMA KeptGuiKnows == GuiKnows /\ InputKept => GuiKnows'
  BY DEF GuiKnows, GuiAgrees, InputKept

LEMMA StepGuiKnows == KeysTyped /\ GuiKnows /\ KeyStep => GuiKnows'
<1> SUFFICES ASSUME KeysTyped, GuiKnows, KeyStep PROVE GuiKnows'
  OBVIOUS
<1> USE DEF inputVars, keptVars, threadVars, guiVars
<1>1. CASE UNCHANGED <<down, injected, gui_queue, ongoing_input>>
  BY <1>1 DEF GuiKnows, GuiAgrees
<1>2. ASSUME NEW e \in Events, NEW target \in Ports \cup {NoPort}, view_port_input(e, target)
      PROVE  GuiKnows'
  <2>1. /\ gui_queue # <<>> /\ gui_queue' = Tail(gui_queue) /\ UNCHANGED <<down, injected>>
        /\ ongoing_input' = OngoingAfter(ongoing_input, Head(gui_queue))
    BY <1>2 DEF view_port_input, gui_input
  <2>2. KeysAfter(ongoing_input, gui_queue)' = KeysAfter(ongoing_input, gui_queue)
    BY <2>1, TailKeys, EventsKeyed DEF KeysTyped
  <2> QED
    BY <2>1, <2>2 DEF GuiKnows, GuiAgrees
<1>3. CASE view_dispatcher_handle_input \/ hand_orient_changed
  BY <1>1, <1>3 DEF view_dispatcher_handle_input, hand_orient_changed, handle_input
<1> QED
  BY <1>1, <1>2, <1>3, SentGuiKnows
  DEF KeyStep, view_dispatcher_input_callback, view_dispatcher_remove_view, set_orientation,
      drain, view_dispatcher_free, guest_closes

-----------------------------------------------------------------------------
(* What the dispatcher knows of the keys of its view port, whether or not   *)
(* this is in the GUI's list.                                               *)
OnTheirWay == IF gui_at = "put" THEN Append(input_queue, gui_event) ELSE input_queue

KeysOf(given) == {KeyOf(x) : x \in given}

AppKnows == ~sacrificed => KeysAfter(ongoing_keys, OnTheirWay) = KeysOf(port_keys[App])

LEMMA InitAppKnows == Init => AppKnows
<1> SUFFICES ASSUME Init PROVE AppKnows
  OBVIOUS
<1>1. KeysAfter({}, <<>>) = {}
  BY EmptyKeys
<1>2. ongoing_keys = {} /\ input_queue = <<>> /\ gui_at = "wait" /\ port_keys[App] = {}
  BY ViewDispatcherAssumption DEF Init, GuiInit, AppInit
<1>3. KeysOf({}) = {}
  BY DEF KeysOf
<1> QED
  BY <1>1, <1>2, <1>3 DEF AppKnows, OnTheirWay

LEMMA KeptAppKnows == AppKnows /\ InputKept => AppKnows'
<1> SUFFICES ASSUME AppKnows, InputKept PROVE AppKnows'
  OBVIOUS
<1>1. OnTheirWay' = OnTheirWay
  BY DEF OnTheirWay, InputKept
<1> QED
  BY <1>1 DEF AppKnows, InputKept, KeysOf, KeyOf, KeyIn

(* A release takes a key away, or a press adds one, and the same to what    *)
(* the keys stand for, as long as no event clashes with them.               *)
LEMMA TurnedApart ==
    ASSUME NEW o \in SUBSET [key : Keys, source : Sources], NEW e \in Events,
           \A x \in o : ~Clash(e, x),
           NEW g, g = [type |-> e.type, key |-> KeyOf(e)]
    PROVE  KeysOf(GivenAfter(o, e)) = OngoingAfter(KeysOf(o), g)
<1>1. /\ e.type \in {"Press", "Short", "Release"}
      /\ g.type = e.type /\ g.key = KeyOf(e)
  BY EventParts
<1>2. \A x \in o : KeyOf(e) = KeyOf(x) <=> e.key = x.key
  BY DEF Clash
<1>3. CASE e.type = "Press"
  <2>1. KeyOf([key |-> e.key, source |-> e.source]) = KeyOf(e)
    BY DEF KeyOf, KeyIn
  <2> QED
    BY <1>1, <1>3, <2>1 DEF GivenAfter, OngoingAfter, KeysOf
<1>4. CASE e.type = "Release"
  BY <1>1, <1>2, <1>4 DEF GivenAfter, OngoingAfter, KeysOf
<1>5. CASE e.type = "Short"
  BY <1>1, <1>5 DEF GivenAfter, OngoingAfter, KeysOf
<1> QED
  BY <1>1, <1>3, <1>4, <1>5

LEMMA GivenAppKnows ==
    ASSUME KeysTyped, AppKnows, ~sacrificed',
           NEW e \in Events, NEW target \in Ports \cup {NoPort}, view_port_input(e, target)
    PROVE  AppKnows'
<1> USE DEF keyVars, appVars
<1> DEFINE keys == KeysOf(port_keys[App])
<1>1. /\ ~sacrificed
      /\ UNCHANGED <<ongoing_keys, input_queue, turned, left_handed>>
      /\ gui_at = "get"
  BY DEF view_port_input, gui_input
<1>2. KeysAfter(ongoing_keys, input_queue) = keys
  BY <1>1 DEF AppKnows, OnTheirWay
<1>3. port_keys'[App] = IF target = App THEN GivenAfter(port_keys[App], e) ELSE port_keys[App]
  BY ViewDispatcherAssumption DEF view_port_input, gui_input
<1>4. KeysOf(port_keys[App])' = KeysOf(port_keys'[App])
  BY <1>1 DEF KeysOf, KeyOf, KeyIn
<1>5. CASE target # App
  <2>1. gui_at' = "get"
    BY <1>1, <1>5 DEF view_port_input
  <2>2. OnTheirWay' = input_queue
    BY <1>1, <2>1 DEF OnTheirWay
  <2> QED
    BY <1>1, <1>2, <1>3, <1>4, <1>5, <2>2 DEF AppKnows
<1>6. CASE target = App
  <2> DEFINE g == [type |-> e.type, key |-> KeyOf(e)]
  <2>1. OnTheirWay' = Append(input_queue, g)
    BY <1>1, <1>6 DEF OnTheirWay, view_port_input
  <2>2. \A x \in port_keys[App] : ~Clash(e, x)
    BY <1>6 DEF view_port_input
  <2>3. port_keys[App] \in SUBSET [key : Keys, source : Sources]
    BY ViewDispatcherAssumption DEF KeysTyped
  <2>4. KeysOf(port_keys'[App]) = OngoingAfter(keys, g)
    BY <1>3, <1>6, <2>2, <2>3, TurnedApart
  <2>5. g \in KeyEvents
    BY GivenEvent
  <2> HIDE DEF g
  <2>6. KeysAfter(ongoing_keys, Append(input_queue, g)) = OngoingAfter(keys, g)
    BY <1>2, <2>5, AppendKeys, EventsKeyed DEF KeysTyped
  <2> QED
    BY <1>1, <1>4, <2>1, <2>4, <2>6 DEF AppKnows
<1> QED
  BY <1>5, <1>6

(* The dispatcher takes an event from its queue.                            *)
LEMMA TakenAppKnows ==
    ASSUME KeysTyped, AppKnows, ~sacrificed,
           input_queue # <<>>, input_queue' = Tail(input_queue),
           ongoing_keys' = OngoingAfter(ongoing_keys, Head(input_queue)),
           UNCHANGED <<gui_at, gui_event>>,
           KeysOf(port_keys[App])' = KeysOf(port_keys[App])
    PROVE  AppKnows'
<1>1. /\ OnTheirWay \in Seq(KeyEvents) /\ OnTheirWay # <<>>
      /\ Head(OnTheirWay) = Head(input_queue) /\ OnTheirWay' = Tail(OnTheirWay)
  <2>1. CASE gui_at = "put"
    BY <2>1 DEF OnTheirWay, KeysTyped
  <2>2. CASE gui_at # "put"
    BY <2>2 DEF OnTheirWay, KeysTyped
  <2> QED
    BY <2>1, <2>2
<1>2. ongoing_keys \in SUBSET Keys
  BY DEF KeysTyped
<1>3. KeysAfter(ongoing_keys', OnTheirWay') = KeysAfter(ongoing_keys, OnTheirWay)
  BY <1>1, <1>2, TailKeys, EventsKeyed
<1> QED
  BY <1>3 DEF AppKnows

LEMMA StepAppKnows == KeysTyped /\ AppKnows /\ KeyStep => AppKnows'
<1> SUFFICES ASSUME KeysTyped, AppKnows, KeyStep PROVE AppKnows'
  OBVIOUS
<1> USE DEF inputVars, keptVars, threadVars, layerVars, screenVars, guiVars, viewVars, keyVars,
            appVars
<1>1. SUFFICES ASSUME ~sacrificed' PROVE AppKnows'
  BY DEF AppKnows
<1>2. ASSUME OnTheirWay' = OnTheirWay,
             UNCHANGED <<sacrificed, ongoing_keys, turned, left_handed, port_keys[App]>>
      PROVE  AppKnows'
  BY <1>2 DEF AppKnows, KeysOf, KeyOf, KeyIn
<1>3. CASE Sending /\ UNCHANGED appVars
  <2>1. UNCHANGED <<port_keys, gui_at>>
    BY <1>3, Sent
  <2> QED
    BY <1>2, <1>3, <2>1 DEF OnTheirWay
<1>4. ASSUME NEW e \in Events, NEW target \in Ports \cup {NoPort}, view_port_input(e, target)
      PROVE  AppKnows'
  BY <1>1, <1>4, GivenAppKnows
<1>5. CASE view_dispatcher_input_callback
  BY <1>2, <1>5 DEF view_dispatcher_input_callback, OnTheirWay
<1>6. CASE view_dispatcher_handle_input
  <2>1. KeysOf(port_keys[App])' = KeysOf(port_keys[App])
    BY <1>6 DEF view_dispatcher_handle_input, handle_input, KeysOf, KeyOf, KeyIn
  <2> QED
    BY <1>1, <1>6, <2>1, TakenAppKnows DEF view_dispatcher_handle_input, handle_input
<1>7. CASE hand_orient_changed
  <2>1. /\ ~sacrificed /\ UNCHANGED <<port_keys, turned>>
        /\ \A x \in port_keys[App] : KeyIn(left_handed', turned, x) = KeyOf(x)
    BY <1>1, <1>7 DEF hand_orient_changed, handle_input
  <2>2. KeysOf(port_keys[App])' = {KeyIn(left_handed', turned, x) : x \in port_keys[App]}
    BY <2>1 DEF KeysOf, KeyOf
  <2>3. KeysOf(port_keys[App])' = KeysOf(port_keys[App])
    BY <2>1, <2>2 DEF KeysOf
  <2> QED
    BY <1>7, <2>1, <2>3, TakenAppKnows DEF hand_orient_changed, handle_input
<1>8. CASE view_dispatcher_remove_view
  BY <1>2, <1>8 DEF view_dispatcher_remove_view, OnTheirWay
<1>9. ASSUME input_queue' = <<>>, ongoing_keys' = {}, gui_at' # "put", port_keys'[App] = {}
      PROVE  AppKnows'
  <2>1. KeysOf(port_keys[App])' = {}
    BY <1>9 DEF KeysOf
  <2>2. KeysAfter({}, <<>>) = {}
    BY EmptyKeys
  <2> QED
    BY <1>9, <2>1, <2>2 DEF AppKnows, OnTheirWay
<1>10. CASE set_orientation
  BY <1>1, <1>9, <1>10 DEF set_orientation, Calling, GuiLockFree
<1>11. CASE drain
  <2>1. KeysOf(port_keys[App])' = KeysOf(port_keys[App]) /\ ~sacrificed
    BY <1>1, <1>11 DEF drain, KeysOf, KeyOf, KeyIn
  <2>2. CASE ongoing_keys = {}
    BY <1>2, <1>11, <2>2 DEF drain, OnTheirWay
  <2>3. CASE ongoing_keys # {}
    BY <1>11, <2>1, <2>3, TakenAppKnows DEF drain
  <2> QED
    BY <2>2, <2>3
<1>12. CASE view_dispatcher_free
  <2>1. port_keys'[App] = {}
    BY <1>12, ViewDispatcherAssumption DEF view_dispatcher_free, KeysTyped
  <2>2. input_queue' = <<>> /\ ongoing_keys' = {} /\ gui_at' # "put"
    BY <1>12 DEF view_dispatcher_free, Calling, GuiLockFree
  <2> QED
    BY <1>9, <2>1, <2>2
<1>13. ASSUME NEW p \in Guests, guest_closes(p), UNCHANGED appVars PROVE AppKnows'
  <2>1. port_keys'[App] = port_keys[App]
    BY <1>13, ViewDispatcherAssumption DEF guest_closes, KeysTyped
  <2> QED
    BY <1>2, <1>13, <2>1 DEF guest_closes, OnTheirWay
<1> QED
  BY <1>3, <1>4, <1>5, <1>6, <1>7, <1>8, <1>10, <1>11, <1>12, <1>13 DEF KeyStep

-----------------------------------------------------------------------------
(* View ports                                                               *)
LEMMA InitPorts == Init => PortSeesRelease
  BY DEF Init, GuiInit, PortSeesRelease

LEMMA KeptPorts == PortSeesRelease /\ InputKept => PortSeesRelease'
  BY DEF PortSeesRelease, InputKept

(* The keys of a port are forgotten together with the port.                 *)
LEMMA RemovedPort ==
    ASSUME KeysTyped, PortSeesRelease, NEW p \in Ports, gui_remove_view_port(p),
           port_keys' = [port_keys EXCEPT ![p] = {}], robbed' = robbed \ {p},
           ongoing_input' = ongoing_input
    PROVE  PortSeesRelease'
<1> SUFFICES ASSUME NEW q \in Ports \ robbed', port_keys'[q] # {}
             PROVE  /\ q = ongoing_input_view_port'
                    /\ \A x \in port_keys'[q] : x.key \in ongoing_input'
  BY DEF PortSeesRelease
<1>1. q # p /\ port_keys'[q] = port_keys[q] /\ q \notin robbed
  BY DEF KeysTyped
<1>2. q = ongoing_input_view_port /\ \A x \in port_keys[q] : x.key \in ongoing_input
  BY <1>1 DEF PortSeesRelease
<1> QED
  BY <1>1, <1>2 DEF gui_remove_view_port, PortForgotten

(* What a view port holds stays among the keys that are down, if it is told *)
(* of the event or the event is no release.                                 *)
LEMMA GivenKeys ==
    ASSUME NEW o, NEW given, NEW e \in Events, \A x \in given : x.key \in o
    PROVE  /\ \A x \in GivenAfter(given, e) : x.key \in OngoingAfter(o, e)
           /\ e.type # "Release" => \A x \in given : x.key \in OngoingAfter(o, e)
  BY EventParts DEF GivenAfter, OngoingAfter

LEMMA InputPorts ==
    ASSUME KeysTyped, PortSeesRelease,
           NEW e \in Events, NEW target \in Ports \cup {NoPort}, gui_input(e, target)
    PROVE  PortSeesRelease'
<1> DEFINE given == Complementary(ongoing_input, e)
                      /\ ~(direct_draw /\ ongoing_input_view_port = NoPort)
           owner == ongoing_input_view_port
<1>1. /\ ongoing_input' = OngoingAfter(ongoing_input, e)
      /\ port_keys' = [p \in Ports |->
             IF p = target THEN GivenAfter(port_keys[p], e) ELSE port_keys[p]]
      /\ robbed' = {p \in Ports : /\ port_keys'[p] # {}
                                  /\ p \in robbed \/ Robs(e, ongoing_input, owner', p)}
      /\ ~given => target = NoPort /\ owner' = owner
      /\ given => /\ owner' = IF FirstPress(ongoing_input, e) THEN Top ELSE owner
                  /\ target = Target(Top, owner', e, NoPort)
  BY DEF gui_input
<1>2. e.type \in {"Press", "Short", "Release"} /\ e.key \in Keys
  BY EventParts
<1>3. target = NoPort \/ target = owner'
  BY <1>1 DEF Target
<1> SUFFICES ASSUME NEW p \in Ports, p \notin robbed', port_keys'[p] # {}
             PROVE  p = owner' /\ \A x \in port_keys'[p] : x.key \in ongoing_input'
  BY DEF PortSeesRelease
<1>4. p \notin robbed /\ ~Robs(e, ongoing_input, owner', p)
  BY <1>1
<1>5. port_keys[p] # {} => p = owner /\ \A x \in port_keys[p] : x.key \in ongoing_input
  BY <1>4 DEF PortSeesRelease
<1>6. \A x \in port_keys[p] : x.key \in ongoing_input
  BY <1>5
<1>7. CASE p = target
  <2>1. port_keys'[p] = GivenAfter(port_keys[p], e)
    BY <1>1, <1>7
  <2>2. \A x \in GivenAfter(port_keys[p], e) : x.key \in OngoingAfter(ongoing_input, e)
    BY <1>6, GivenKeys
  <2> QED
    BY <1>1, <1>3, <1>7, <2>1, <2>2, GuiAssumption
<1>8. CASE p # target
  <2>1. port_keys'[p] = port_keys[p] /\ p = owner
    BY <1>1, <1>5, <1>8
  <2>2. CASE FirstPress(ongoing_input, e)
    <3>1. e.type = "Press" /\ OngoingAfter(ongoing_input, e) = {e.key}
      BY <2>2 DEF FirstPress
    <3>2. e.key \in ongoing_input
      <4>1. ongoing_input # {}
        BY <1>6, <2>1
      <4> QED
        BY <3>1, <4>1 DEF OngoingAfter
    <3>3. p = owner'
      BY <1>4, <3>1, <3>2 DEF Robs
    <3>4. \A x \in port_keys[p] : x.key \in OngoingAfter(ongoing_input, e)
      BY <1>6, <3>1, GivenKeys
    <3> QED
      BY <1>1, <2>1, <3>3, <3>4
  <2>3. CASE ~FirstPress(ongoing_input, e)
    <3>1. owner' = owner
      BY <1>1, <2>3
    <3>2. target = NoPort /\ owner # NoPort
      BY <1>3, <1>8, <2>1, <3>1, GuiAssumption
    <3>3. e.type # "Release"
      <4>1. given => target = Target(Top, owner, e, NoPort)
        BY <1>1, <3>1
      <4>2. e.type = "Release" => given
        BY <3>2 DEF Complementary
      <4> QED
        BY <3>2, <4>1, <4>2 DEF Target
    <3>4. \A x \in port_keys[p] : x.key \in OngoingAfter(ongoing_input, e)
      BY <1>6, <3>3, GivenKeys
    <3> QED
      BY <1>1, <2>1, <3>1, <3>4
  <2> QED
    BY <2>2, <2>3
<1> QED
  BY <1>7, <1>8

LEMMA StepPorts == KeysTyped /\ PortSeesRelease /\ KeyStep => PortSeesRelease'
<1> SUFFICES ASSUME KeysTyped, PortSeesRelease, KeyStep PROVE PortSeesRelease'
  OBVIOUS
<1> USE DEF inputVars, keptVars, threadVars, layerVars, screenVars, guiVars, viewVars, keyVars,
            appVars
<1>1. CASE UNCHANGED <<port_keys, robbed, ongoing_input, ongoing_input_view_port>>
  BY <1>1 DEF PortSeesRelease
<1>2. CASE Sending
  BY <1>1, <1>2, Sent
<1>3. ASSUME NEW e \in Events, NEW target \in Ports \cup {NoPort}, view_port_input(e, target)
      PROVE  PortSeesRelease'
  BY <1>3, InputPorts DEF view_port_input
<1>4. CASE view_dispatcher_remove_view
  BY <1>1, <1>4 DEF view_dispatcher_remove_view, Hidden
<1>5. CASE set_orientation
  BY <1>1, <1>5 DEF set_orientation, Shown
<1>6. CASE view_dispatcher_free
  BY <1>6, RemovedPort, ViewDispatcherAssumption DEF view_dispatcher_free
<1>7. ASSUME NEW p \in Guests, guest_closes(p) PROVE PortSeesRelease'
  BY <1>7, RemovedPort, ViewDispatcherAssumption DEF guest_closes
<1>8. CASE view_dispatcher_handle_input \/ hand_orient_changed
  BY <1>1, <1>8 DEF view_dispatcher_handle_input, hand_orient_changed, handle_input
<1> QED
  BY <1>1, <1>2, <1>3, <1>4, <1>5, <1>6, <1>7, <1>8
  DEF KeyStep, view_dispatcher_input_callback, drain

-----------------------------------------------------------------------------
(* Views: what ViewSeesRelease says of the views that are there, said of    *)
(* all, and that a dispatcher starts without keys.                          *)
ViewKeys ==
    /\ app_at = "off" => \A v \in Views : held[v] = {}
    /\ app_at = "run" /\ ~sacrificed =>
           \A v \in Views \ robbed_views : held[v] # {} =>
               v = ongoing_input_view /\ held[v] \subseteq ongoing_keys

LEMMA InitViews == Init => ViewKeys
  BY DEF Init, AppInit, ViewKeys

LEMMA KeptViews == KeysTyped /\ ViewKeys /\ InputKept => ViewKeys'
  BY DEF KeysTyped, ViewKeys, InputKept

LEMMA HeldKeys ==
    ASSUME NEW o \in SUBSET Keys, NEW h \in SUBSET Keys, h \subseteq o, NEW e \in KeyEvents
    PROVE  /\ OngoingAfter(h, e) \subseteq OngoingAfter(o, e)
           /\ e.type # "Release" => h \subseteq OngoingAfter(o, e)
  BY DEF OngoingAfter

LEMMA InputViews ==
    ASSUME KeysTyped, ViewKeys, handle_input, sacrificed => sacrificed'
    PROVE  ViewKeys'
<1> DEFINE e == Head(input_queue)
           first == FirstPress(ongoing_keys, e)
           given == Complementary(ongoing_keys, e)
           owner == IF first THEN current_view ELSE ongoing_input_view
<1>1. /\ app_at = "run" /\ app_at' = "run"
      /\ ongoing_keys' = OngoingAfter(ongoing_keys, e)
      /\ given => /\ ongoing_input_view' = owner
                  /\ held' = [v \in Views |-> IF v = ViewFor(current_view, owner, e)
                                              THEN OngoingAfter(held[v], e) ELSE held[v]]
                  /\ robbed_views' = {v \in Views :
                         /\ held'[v] # {}
                         /\ v \in robbed_views \/ Robs(e, ongoing_keys, owner, v)}
      /\ ~given => UNCHANGED <<ongoing_input_view, held, robbed_views>>
  BY DEF handle_input, AtRun
<1>2. e \in KeyEvents
  BY DEF handle_input, KeysTyped
<1>3. SUFFICES ASSUME ~sacrificed, NEW v \in Views, v \notin robbed_views', held'[v] # {}
               PROVE  v = ongoing_input_view' /\ held'[v] \subseteq ongoing_keys'
  BY <1>1 DEF ViewKeys
<1>4. v \notin robbed_views /\ (given => ~Robs(e, ongoing_keys, owner, v))
  BY <1>1, <1>3
<1>5. held[v] # {} => v = ongoing_input_view /\ held[v] \subseteq ongoing_keys
  BY <1>1, <1>3, <1>4 DEF ViewKeys
<1>6. ongoing_keys \in SUBSET Keys /\ held[v] \in SUBSET Keys /\ held[v] \subseteq ongoing_keys
  BY <1>5 DEF KeysTyped
<1> HIDE DEF e
<1>7. CASE ~given
  <2>1. e.type = "Short"
    BY <1>7 DEF Complementary
  <2> QED
    BY <1>1, <1>3, <1>5, <1>7, <2>1 DEF OngoingAfter
<1>8. CASE given /\ v = ViewFor(current_view, owner, e)
  <2>1. held'[v] = OngoingAfter(held[v], e)
    BY <1>1, <1>8
  <2>2. v = owner
    BY <1>8, ViewDispatcherAssumption DEF ViewFor, Target
  <2>3. OngoingAfter(held[v], e) \subseteq OngoingAfter(ongoing_keys, e)
    BY <1>2, <1>6, HeldKeys
  <2> QED
    BY <1>1, <1>8, <2>1, <2>2, <2>3
<1>9. CASE given /\ v # ViewFor(current_view, owner, e)
  <2>1. held'[v] = held[v] /\ v = ongoing_input_view
    BY <1>1, <1>3, <1>5, <1>9
  <2>2. CASE first
    <3>1. e.type = "Press" /\ OngoingAfter(ongoing_keys, e) = {e.key}
      BY <2>2 DEF FirstPress
    <3>2. e.key \in ongoing_keys
      <4>1. ongoing_keys # {}
        BY <1>3, <1>6, <2>1
      <4> QED
        BY <3>1, <4>1 DEF OngoingAfter
    <3>3. v = owner
      BY <1>4, <1>9, <3>1, <3>2 DEF Robs
    <3>4. held[v] \subseteq OngoingAfter(ongoing_keys, e)
      BY <1>2, <1>6, <3>1, HeldKeys
    <3> QED
      BY <1>1, <1>9, <2>1, <3>3, <3>4
  <2>3. CASE ~first
    <3>1. owner = ongoing_input_view
      BY <2>3
    <3>2. e.type # "Release"
      BY <1>9, <2>1, <3>1 DEF ViewFor, Target
    <3>3. held[v] \subseteq OngoingAfter(ongoing_keys, e)
      BY <1>2, <1>6, <3>2, HeldKeys
    <3> QED
      BY <1>1, <1>9, <2>1, <3>1, <3>3
  <2> QED
    BY <2>2, <2>3
<1> QED
  BY <1>7, <1>8, <1>9

LEMMA StepViews == KeysTyped /\ AppKnows /\ ViewKeys /\ KeyStep => ViewKeys'
<1> SUFFICES ASSUME KeysTyped, AppKnows, ViewKeys, KeyStep PROVE ViewKeys'
  OBVIOUS
<1> USE DEF viewVars, keyVars, appVars
<1>1. ASSUME UNCHANGED <<app_at, held, robbed_views, ongoing_input_view, ongoing_keys>>,
             sacrificed => sacrificed'
      PROVE  ViewKeys'
  BY <1>1 DEF ViewKeys
<1>2. CASE view_dispatcher_handle_input \/ hand_orient_changed
  <2>1. handle_input
    BY <1>2 DEF view_dispatcher_handle_input, hand_orient_changed
  <2>2. sacrificed => sacrificed'
    <3>1. CASE view_dispatcher_handle_input
      BY <3>1 DEF view_dispatcher_handle_input
    <3>2. CASE hand_orient_changed
      BY <3>2 DEF hand_orient_changed
    <3> QED
      BY <1>2, <3>1, <3>2
  <2> QED
    BY <2>1, <2>2, InputViews
<1>3. CASE view_dispatcher_remove_view
  <2>1. /\ held' = [held EXCEPT ![call.view] = {}]
        /\ robbed_views' = robbed_views \ {call.view}
        /\ ViewForgotten(call.view)
        /\ UNCHANGED <<ongoing_keys, sacrificed>>
        /\ app_at' = app_at \/ app_at' = "drain"
    BY <1>3 DEF view_dispatcher_remove_view, Hidden
  <2>2. \A v \in Views : held'[v] = IF v = call.view THEN {} ELSE held[v]
    BY <2>1 DEF KeysTyped
  <2> QED
    BY <2>1, <2>2 DEF ViewKeys, ViewForgotten
<1>4. CASE set_orientation
  <2>1. UNCHANGED <<app_at, held, robbed_views, ongoing_input_view>> /\ ongoing_keys' = {}
    BY <1>4 DEF set_orientation
  <2>2. ASSUME ~sacrificed' PROVE ~sacrificed /\ ongoing_keys = {}
    <3>1. /\ ~sacrificed /\ input_queue = <<>> /\ port_keys[App] = {} /\ gui_at # "put"
      BY <1>4, <2>2 DEF set_orientation, Calling, GuiLockFree
    <3>2. KeysAfter(ongoing_keys, <<>>) = {}
      BY <3>1 DEF AppKnows, OnTheirWay, KeysOf
    <3> QED
      BY <3>1, <3>2, EmptyKeys DEF KeysTyped
  <2> QED
    BY <2>1, <2>2 DEF ViewKeys, KeysTyped
<1>5. CASE drain
  <2>1. /\ app_at = "drain" /\ app_at' \in {"drain", "end"}
    BY <1>5 DEF drain
  <2> QED
    BY <2>1 DEF ViewKeys
<1>6. CASE view_dispatcher_free
  <2>1. app_at' = "off" /\ held' = [v \in Views |-> {}]
    BY <1>6 DEF view_dispatcher_free
  <2> QED
    BY <2>1 DEF ViewKeys
<1>7. ASSUME NEW e, NEW target, view_port_input(e, target) PROVE ViewKeys'
  <2>1. sacrificed => sacrificed'
    BY <1>7 DEF view_port_input
  <2> QED
    BY <1>1, <1>7, <2>1 DEF view_port_input
<1>8. CASE view_dispatcher_input_callback
  BY <1>1, <1>8 DEF view_dispatcher_input_callback
<1>9. CASE UNCHANGED appVars
  BY <1>1, <1>9
<1> QED
  BY <1>2, <1>3, <1>4, <1>5, <1>6, <1>7, <1>8, <1>9 DEF KeyStep

-----------------------------------------------------------------------------
(* The invariant that the theorems rest on.                                 *)
KeyInv == KeysTyped /\ GuiKnows /\ PortSeesRelease /\ AppKnows /\ ViewKeys

LEMMA KeyInvAlways == Spec => []KeyInv
<1>1. Init => KeyInv
  BY InitTyped, InitGuiKnows, InitPorts, InitAppKnows, InitViews DEF KeyInv
<1>2. KeyInv /\ [Next]_vars => KeyInv'
  <2> SUFFICES ASSUME KeyInv, [Next]_vars PROVE KeyInv'
    OBVIOUS
  <2>1. CASE InputKept
    BY <2>1, KeptTyped, KeptGuiKnows, KeptPorts, KeptAppKnows, KeptViews DEF KeyInv
  <2>2. CASE KeyStep
    BY <2>2, StepTyped, StepGuiKnows, StepPorts, StepAppKnows, StepViews DEF KeyInv
  <2> QED
    BY <2>1, <2>2, Steps
<1> QED
  BY <1>1, <1>2, PTL DEF Spec

(* A view port that got a press owns the keys until it got the release,     *)
(* whoever else comes, goes, is shown or is locked, whatever software       *)
(* sends, as long as the owner is not moved by a press of a key that is     *)
(* down (gui.c:310).                                                        *)
THEOREM PortsSeeReleases == Spec => []PortSeesRelease
<1>1. KeyInv => PortSeesRelease
  BY DEF KeyInv
<1> QED
  BY <1>1, KeyInvAlways, PTL

(* The views of a dispatcher; one that is being added is not there yet.     *)
ViewsTyped == views \subseteq Views /\ (call.op = "add" => call.view \in Views)

LEMMA ViewsTypedAlways == Spec => []ViewsTyped
<1>1. Init => ViewsTyped
  BY DEF Init, AppInit, ViewsTyped, NoCall
<1>2. ASSUME ViewsTyped, [Next]_vars PROVE ViewsTyped'
  <2> USE DEF guiVars, viewVars, keyVars, appVars
  <2>1. CASE UNCHANGED <<views, call>>
    BY <1>2, <2>1 DEF ViewsTyped
  <2>2. ASSUME call' = NoCall, views' \subseteq Views PROVE ViewsTyped'
    BY <2>2 DEF ViewsTyped, NoCall
  <2>3. ASSUME NEW op, NEW v, Begin(op, v), op = "add" => v \in Views PROVE ViewsTyped'
    BY <1>2, <2>3 DEF Begin, Call, ViewsTyped
  <2>4. CASE AppGoesOn
    <3>1. CASE view_dispatcher_add_view
      BY <1>2, <2>2, <3>1 DEF view_dispatcher_add_view, Calling, ViewsTyped
    <3>2. CASE view_dispatcher_remove_view
      BY <1>2, <2>2, <3>2 DEF view_dispatcher_remove_view, Calling, ViewsTyped
    <3>3. CASE set_orientation
      BY <1>2, <2>2, <3>3 DEF set_orientation, Calling, ViewsTyped
    <3>4. CASE view_dispatcher_send
      BY <1>2, <2>2, <3>4 DEF view_dispatcher_send, Calling, ViewsTyped
    <3>5. CASE begin_end
      BY <1>2, <2>3, <3>5 DEF begin_end, ViewsTyped
    <3>6. CASE view_dispatcher_free
      BY <2>2, <3>6 DEF view_dispatcher_free, Calling
    <3> QED
      BY <2>1, <2>4, <3>1, <3>2, <3>3, <3>4, <3>5, <3>6
      DEF AppGoesOn, view_dispatcher_handle_input, handle_input, drain
  <2>5. ASSUME NEW v \in Views, view_dispatcher_switch_to_view(v) PROVE ViewsTyped'
    BY <1>2, <2>5 DEF view_dispatcher_switch_to_view, Call, ViewsTyped
  <2>6. CASE AppStarts
    BY <1>2, <2>5, <2>6 DEF AppStarts, view_dispatcher_attach_to_gui, ViewsTyped
  <2>7. CASE AppChooses
    <3>1. CASE begin_call
      BY <1>2, <2>3, <3>1 DEF begin_call, ViewsTyped
    <3> QED
      BY <2>1, <2>5, <2>7, <3>1
      DEF AppChooses, switch_to_none, view_dispatcher_stop, view_dispatcher_update,
          hand_orient_changed, handle_input
  <2> QED
    BY <1>2, <2>1, <2>4, <2>6, <2>7
    DEF vars, Next, Changes, InputService, GuiThread, Others, view_port_input,
        view_dispatcher_input_callback
<1> QED
  BY <1>1, <1>2, PTL DEF Spec

(* The same of the views of an application while its dispatcher runs,       *)
(* across the queue and across switches of view, as long as no key that is  *)
(* down came to stand for another (a turn of the screen or of the hand, or  *)
(* software that sends what a button stands for) or was pressed again.      *)
THEOREM ViewsSeeReleases == Spec => []ViewSeesRelease
<1>1. KeyInv /\ ViewsTyped => ViewSeesRelease
  BY DEF KeyInv, ViewKeys, ViewsTyped, ViewSeesRelease
<1> QED
  BY <1>1, KeyInvAlways, ViewsTypedAlways, PTL

-----------------------------------------------------------------------------
(* Wake-up.  The flag is cleared before the queue is read; drawing clears   *)
(* only its own flag.                                                       *)
LEMMA NoLostInputStep == NoLostInput /\ [Next]_vars => NoLostInput'
<1> SUFFICES ASSUME NoLostInput, [Next]_vars PROVE NoLostInput'
  OBVIOUS
<1> USE DEF inputVars, keptVars, threadVars, layerVars, screenVars, guiVars
<1>1. CASE UNCHANGED <<gui_queue, gui_at, telling>> /\ ("Input" \in flags => "Input" \in flags')
  BY <1>1 DEF NoLostInput
<1>2. ASSUME UNCHANGED <<gui_queue, gui_at, telling>>, UNCHANGED screenVars \/ gui_update
      PROVE  NoLostInput'
  BY <1>1, <1>2 DEF gui_update
<1>3. CASE UNCHANGED vars
  BY <1>2, <1>3 DEF vars
<1>4. CASE InputService
  BY <1>4
  DEF InputService, press, hold, release, rpc_system_gui_free, inject, Publish,
      furi_thread_flags_set, NoLostInput
<1>5. CASE GuiThread
  <2>1. CASE furi_thread_flags_wait
    BY <2>1 DEF furi_thread_flags_wait, TurnEnds, NoLostInput
  <2>2. CASE queue_is_empty
    BY <2>2 DEF queue_is_empty, TurnEnds, NoLostInput
  <2>3. CASE clear_draw_flag
    BY <2>3 DEF clear_draw_flag, NoLostInput
  <2>4. CASE gui_redraw
    BY <2>4 DEF gui_redraw, NoLostInput
  <2>5. ASSUME NEW e, NEW target, view_port_input(e, target) PROVE NoLostInput'
    BY <2>5 DEF view_port_input, gui_input, NoLostInput
  <2>6. CASE view_dispatcher_input_callback
    BY <2>6 DEF view_dispatcher_input_callback, NoLostInput
  <2> QED
    BY <1>5, <2>1, <2>2, <2>3, <2>4, <2>5, <2>6 DEF GuiThread
<1>6. CASE AppGoesOn
  <2>1. CASE view_dispatcher_remove_view
    BY <1>2, <2>1 DEF view_dispatcher_remove_view, Hidden
  <2>2. CASE set_orientation
    BY <1>2, <2>2 DEF set_orientation, Shown
  <2>3. CASE view_dispatcher_send
    BY <1>2, <2>3 DEF view_dispatcher_send, gui_view_port_send
  <2>4. CASE view_dispatcher_free
    BY <1>2, <2>4 DEF view_dispatcher_free, gui_remove_view_port
  <2> QED
    BY <1>2, <1>6, <2>1, <2>2, <2>3, <2>4
    DEF AppGoesOn, view_dispatcher_handle_input, handle_input, view_dispatcher_add_view, drain,
        begin_end, Begin
<1>7. ASSUME NEW v, view_dispatcher_switch_to_view(v) PROVE NoLostInput'
  BY <1>2, <1>7 DEF view_dispatcher_switch_to_view, Shown
<1>8. CASE AppStarts
  BY <1>2, <1>7, <1>8 DEF AppStarts, view_dispatcher_attach_to_gui, gui_add_view_port
<1>9. CASE AppChooses
  BY <1>2, <1>7, <1>9
  DEF AppChooses, switch_to_none, Hidden, view_dispatcher_stop, begin_call, Begin,
      view_dispatcher_update, hand_orient_changed, handle_input
<1>10. CASE Others
  BY <1>2, <1>10
  DEF Others, guest_opens, gui_add_view_port, guest_closes, gui_remove_view_port,
      gui_set_lockdown, gui_direct_draw_acquire, gui_direct_draw_release
<1> QED
  BY <1>3, <1>4, <1>5, <1>6, <1>8, <1>9, <1>10 DEF Next, Changes

(* Whoever sleeps while an event is in the queue will be woken: its sender  *)
(* has set the flag or is about to, and nobody has cleared it since.        *)
THEOREM NoInputIsLost == Spec => []NoLostInput
<1>1. Init => NoLostInput
  BY DEF Init, GuiInit, NoLostInput
<1> QED
  BY <1>1, NoLostInputStep, PTL DEF Spec

-----------------------------------------------------------------------------
(* Between who sends key events and the GUI thread, and between a view port *)
(* that is attached and its dispatcher, the events in the queue account for *)
(* the keys: the GUI thread will know all that the buttons hold, as long as *)
(* software sends nothing, and never take a key for down that nobody holds; *)
(* the dispatcher will know what its port was given, unless a key of these  *)
(* came to stand for another.                                               *)
THEOREM BothEndsAgree == Spec => []KeysAgree
<1>1. KeyInv => KeysAgree
  <2> SUFFICES ASSUME KeyInv PROVE KeysAgree
    OBVIOUS
  <2>1. OnTheirWay = OnTheWay
    <3>1. CASE gui_at = "put"
      BY <3>1 DEF OnTheirWay, OnTheWay, KeyInv, KeysTyped
    <3>2. CASE gui_at # "put"
      BY <3>2 DEF OnTheirWay, OnTheWay, KeyInv, KeysTyped
    <3> QED
      BY <3>1, <3>2
  <2>2. AppAgrees
    BY <2>1 DEF KeyInv, AppKnows, AppAgrees, KeysOf
  <2> QED
    BY <2>2 DEF KeyInv, GuiKnows, KeysAgree
<1> QED
  BY <1>1, KeyInvAlways, PTL


-----------------------------------------------------------------------------
(* Lists of view ports                                                      *)
InSeq(s, p) == \E i \in 1..Len(s) : s[i] = p

NoRepeats(s) == \A i, j \in 1..Len(s) : s[i] = s[j] => i = j

LEMMA Joined ==
    ASSUME NEW a \in Seq(Ports), NEW b \in Seq(Ports)
    PROVE  /\ a \o b \in Seq(Ports) /\ Len(a \o b) = Len(a) + Len(b)
           /\ \A k \in 1..(Len(a) + Len(b)) :
                  (a \o b)[k] = IF k <= Len(a) THEN a[k] ELSE b[k - Len(a)]
<1>1. a \o b \in Seq(Ports)
  OBVIOUS
<1>2. Len(a \o b) = Len(a) + Len(b)
  OBVIOUS
<1>3. \A k \in 1..(Len(a) + Len(b)) :
          (a \o b)[k] = IF k <= Len(a) THEN a[k] ELSE b[k - Len(a)]
  OBVIOUS
<1> QED
  BY <1>1, <1>2, <1>3

LEMMA RemovedAt ==
    ASSUME NEW s \in Seq(Ports), NEW at \in 1..Len(s)
    PROVE  /\ RemoveAt(s, at) \in Seq(Ports) /\ Len(RemoveAt(s, at)) = Len(s) - 1
           /\ \A k \in 1..(Len(s) - 1) :
                  RemoveAt(s, at)[k] = IF k < at THEN s[k] ELSE s[k + 1]
<1> DEFINE front == SubSeq(s, 1, at - 1)
           back == SubSeq(s, at + 1, Len(s))
<1>1. Len(s) \in Nat /\ at \in Nat /\ at >= 1 /\ at <= Len(s)
  OBVIOUS
<1>2. /\ front \in Seq(Ports) /\ Len(front) = at - 1
      /\ \A k \in 1..(at - 1) : front[k] = s[k]
  BY <1>1
<1>3. /\ back \in Seq(Ports) /\ Len(back) = Len(s) - at
      /\ \A k \in 1..(Len(s) - at) : back[k] = s[at + k]
  BY <1>1
<1>4. RemoveAt(s, at) = front \o back
  BY DEF RemoveAt
<1> HIDE DEF front, back
<1>5. /\ front \o back \in Seq(Ports) /\ Len(front \o back) = (at - 1) + (Len(s) - at)
      /\ \A k \in 1..((at - 1) + (Len(s) - at)) :
             (front \o back)[k] = IF k <= at - 1 THEN front[k] ELSE back[k - (at - 1)]
  <2>1. /\ front \o back \in Seq(Ports) /\ Len(front \o back) = Len(front) + Len(back)
        /\ \A k \in 1..(Len(front) + Len(back)) :
               (front \o back)[k] = IF k <= Len(front) THEN front[k]
                                    ELSE back[k - Len(front)]
    BY <1>2, <1>3, Joined
  <2> QED
    BY <1>2, <1>3, <2>1
<1>6. ASSUME NEW k \in 1..(Len(s) - 1)
      PROVE  (front \o back)[k] = IF k < at THEN s[k] ELSE s[k + 1]
  <2>1. k \in 1..((at - 1) + (Len(s) - at)) /\ k \in Nat
    BY <1>1, <1>6
  <2>2. CASE k < at
    <3>1. k <= at - 1 /\ k \in 1..(at - 1)
      BY <1>1, <2>1, <2>2
    <3> QED
      BY <1>2, <1>5, <2>1, <2>2, <3>1
  <2>3. CASE ~(k < at)
    <3>1. /\ ~(k <= at - 1) /\ k - (at - 1) \in 1..(Len(s) - at)
          /\ at + (k - (at - 1)) = k + 1
      BY <1>1, <1>6, <2>1, <2>3
    <3> QED
      BY <1>3, <1>5, <2>1, <2>3, <3>1
  <2> QED
    BY <2>2, <2>3
<1>7. (at - 1) + (Len(s) - at) = Len(s) - 1
  BY <1>1
<1> QED
  BY <1>4, <1>5, <1>6, <1>7

LEMMA RemovedPlaces ==
    ASSUME NEW s \in Seq(Ports), NEW at \in 1..Len(s), NoRepeats(s)
    PROVE  /\ NoRepeats(RemoveAt(s, at))
           /\ \A q : InSeq(RemoveAt(s, at), q) <=> InSeq(s, q) /\ q # s[at]
<1> DEFINE r == RemoveAt(s, at)
<1>1. /\ r \in Seq(Ports) /\ Len(r) = Len(s) - 1 /\ Len(s) \in Nat
      /\ \A k \in 1..(Len(s) - 1) : r[k] = IF k < at THEN s[k] ELSE s[k + 1]
  BY RemovedAt
<1> HIDE DEF r
<1>2. NoRepeats(r)
  BY <1>1 DEF NoRepeats
<1>3. ASSUME NEW q, InSeq(r, q) PROVE InSeq(s, q) /\ q # s[at]
  BY <1>1, <1>3 DEF InSeq, NoRepeats
<1>4. ASSUME NEW q, InSeq(s, q), q # s[at] PROVE InSeq(r, q)
  <2>1. PICK i \in 1..Len(s) : s[i] = q
    BY <1>4 DEF InSeq
  <2>2. CASE i < at
    BY <1>1, <2>1, <2>2 DEF InSeq
  <2>3. CASE i > at
    <3>1. i - 1 \in 1..Len(r) /\ r[i - 1] = q
      BY <1>1, <2>1, <2>3
    <3> QED
      BY <3>1 DEF InSeq
  <2> QED
    BY <1>4, <2>1, <2>2, <2>3
<1> QED
  BY <1>2, <1>3, <1>4 DEF r

(* The sequence s with p at one of its ends.                                *)
AtAnEnd(r, s, p) == r = Append(s, p) \/ r = <<p>> \o s

LEMMA AddedPlaces ==
    ASSUME NEW s \in Seq(Ports), NEW p \in Ports, NoRepeats(s), ~InSeq(s, p),
           NEW r, AtAnEnd(r, s, p)
    PROVE  /\ r \in Seq(Ports) /\ NoRepeats(r)
           /\ \A q : InSeq(r, q) <=> InSeq(s, q) \/ q = p
<1>1. CASE r = Append(s, p)
  <2>1. /\ r \in Seq(Ports) /\ Len(r) = Len(s) + 1 /\ Len(s) \in Nat
        /\ r[Len(s) + 1] = p /\ \A k \in 1..Len(s) : r[k] = s[k]
    BY <1>1
  <2>2. NoRepeats(r)
    BY <2>1 DEF NoRepeats, InSeq
  <2>3. ASSUME NEW q PROVE InSeq(r, q) <=> InSeq(s, q) \/ q = p
    BY <2>1 DEF InSeq
  <2> QED
    BY <2>1, <2>2, <2>3
<1>2. CASE r = <<p>> \o s
  <2>1. /\ r \in Seq(Ports) /\ Len(r) = Len(s) + 1 /\ Len(s) \in Nat
        /\ r[1] = p /\ \A k \in 2..Len(r) : r[k] = s[k - 1]
    BY <1>2
  <2>2. NoRepeats(r)
    <3>1. \A k \in 2..Len(r) : k - 1 \in 1..Len(s) /\ r[k] = s[k - 1] /\ r[k] # p
      BY <2>1 DEF InSeq
    <3>2. SUFFICES ASSUME NEW i \in 1..Len(r), NEW j \in 1..Len(r), r[i] = r[j] PROVE i = j
      BY DEF NoRepeats
    <3>3. CASE i = 1 \/ j = 1
      BY <2>1, <3>1, <3>2, <3>3
    <3>4. CASE i # 1 /\ j # 1
      <4>1. i \in 2..Len(r) /\ j \in 2..Len(r)
        BY <2>1, <3>4
      <4>2. s[i - 1] = s[j - 1] /\ i - 1 \in 1..Len(s) /\ j - 1 \in 1..Len(s)
        BY <3>1, <3>2, <4>1
      <4>3. i - 1 = j - 1
        BY <4>2 DEF NoRepeats
      <4> QED
        BY <4>1, <4>3
    <3> QED
      BY <3>3, <3>4
  <2>3. ASSUME NEW q PROVE InSeq(r, q) <=> InSeq(s, q) \/ q = p
    <3>1. ASSUME InSeq(s, q) PROVE InSeq(r, q)
      <4>1. PICK i \in 1..Len(s) : s[i] = q
        BY <3>1 DEF InSeq
      <4>2. i + 1 \in 1..Len(r) /\ r[i + 1] = q
        BY <2>1, <4>1
      <4> QED
        BY <4>2 DEF InSeq
    <3>2. ASSUME InSeq(r, q) PROVE InSeq(s, q) \/ q = p
      BY <2>1, <3>2 DEF InSeq
    <3>3. InSeq(r, p)
      BY <2>1 DEF InSeq
    <3> QED
      BY <3>1, <3>2, <3>3
  <2> QED
    BY <2>1, <2>2, <2>3
<1> QED
  BY <1>1, <1>2 DEF AtAnEnd

(* The layers: a view port is in its own layer only, and there once.        *)
Sound(ls) ==
    /\ ls \in [Layers -> Seq(Ports)]
    /\ \A l \in Layers : NoRepeats(ls[l]) /\ \A p : InSeq(ls[l], p) => LayerOf[p] = l

LEMMA AttachedIs ==
    ASSUME NEW ls, Sound(ls), NEW p \in Ports
    PROVE  (\E l \in Layers : p \in ToSet(ls[l])) <=> InSeq(ls[LayerOf[p]], p)
<1>1. \A l \in Layers : ls[l] \in Seq(Ports) /\ (p \in ToSet(ls[l]) <=> InSeq(ls[l], p))
  BY DEF Sound, ToSet, InSeq
<1>2. LayerOf[p] \in Layers
  BY GuiAssumption
<1> QED
  BY <1>1, <1>2 DEF Sound

(* Another list in the layer of p, which differs in p only.                 *)
Replaced(new, ls, p, r) == new = [ls EXCEPT ![LayerOf[p]] = r]

SameBut(r, s, p) == \A q : q # p => (InSeq(r, q) <=> InSeq(s, q))

LEMMA OtherList ==
    ASSUME NEW ls, Sound(ls), NEW p \in Ports, NEW r \in Seq(Ports), NoRepeats(r),
           SameBut(r, ls[LayerOf[p]], p), NEW new, Replaced(new, ls, p, r)
    PROVE  /\ Sound(new) /\ new[LayerOf[p]] = r
           /\ \A q \in Ports \ {p} : InSeq(new[LayerOf[q]], q) <=> InSeq(ls[LayerOf[q]], q)
<1>1. LayerOf \in [Ports -> Layers]
  BY GuiAssumption
<1>2. /\ new \in [Layers -> Seq(Ports)] /\ new[LayerOf[p]] = r
      /\ \A l \in Layers : l # LayerOf[p] => new[l] = ls[l]
  BY <1>1 DEF Sound, Replaced
<1>3. ASSUME NEW l \in Layers
      PROVE  NoRepeats(new[l]) /\ \A q : InSeq(new[l], q) => LayerOf[q] = l
  BY <1>1, <1>2, <1>3 DEF Sound, SameBut
<1>4. ASSUME NEW q \in Ports \ {p}
      PROVE  InSeq(new[LayerOf[q]], q) <=> InSeq(ls[LayerOf[q]], q)
  BY <1>1, <1>2, <1>4 DEF SameBut
<1> QED
  BY <1>2, <1>3, <1>4 DEF Sound

(* A view port is added, removed, or sent to an end of its layer.           *)
In(ls, p) == InSeq(ls[LayerOf[p]], p)

LEMMA PortAdded ==
    ASSUME NEW ls, Sound(ls), NEW p \in Ports, ~In(ls, p),
           NEW r, AtAnEnd(r, ls[LayerOf[p]], p), NEW new, Replaced(new, ls, p, r)
    PROVE  Sound(new) /\ \A q \in Ports : In(new, q) <=> In(ls, q) \/ q = p
<1> DEFINE s == ls[LayerOf[p]]
<1>1. s \in Seq(Ports) /\ NoRepeats(s) /\ ~InSeq(s, p)
  BY GuiAssumption DEF Sound, In
<1>2. r \in Seq(Ports) /\ NoRepeats(r) /\ \A q : InSeq(r, q) <=> InSeq(s, q) \/ q = p
  BY <1>1, AddedPlaces
<1>3. /\ Sound(new) /\ new[LayerOf[p]] = r
      /\ \A q \in Ports \ {p} : InSeq(new[LayerOf[q]], q) <=> InSeq(ls[LayerOf[q]], q)
  <2>1. SameBut(r, s, p)
    BY <1>2 DEF SameBut
  <2>2. r \in Seq(Ports) /\ NoRepeats(r)
    BY <1>2
  <2> QED
    BY <2>1, <2>2, OtherList
<1> QED
  BY <1>2, <1>3 DEF In

LEMMA PortRemoved ==
    ASSUME Sound(layers), NEW p \in Ports, In(layers, p)
    PROVE  Sound(Without(p)) /\ \A q \in Ports : In(Without(p), q) <=> In(layers, q) /\ q # p
<1> DEFINE s == layers[LayerOf[p]]
           at == CHOOSE i \in 1..Len(s) : s[i] = p
           r == RemoveAt(s, at)
<1>1. s \in Seq(Ports) /\ NoRepeats(s)
  BY GuiAssumption DEF Sound
<1>2. at \in 1..Len(s) /\ s[at] = p
  BY DEF In, InSeq
<1>3. Without(p) = [layers EXCEPT ![LayerOf[p]] = r]
  BY DEF Without
<1> HIDE DEF at
<1>4. r \in Seq(Ports)
  BY <1>1, <1>2, RemovedAt
<1>5. NoRepeats(r) /\ \A q : InSeq(r, q) <=> InSeq(s, q) /\ q # p
  BY <1>1, <1>2, RemovedPlaces
<1> HIDE DEF r
<1> DEFINE new == Without(p)
<1> HIDE DEF new
<1>6. Replaced(new, layers, p, r)
  BY <1>3 DEF new, Replaced
<1>7. /\ Sound(new) /\ new[LayerOf[p]] = r
      /\ \A q \in Ports \ {p} : InSeq(new[LayerOf[q]], q) <=> InSeq(layers[LayerOf[q]], q)
  <2>1. SameBut(r, s, p)
    BY <1>5 DEF SameBut
  <2>2. NoRepeats(r)
    BY <1>5
  <2> QED
    BY <1>4, <1>6, <2>1, <2>2, OtherList
<1> QED
  BY <1>5, <1>7 DEF In, new

(* Who is on top of a layer is in it.                                       *)
LEMMA FoundIsIn ==
    ASSUME Sound(layers), NEW l \in Layers,
           gui_view_port_find_enabled(l) # NoPort
    PROVE  /\ gui_view_port_find_enabled(l) \in Ports
           /\ In(layers, gui_view_port_find_enabled(l))
<1> DEFINE p == CHOOSE q \in Ports : OnTop(l, q)
<1>1. gui_view_port_find_enabled(l) = p /\ p \in Ports /\ OnTop(l, p)
  BY DEF gui_view_port_find_enabled
<1> HIDE DEF p
<1>2. InSeq(layers[l], p)
  BY <1>1 DEF OnTop, InSeq
<1> QED
  BY <1>1, <1>2 DEF Sound, In

LEMMA TopIsIn ==
    ASSUME Sound(layers), Top # NoPort
    PROVE  Top \in Ports /\ In(layers, Top)
<1>1. {"Desktop", "Window", "Fullscreen"} \subseteq Layers
  BY DEF Layers
<1> QED
  BY <1>1, FoundIsIn DEF Top, Or

(* NoStaleTarget of the view ports.                                         *)
OwnersIn ==
    /\ ongoing_input_view_port # NoPort =>
           ongoing_input_view_port \in Ports /\ In(layers, ongoing_input_view_port)
    /\ gui_at = "put" => In(layers, App)

LayerInv == Sound(layers) /\ OwnersIn

LayersKept ==
    UNCHANGED <<layers, ongoing_input_view_port>> /\ (gui_at' = "put" => gui_at = "put")

LayerStep ==
    \/ \E e \in Events, target \in Ports \cup {NoPort} : view_port_input(e, target)
    \/ view_dispatcher_attach_to_gui \/ view_dispatcher_send \/ view_dispatcher_free
    \/ \E p \in Guests : guest_opens(p) \/ guest_closes(p)

LEMMA LayerSteps == [Next]_vars => LayersKept \/ LayerStep
<1> SUFFICES ASSUME [Next]_vars PROVE LayersKept \/ LayerStep
  OBVIOUS
<1> USE DEF inputVars, keptVars, threadVars, layerVars, guiVars, LayersKept
<1>1. CASE UNCHANGED vars
  BY <1>1 DEF vars
<1>2. CASE InputService
  BY <1>2
  DEF InputService, press, hold, release, rpc_system_gui_free, inject, Publish,
      furi_thread_flags_set
<1>3. CASE GuiThread
  BY <1>3
  DEF GuiThread, furi_thread_flags_wait, queue_is_empty, TurnEnds, clear_draw_flag, gui_redraw,
      view_dispatcher_input_callback, LayerStep
<1>4. CASE AppGoesOn
  <2>1. CASE view_dispatcher_remove_view
    BY <2>1 DEF view_dispatcher_remove_view, Hidden
  <2>2. CASE set_orientation
    BY <2>2 DEF set_orientation, Shown
  <2> QED
    BY <1>4, <2>1, <2>2
    DEF AppGoesOn, LayerStep, view_dispatcher_handle_input, handle_input,
        view_dispatcher_add_view, drain, begin_end, Begin
<1>5. ASSUME NEW v, view_dispatcher_switch_to_view(v) PROVE LayersKept
  BY <1>5 DEF view_dispatcher_switch_to_view, Shown
<1>6. CASE AppStarts
  BY <1>5, <1>6 DEF AppStarts, LayerStep
<1>7. CASE AppChooses
  BY <1>5, <1>7
  DEF AppChooses, switch_to_none, Hidden, view_dispatcher_stop, begin_call, Begin,
      view_dispatcher_update, hand_orient_changed, handle_input
<1>8. CASE Others
  BY <1>8
  DEF Others, LayerStep, gui_set_lockdown, gui_direct_draw_acquire, gui_direct_draw_release
<1> QED
  BY <1>1, <1>2, <1>3, <1>4, <1>6, <1>7, <1>8 DEF Next, Changes

(* The services' view ports are put into their layers one by one.           *)
LEMMA InitLayers == Init => LayerInv
<1> SUFFICES ASSUME Init PROVE LayerInv
  OBVIOUS
<1> DEFINE services == Ports \ ({App} \cup Guests)
           of(l) == {p \in services : LayerOf[p] = l}
<1>1. ASSUME NEW l \in Layers
      PROVE  /\ SetToSeq(of(l)) \in Seq(Ports) /\ NoRepeats(SetToSeq(of(l)))
             /\ \A p : InSeq(SetToSeq(of(l)), p) => LayerOf[p] = l
  <2> DEFINE S == of(l)
             n == Cardinality(S)
  <2>1. IsFiniteSet(S)
    <3>1. S \in SUBSET Ports
      OBVIOUS
    <3> QED
      BY <3>1, GuiAssumption, FS_Subset
  <2>2. S \subseteq Ports /\ \A p \in S : LayerOf[p] = l
    OBVIOUS
  <2> HIDE DEF S
  <2>3. n \in Nat /\ ExistsBijection(1..n, S)
    BY <2>1, FS_CardinalityType
  <2> HIDE DEF n
  <2>4. \E f \in [1..n -> S] : IsInjective(f)
    BY <2>3 DEF ExistsBijection, Bijection, Injection, IsInjective
  <2> DEFINE s == CHOOSE f \in [1..n -> S] : IsInjective(f)
  <2>5. s \in [1..n -> S] /\ IsInjective(s)
    BY <2>4
  <2>6. SetToSeq(S) = s
    BY DEF SetToSeq, n
  <2> HIDE DEF s
  <2>7. s \in Seq(Ports) /\ Len(s) = n /\ \A i \in 1..n : s[i] \in S
    BY <2>2, <2>3, <2>5
  <2>8. NoRepeats(s)
    BY <2>5, <2>7 DEF NoRepeats, IsInjective
  <2>9. \A p : InSeq(s, p) => LayerOf[p] = l
    BY <2>2, <2>7 DEF InSeq
  <2> QED
    BY <2>6, <2>7, <2>8, <2>9 DEF S
<1>2. layers = [l \in Layers |-> SetToSeq(of(l))]
  BY DEF Init, GuiInit
<1> HIDE DEF of
<1>3. Sound(layers)
  BY <1>1, <1>2 DEF Sound
<1>4. OwnersIn
  BY DEF Init, GuiInit, OwnersIn
<1> QED
  BY <1>3, <1>4 DEF LayerInv

LEMMA LayerInvStep == LayerInv /\ [Next]_vars => LayerInv'
<1> SUFFICES ASSUME LayerInv, [Next]_vars PROVE LayerInv'
  OBVIOUS
<1> USE DEF LayerInv
<1>1. ASSUME NEW p \in Ports PROVE Attached(p) <=> In(layers, p)
  BY <1>1, AttachedIs DEF Attached, In
<1>2. CASE LayersKept
  BY <1>2 DEF LayersKept, OwnersIn
<1>3. ASSUME NEW e \in Events, NEW target \in Ports \cup {NoPort}, view_port_input(e, target)
      PROVE  LayerInv'
  <2> DEFINE owner == ongoing_input_view_port
  <2>1. /\ layers' = layers
        /\ owner' = Top \/ owner' = owner
        /\ target = NoPort \/ target = Target(Top, owner', e, NoPort)
        /\ gui_at' = "put" => target = App
    BY <1>3 DEF view_port_input, gui_input
  <2>2. owner' # NoPort => owner' \in Ports /\ In(layers, owner')
    BY <2>1, TopIsIn DEF OwnersIn
  <2>3. target # NoPort => target = owner'
    BY <2>1 DEF Target
  <2> QED
    BY <2>1, <2>2, <2>3, GuiAssumption, ViewDispatcherAssumption DEF OwnersIn
<1>4. ASSUME NEW p \in Ports, gui_add_view_port(p), gui_at' = gui_at PROVE LayerInv'
  <2>1. /\ layers' = [layers EXCEPT ![LayerOf[p]] = Append(layers[LayerOf[p]], p)]
        /\ ongoing_input_view_port' = ongoing_input_view_port /\ ~In(layers, p)
    BY <1>1, <1>4 DEF gui_add_view_port
  <2> DEFINE r == Append(layers[LayerOf[p]], p)
  <2>2. Sound(layers') /\ \A q \in Ports : In(layers', q) <=> In(layers, q) \/ q = p
    <3>1. AtAnEnd(r, layers[LayerOf[p]], p)
      BY DEF AtAnEnd
    <3>2. Replaced(layers', layers, p, r) /\ ~In(layers, p)
      BY <2>1 DEF Replaced
    <3> HIDE DEF r
    <3> QED
      BY <3>1, <3>2, PortAdded
  <2> QED
    BY <1>4, <2>1, <2>2, ViewDispatcherAssumption DEF OwnersIn
<1>5. ASSUME NEW p \in Ports, gui_remove_view_port(p), gui_at' = gui_at PROVE LayerInv'
  <2>1. layers' = Without(p) /\ PortForgotten(p) /\ gui_at # "put" /\ In(layers, p)
    BY <1>1, <1>5 DEF gui_remove_view_port, GuiLockFree
  <2>2. Sound(layers') /\ \A q \in Ports : In(layers', q) <=> In(layers, q) /\ q # p
    BY <2>1, PortRemoved
  <2> QED
    BY <1>5, <2>1, <2>2 DEF OwnersIn, PortForgotten
<1>6. CASE view_dispatcher_send
  <2> DEFINE s == Without(App)[LayerOf[App]]
  <2>1. PICK r : AtAnEnd(r, s, App) /\ Replaced(layers', Without(App), App, r)
    BY <1>6 DEF view_dispatcher_send, gui_view_port_send, AtAnEnd, Replaced
  <2>2. /\ App \in Ports /\ In(layers, App)
        /\ UNCHANGED <<ongoing_input_view_port, gui_at>>
    BY <1>1, <1>6, ViewDispatcherAssumption
    DEF view_dispatcher_send, gui_view_port_send, threadVars
  <2>3. /\ Sound(Without(App))
        /\ \A q \in Ports : In(Without(App), q) <=> In(layers, q) /\ q # App
    BY <2>2, PortRemoved
  <2>4. Sound(layers') /\ \A q \in Ports : In(layers', q) <=> In(Without(App), q) \/ q = App
    <3>1. ~In(Without(App), App)
      BY <2>2, <2>3
    <3> QED
      BY <2>1, <2>2, <2>3, <3>1, PortAdded
  <2> QED
    BY <2>2, <2>3, <2>4 DEF OwnersIn
<1>7. CASE LayerStep
  BY <1>3, <1>4, <1>5, <1>6, <1>7, ViewDispatcherAssumption
  DEF LayerStep, view_dispatcher_attach_to_gui, view_dispatcher_free, guest_opens, guest_closes,
      threadVars
<1> QED
  BY <1>2, <1>7, LayerSteps

LEMMA LayerInvAlways == Spec => []LayerInv
  BY InitLayers, LayerInvStep, PTL DEF Spec

(* A view port is never listed twice, nor in a layer that it was not added  *)
(* to, which is what the assertion in gui_add_view_port and the removal     *)
(* loops of gui.c count on.                                                 *)
THEOREM PortsListedOnce == Spec => []Sound(layers)
<1>1. LayerInv => Sound(layers)
  BY DEF LayerInv
<1> QED
  BY <1>1, LayerInvAlways, PTL

(* NoStaleTarget of the views.                                              *)
ViewsThere == {current_view, ongoing_input_view} \subseteq views \cup {NoView}

LEMMA ViewsThereStep == ViewsTyped /\ ViewsThere /\ [Next]_vars => ViewsThere'
<1> SUFFICES ASSUME ViewsTyped, ViewsThere, [Next]_vars PROVE ViewsThere'
  OBVIOUS
<1> USE DEF guiVars, viewVars, keyVars, appVars
<1>1. CASE UNCHANGED <<views, current_view, ongoing_input_view>>
  BY <1>1 DEF ViewsThere
<1>2. CASE handle_input
  BY <1>2 DEF handle_input, ViewsThere
<1>3. CASE AppGoesOn
  <2>1. CASE view_dispatcher_handle_input
    BY <1>2, <2>1 DEF view_dispatcher_handle_input
  <2>2. CASE view_dispatcher_add_view
    BY <2>2 DEF view_dispatcher_add_view, ViewsThere
  <2>3. CASE view_dispatcher_remove_view
    BY <2>3 DEF view_dispatcher_remove_view, Hidden, ViewForgotten, ViewsThere
  <2>4. CASE view_dispatcher_free
    BY <2>4 DEF view_dispatcher_free, ViewsThere
  <2> QED
    BY <1>1, <1>3, <2>1, <2>2, <2>3, <2>4
    DEF AppGoesOn, set_orientation, view_dispatcher_send, drain, begin_end, Begin
<1>4. ASSUME NEW v, view_dispatcher_switch_to_view(v) PROVE ViewsThere'
  BY <1>4 DEF view_dispatcher_switch_to_view, ViewsThere
<1>5. CASE AppStarts
  BY <1>4, <1>5 DEF AppStarts, view_dispatcher_attach_to_gui, ViewsThere, ViewsTyped
<1>6. CASE AppChooses
  <2>1. CASE switch_to_none
    BY <2>1 DEF switch_to_none, Hidden, ViewsThere
  <2> QED
    BY <1>1, <1>4, <1>6, <1>2, <2>1
    DEF AppChooses, view_dispatcher_stop, begin_call, Begin, view_dispatcher_update,
        hand_orient_changed
<1> QED
  BY <1>1, <1>3, <1>5, <1>6
  DEF vars, Next, Changes, InputService, GuiThread, Others, view_port_input,
      view_dispatcher_input_callback

LEMMA ViewsThereAlways == Spec => []ViewsThere
<1>1. Init => ViewsThere
  BY DEF Init, AppInit, ViewsThere
<1> QED
  BY <1>1, ViewsThereStep, ViewsTypedAlways, PTL DEF Spec

(* The GUI thread gives an event only to a view port that is in the list,   *)
(* and the dispatcher only to a view that it still has, whoever closes what *)
(* and whenever: the owners of the keys do not outlive their removal.       *)
THEOREM OwnersAreThere == Spec => []NoStaleTarget
<1>1. LayerInv /\ ViewsThere => NoStaleTarget
  <2> SUFFICES ASSUME LayerInv, ViewsThere PROVE NoStaleTarget
    OBVIOUS
  <2>1. ASSUME NEW p \in Ports, In(layers, p) PROVE Attached(p)
    BY <2>1, AttachedIs DEF LayerInv, Attached, In
  <2> QED
    BY <2>1, ViewDispatcherAssumption DEF LayerInv, OwnersIn, ViewsThere, NoStaleTarget
<1> QED
  BY <1>1, LayerInvAlways, ViewsThereAlways, PTL

-----------------------------------------------------------------------------
(* Types: what of TypeOK the invariants above do not say.                   *)
GuiTyped ==
    /\ strokes \in 0..MaxStrokes /\ injected \in 0..MaxInjected
    /\ Len(gui_queue) <= InputSize /\ robbed \subseteq Ports
    /\ telling \in BOOLEAN /\ flags \subseteq {"Input", "Draw"}
    /\ gui_at \in {"wait", "get", "put", "clear", "draw"} /\ gui_draws \in BOOLEAN
    /\ enabled \subseteq Ports /\ lockdown \in BOOLEAN /\ direct_draw \in BOOLEAN
    /\ stale \in BOOLEAN

DispatcherTyped ==
    /\ app_at \in {"off", "run", "drain", "end"}
    /\ call \in [op : Calls \cup {"none"}, view : Views \cup {NoView}]
    /\ Len(input_queue) <= QueueSize /\ gui_event \in KeyEvents \cup {NoEvent}
    /\ left_handed \in BOOLEAN /\ sacrificed \in BOOLEAN /\ robbed_views \subseteq Views

LEMMA GuiTypedStep == KeysTyped /\ GuiTyped /\ [Next]_vars => GuiTyped'
<1> SUFFICES ASSUME KeysTyped, GuiTyped, [Next]_vars PROVE GuiTyped'
  OBVIOUS
<1> USE DEF inputVars, keptVars, threadVars, layerVars, screenVars, guiVars
<1>1. ASSUME UNCHANGED <<inputVars, gui_at, gui_draws>>, UNCHANGED screenVars \/ gui_update,
             enabled' \subseteq Ports, robbed' \subseteq robbed,
             UNCHANGED <<lockdown, direct_draw>>
      PROVE  GuiTyped'
  BY <1>1 DEF GuiTyped, gui_update
<1>2. CASE UNCHANGED vars
  BY <1>2 DEF vars, GuiTyped
<1>3. CASE InputService
  <2>1. ASSUME NEW e, Publish(e), strokes' \in 0..MaxStrokes, injected' \in 0..MaxInjected
        PROVE  GuiTyped'
    <3>1. Len(gui_queue') <= InputSize
      BY <2>1, GuiAssumption DEF Publish, KeysTyped
    <3> QED
      BY <2>1, <3>1 DEF Publish, GuiTyped
  <2>2. CASE furi_thread_flags_set
    BY <2>2 DEF furi_thread_flags_set, GuiTyped
  <2>3. ASSUME NEW k, press(k) \/ hold(k) \/ release(k) \/ rpc_system_gui_free(k)
        PROVE  GuiTyped'
    BY <2>1, <2>3, GuiAssumption DEF press, hold, release, rpc_system_gui_free, GuiTyped
  <2>4. ASSUME NEW e, inject(e.type, e.key, e.source) PROVE GuiTyped'
    BY <2>1, <2>4, GuiAssumption DEF inject, GuiTyped
  <2> QED
    BY <1>3, <2>2, <2>3, <2>4 DEF InputService
<1>4. CASE GuiThread
  <2>1. CASE furi_thread_flags_wait
    <3>1. gui_at' \in {"get", "clear"} /\ gui_draws' \in BOOLEAN
      <4>1. CASE "Input" \in flags
        <5>1. gui_at' = "get" /\ gui_draws' = ("Draw" \in flags)
          BY <2>1, <4>1 DEF furi_thread_flags_wait
        <5>2. ("Draw" \in flags) \in BOOLEAN
          OBVIOUS
        <5> QED
          BY <5>1, <5>2
      <4>2. CASE "Input" \notin flags
        BY <2>1, <4>2 DEF furi_thread_flags_wait, TurnEnds, GuiTyped
      <4> QED
        BY <4>1, <4>2
    <3>2. UNCHANGED <<inputVars, enabled, robbed, lockdown, direct_draw, stale>> /\ flags' = {}
      BY <2>1 DEF furi_thread_flags_wait
    <3> QED
      BY <3>1, <3>2 DEF GuiTyped
  <2>2. CASE queue_is_empty
    BY <2>2 DEF queue_is_empty, TurnEnds, GuiTyped
  <2>3. CASE clear_draw_flag
    BY <2>3 DEF clear_draw_flag, GuiTyped
  <2>4. CASE gui_redraw
    BY <2>4 DEF gui_redraw, GuiTyped
  <2>5. ASSUME NEW e, NEW target, view_port_input(e, target) PROVE GuiTyped'
    <3>1. Len(gui_queue') <= InputSize
      BY <2>5, GuiAssumption DEF view_port_input, gui_input, KeysTyped, GuiTyped
    <3> QED
      BY <2>5, <3>1 DEF view_port_input, gui_input, GuiTyped
  <2>6. CASE view_dispatcher_input_callback
    BY <2>6 DEF view_dispatcher_input_callback, GuiTyped
  <2> QED
    BY <1>4, <2>1, <2>2, <2>3, <2>4, <2>5, <2>6 DEF GuiThread
<1>5. UNCHANGED enabled => enabled' \subseteq Ports
  BY DEF GuiTyped
<1>6. enabled' = enabled \cup {App} \/ enabled' = enabled \ {App} => enabled' \subseteq Ports
  BY ViewDispatcherAssumption DEF GuiTyped
<1>7. CASE AppGoesOn
  <2>1. CASE view_dispatcher_remove_view
    BY <1>1, <1>5, <1>6, <2>1 DEF view_dispatcher_remove_view, Hidden
  <2>2. CASE set_orientation
    BY <1>1, <1>6, <2>2 DEF set_orientation, Shown
  <2>3. CASE view_dispatcher_send
    BY <1>1, <1>5, <2>3 DEF view_dispatcher_send, gui_view_port_send
  <2>4. CASE view_dispatcher_free
    BY <1>1, <1>6, <2>4 DEF view_dispatcher_free, gui_remove_view_port
  <2>5. CASE UNCHANGED guiVars
    BY <1>1, <1>5, <2>5
  <2> QED
    BY <1>7, <2>1, <2>2, <2>3, <2>4, <2>5
    DEF AppGoesOn, view_dispatcher_handle_input, handle_input, view_dispatcher_add_view, drain,
        begin_end, Begin
<1>8. ASSUME NEW v, view_dispatcher_switch_to_view(v) PROVE GuiTyped'
  BY <1>1, <1>5, <1>6, <1>8 DEF view_dispatcher_switch_to_view, Shown
<1>9. CASE AppStarts
  BY <1>1, <1>5, <1>8, <1>9 DEF AppStarts, view_dispatcher_attach_to_gui, gui_add_view_port
<1>10. CASE AppChooses
  <2>1. CASE switch_to_none
    BY <1>1, <1>6, <2>1 DEF switch_to_none, Hidden
  <2>2. CASE hand_orient_changed
    BY <1>1, <1>5, <2>2 DEF hand_orient_changed, handle_input
  <2>3. CASE view_dispatcher_update
    BY <1>1, <1>5, <2>3 DEF view_dispatcher_update
  <2> QED
    BY <1>1, <1>5, <1>8, <1>10, <2>1, <2>2, <2>3
    DEF AppChooses, view_dispatcher_stop, begin_call, Begin
<1>11. CASE Others
  <2>1. ASSUME NEW p \in Guests, guest_opens(p) PROVE GuiTyped'
    BY <1>1, <2>1, ViewDispatcherAssumption DEF guest_opens, gui_add_view_port, GuiTyped
  <2>2. ASSUME NEW p \in Guests, guest_closes(p) PROVE GuiTyped'
    BY <1>1, <2>2, ViewDispatcherAssumption DEF guest_closes, gui_remove_view_port, GuiTyped
  <2>3. CASE (gui_set_lockdown \/ gui_direct_draw_acquire \/ gui_direct_draw_release)
             /\ UNCHANGED <<inputVars, threadVars>>
    BY <2>3
    DEF gui_set_lockdown, gui_direct_draw_acquire, gui_direct_draw_release, gui_update, GuiTyped
  <2> QED
    BY <1>11, <2>1, <2>2, <2>3 DEF Others
<1> QED
  BY <1>2, <1>3, <1>4, <1>7, <1>9, <1>10, <1>11 DEF Next, Changes

LEMMA DispatcherTypedStep ==
    KeysTyped /\ ViewsTyped /\ DispatcherTyped /\ [Next]_vars => DispatcherTyped'
<1> SUFFICES ASSUME KeysTyped, ViewsTyped, DispatcherTyped, [Next]_vars PROVE DispatcherTyped'
  OBVIOUS
<1> USE DEF viewVars, keyVars, appVars
<1>1. CASE UNCHANGED appVars
  BY <1>1 DEF DispatcherTyped
<1>2. NoCall \in [op : Calls \cup {"none"}, view : Views \cup {NoView}]
  BY DEF NoCall
<1>3. ASSUME NEW op \in Calls, NEW v \in Views \cup {NoView}
      PROVE  Call(op, v) \in [op : Calls \cup {"none"}, view : Views \cup {NoView}]
  BY DEF Call
<1>4. ASSUME NEW e \in Events, NEW target, view_port_input(e, target) PROVE DispatcherTyped'
  <2>1. [type |-> e.type, key |-> KeyOf(e)] \in KeyEvents
    BY GivenEvent
  <2>2. sacrificed' \in BOOLEAN
    BY <1>4 DEF view_port_input, DispatcherTyped
  <2> QED
    BY <1>4, <2>1, <2>2 DEF view_port_input, DispatcherTyped
<1>5. CASE view_dispatcher_input_callback
  <2>1. Len(input_queue') <= QueueSize
    BY <1>5, ViewDispatcherAssumption DEF view_dispatcher_input_callback, KeysTyped
  <2> QED
    BY <1>5, <2>1 DEF view_dispatcher_input_callback, DispatcherTyped
<1>6. input_queue # <<>> => Len(Tail(input_queue)) <= QueueSize
  BY ViewDispatcherAssumption DEF KeysTyped, DispatcherTyped
<1>7. ASSUME handle_input, left_handed' \in BOOLEAN, sacrificed' \in BOOLEAN
      PROVE  DispatcherTyped'
  <2>1. robbed_views' \subseteq Views
    BY <1>7 DEF handle_input, DispatcherTyped
  <2> QED
    BY <1>6, <1>7, <2>1 DEF handle_input, DispatcherTyped
<1>8. CASE AppGoesOn
  <2>1. CASE view_dispatcher_handle_input
    BY <1>7, <2>1 DEF view_dispatcher_handle_input, DispatcherTyped
  <2>2. CASE view_dispatcher_add_view
    BY <1>2, <2>2 DEF view_dispatcher_add_view, Calling, DispatcherTyped
  <2>3. CASE view_dispatcher_remove_view
    BY <1>2, <2>3 DEF view_dispatcher_remove_view, Hidden, Calling, DispatcherTyped
  <2>4. CASE set_orientation
    BY <1>2, <2>4 DEF set_orientation, Calling, DispatcherTyped
  <2>5. CASE view_dispatcher_send
    BY <1>2, <2>5 DEF view_dispatcher_send, Calling, DispatcherTyped
  <2>6. CASE drain
    BY <1>6, <2>6 DEF drain, DispatcherTyped
  <2>7. CASE begin_end
    BY <1>3, <2>7 DEF begin_end, Begin, Calls, DispatcherTyped, ViewsTyped
  <2>8. CASE view_dispatcher_free
    <3>1. Len(<<>>) <= QueueSize
      BY ViewDispatcherAssumption
    <3> QED
      BY <1>2, <2>8, <3>1 DEF view_dispatcher_free, Calling, DispatcherTyped
  <2> QED
    BY <1>8, <2>1, <2>2, <2>3, <2>4, <2>5, <2>6, <2>7, <2>8 DEF AppGoesOn
<1>9. ASSUME NEW v \in Views, view_dispatcher_switch_to_view(v) PROVE DispatcherTyped'
  <2>1. Call("turn", v) \in [op : Calls \cup {"none"}, view : Views \cup {NoView}]
    BY <1>3 DEF Calls
  <2> QED
    BY <1>9, <2>1 DEF view_dispatcher_switch_to_view, DispatcherTyped
<1>10. CASE AppStarts
  BY <1>9, <1>10 DEF AppStarts, view_dispatcher_attach_to_gui, DispatcherTyped
<1>11. CASE AppChooses
  <2>1. CASE switch_to_none
    BY <2>1 DEF switch_to_none, Hidden, DispatcherTyped
  <2>2. CASE view_dispatcher_stop
    BY <2>2 DEF view_dispatcher_stop, DispatcherTyped
  <2>3. CASE begin_call
    BY <1>3, <2>3 DEF begin_call, Begin, Calls, DispatcherTyped, ViewsTyped
  <2>4. CASE hand_orient_changed
    <3>1. left_handed' \in BOOLEAN
      BY <2>4 DEF hand_orient_changed
    <3>2. sacrificed' \in BOOLEAN
      BY <2>4 DEF hand_orient_changed, DispatcherTyped
    <3> QED
      BY <1>7, <2>4, <3>1, <3>2 DEF hand_orient_changed
  <2> QED
    BY <1>1, <1>9, <1>11, <2>1, <2>2, <2>3, <2>4 DEF AppChooses, view_dispatcher_update
<1> QED
  BY <1>1, <1>4, <1>5, <1>8, <1>10, <1>11 DEF vars, Next, Changes, InputService, GuiThread, Others

LEMMA ChangesTypedStep == changes \in 0..MaxChanges /\ [Next]_vars => changes' \in 0..MaxChanges
  BY ViewDispatcherAssumption DEF vars, Next, Changes

(* Every variable keeps its type, and neither queue outgrows its capacity.  *)
THEOREM TypeCorrect == Spec => []TypeOK
<1> DEFINE Typed == GuiTyped /\ DispatcherTyped /\ changes \in 0..MaxChanges
           Known == KeysTyped /\ ViewsTyped
<1>1. Init => Typed
  <2> SUFFICES ASSUME Init PROVE Typed
    OBVIOUS
  <2>1. GuiTyped
    <3>1. /\ Len(gui_queue) <= InputSize /\ strokes \in 0..MaxStrokes
          /\ injected \in 0..MaxInjected
      BY GuiAssumption DEF Init, GuiInit
    <3>2. enabled \subseteq Ports /\ robbed = {} /\ flags = {} /\ gui_at = "wait"
      BY DEF Init, GuiInit
    <3>3. telling = FALSE /\ gui_draws = FALSE /\ lockdown = FALSE /\ direct_draw = FALSE
          /\ stale = FALSE
      BY DEF Init, GuiInit
    <3> QED
      BY <3>1, <3>2, <3>3 DEF GuiTyped
  <2>2. DispatcherTyped
    <3>1. Len(input_queue) <= QueueSize
      BY ViewDispatcherAssumption DEF Init, AppInit
    <3>2. call \in [op : Calls \cup {"none"}, view : Views \cup {NoView}]
      BY DEF Init, AppInit, NoCall
    <3>3. /\ app_at = "off" /\ gui_event = NoEvent /\ robbed_views = {}
          /\ left_handed = FALSE /\ sacrificed = FALSE
      BY DEF Init, AppInit
    <3> QED
      BY <3>1, <3>2, <3>3 DEF DispatcherTyped
  <2>3. changes \in 0..MaxChanges
    BY ViewDispatcherAssumption DEF Init
  <2> QED
    BY <2>1, <2>2, <2>3
<1>2. Known /\ Typed /\ [Next]_vars => Typed'
  BY GuiTypedStep, DispatcherTypedStep, ChangesTypedStep
<1>3. KeyInv => KeysTyped
  BY DEF KeyInv
<1>4. Spec => []Known
  BY <1>3, KeyInvAlways, ViewsTypedAlways, PTL
<1>5. Spec => []Typed
  <2> HIDE DEF Typed, Known
  <2> QED
    BY <1>1, <1>2, <1>4, PTL DEF Spec
<1>6. Typed /\ KeysTyped /\ ViewsTyped /\ LayerInv /\ ViewsThere => TypeOK
  BY DEF GuiTyped, DispatcherTyped, KeysTyped, ViewsTyped, LayerInv, Sound, OwnersIn, ViewsThere,
         TypeOK, GuiTypeOK
<1> HIDE DEF Typed
<1> QED
  BY <1>4, <1>5, <1>6, LayerInvAlways, ViewsThereAlways, PTL
=============================================================================
