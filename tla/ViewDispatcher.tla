--------------------------- MODULE ViewDispatcher ---------------------------
(***************************************************************************)
(* An application with a view dispatcher (view_dispatcher.c) on the GUI    *)
(* service.  The dispatcher's view port puts the events it is given, under *)
(* the GUI lock and its own mutex, into a queue that the application's     *)
(* event loop empties; the loop gives each event to a view.  The GUI       *)
(* thread and the dispatcher each keep the set of keys that are down and   *)
(* the owner of these keys, and what they keep has to agree although a     *)
(* queue lies between them and views and view ports come and go.           *)
(*                                                                         *)
(* The application's callbacks (input, custom events, timers) are the      *)
(* choices of the application's thread when it is at "run"; a call that    *)
(* needs the GUI lock or the view port's mutex is begun in one step and    *)
(* done in another.  The port's mutex is waited for with a timeout of 2    *)
(* ticks in enabled_set, update and get_orientation, which go on without   *)
(* it: they do not wait here either.  Custom events and ticks change       *)
(* nothing that is kept here.                                              *)
(***************************************************************************)
EXTENDS Gui

CONSTANTS
    Views,
    Turned,         \* the views whose orientation is not the usual one
    KeyMap,         \* what a button stands for, by hand and by orientation
    App,            \* the view port of the dispatcher
    Guests,         \* view ports that other threads add and remove
    QueueSize,      \* capacity of the dispatcher's input_queue
    MaxChanges,     \* bound: calls of the application and of the others
    NoView, NoEvent

ASSUME ViewDispatcherAssumption ==
    /\ Turned \subseteq Views /\ NoView \notin Views
    /\ KeyMap \in [BOOLEAN -> [BOOLEAN -> [Keys -> Keys]]]
    /\ \A left, turn \in BOOLEAN : \A j, k \in Keys :
           KeyMap[left][turn][j] = KeyMap[left][turn][k] => j = k
    /\ App \in Ports /\ Guests \subseteq Ports \ {App}
    /\ QueueSize \in Nat \ {0} /\ MaxChanges \in Nat
    /\ NoEvent \notin [type : {"Press", "Short", "Release"}, key : Keys]

VARIABLES
    app_at,         \* off, run, drain (the rest of view_dispatcher_run), end
    call,           \* the call under way that waits for a lock, and its view
    views, current_view, ongoing_input_view,    \* of ViewDispatcher
    ongoing_keys,   \* its ongoing_input
    input_queue,    \* its input_queue
    gui_event,      \* the event that the GUI thread is putting there
    changes,        \* number of calls so far
    turned,         \* the orientation of the view port
    left_handed,    \* the hand orientation flag of the system
    held,           \* history: keys whose press a view got and not the release
    robbed_views,   \* history: the views with such keys when the owner was changed
                    \* by a press of a key that was down
    sacrificed      \* history: a key that is down came to stand for another key

viewVars == <<views, current_view, ongoing_input_view, held, robbed_views>>
keyVars == <<ongoing_keys, turned, left_handed, sacrificed>>
appVars == <<app_at, call, viewVars, keyVars, input_queue, gui_event>>
vars == <<guiVars, appVars, changes>>

(* What the dispatcher looks at in an event.                               *)
KeyEvents == [type : {"Press", "Short", "Release"}, key : Keys]

Calls == {"add", "remove", "turn", "front", "back", "free"}
NoCall == [op |-> "none", view |-> NoView]
Call(op, v) == [op |-> op, view |-> v]

TypeOK ==
    /\ GuiTypeOK
    /\ app_at \in {"off", "run", "drain", "end"}
    /\ call \in [op : Calls \cup {"none"}, view : Views \cup {NoView}]
    /\ views \subseteq Views
    /\ current_view \in Views \cup {NoView} /\ ongoing_input_view \in Views \cup {NoView}
    /\ ongoing_keys \subseteq Keys
    /\ input_queue \in Seq(KeyEvents) /\ Len(input_queue) <= QueueSize
    /\ gui_event \in KeyEvents \cup {NoEvent}
    /\ changes \in 0..MaxChanges
    /\ turned \in BOOLEAN /\ left_handed \in BOOLEAN /\ sacrificed \in BOOLEAN
    /\ held \in [Views -> SUBSET Keys] /\ robbed_views \subseteq Views

AppInit ==
    /\ app_at = "off" /\ call = NoCall
    /\ views = {} /\ current_view = NoView /\ ongoing_input_view = NoView
    /\ ongoing_keys = {} /\ input_queue = <<>>
    /\ turned = FALSE /\ sacrificed = FALSE
    /\ held = [v \in Views |-> {}] /\ robbed_views = {}

Init ==
    /\ GuiInit(Ports \ ({App} \cup Guests))
    /\ AppInit
    /\ gui_event = NoEvent /\ left_handed = FALSE /\ changes = 0

-----------------------------------------------------------------------------
(* The GUI thread gives an event to a view port: under its mutex, and for  *)
(* a button with the key that it stands for at the time.                   *)

KeyIn(left, turn, e) == IF e.source = "hardware" THEN KeyMap[left][turn][e.key] ELSE e.key

KeyOf(e) == KeyIn(left_handed, turned, e)

(* Two events of one key that stand for different keys, or of different    *)
(* keys that stand for one: buttons and software meet in a turned screen.  *)
Clash(e, x) == (KeyOf(e) = KeyOf(x)) # (e.key = x.key)

view_port_input(e, target) ==
    /\ gui_input(e, target)
    /\ IF target = App
       THEN /\ gui_at' = "put" /\ gui_event' = [type |-> e.type, key |-> KeyOf(e)]
            /\ sacrificed' = (sacrificed \/ \E x \in port_keys[App] : Clash(e, x))
       ELSE UNCHANGED <<gui_at, gui_event, sacrificed>>
    /\ UNCHANGED <<app_at, call, viewVars, ongoing_keys, turned, left_handed, input_queue>>

view_dispatcher_input_callback ==
    /\ gui_at = "put" /\ Len(input_queue) < QueueSize
    /\ input_queue' = Append(input_queue, gui_event)
    /\ gui_at' = "get" /\ gui_event' = NoEvent
    /\ UNCHANGED <<inputVars, gui_draws, keptVars, layerVars, screenVars,
                   app_at, call, viewVars, keyVars>>

-----------------------------------------------------------------------------
(* The application's thread                                                *)

AtRun == app_at = "run" /\ call = NoCall

(* It starts with its views added and its view port, not enabled yet, in   *)
(* the GUI's list.                                                         *)
view_dispatcher_attach_to_gui ==
    /\ app_at = "off" /\ app_at' = "run"
    /\ views' = Views
    /\ gui_add_view_port(App)
    /\ UNCHANGED <<enabled, inputVars, threadVars, call, current_view, ongoing_input_view, held,
                   robbed_views, keyVars, input_queue, gui_event>>

(* The view that gets e, by the rule that the GUI thread has for ports.    *)
ViewFor_current(current, owner, e) == IF current = owner THEN current ELSE NoView

ViewFor(current, owner, e) == Target(current, owner, e, NoView)

handle_input ==
    /\ AtRun /\ input_queue # <<>>
    /\ input_queue' = Tail(input_queue)
    /\ LET e == Head(input_queue) IN
       /\ ongoing_keys' = OngoingAfter(ongoing_keys, e)
       /\ IF Complementary(ongoing_keys, e)
          THEN LET owner == IF FirstPress(ongoing_keys, e)
                            THEN current_view ELSE ongoing_input_view
               IN  /\ ongoing_input_view' = owner
                   /\ held' = [v \in Views |->
                          IF v = ViewFor(current_view, owner, e)
                          THEN OngoingAfter(held[v], e) ELSE held[v]]
                   /\ robbed_views' =
                          {v \in Views : /\ held'[v] # {}
                                         /\ v \in robbed_views \/ Robs(e, ongoing_keys, owner, v)}
          ELSE UNCHANGED <<ongoing_input_view, held, robbed_views>>
    /\ UNCHANGED <<guiVars, app_at, call, views, current_view, turned, gui_event>>

view_dispatcher_handle_input == handle_input /\ UNCHANGED <<left_handed, sacrificed>>

(* An item of the settings takes a Short, or Repeat, in this way.          *)
hand_orient_changed ==
    /\ handle_input
    /\ LET e == Head(input_queue)
       IN  e.type = "Short" /\ e.key \in ongoing_keys
    /\ current_view = ongoing_input_view /\ current_view # NoView
    /\ left_handed' = ~left_handed
    /\ sacrificed' = (sacrificed \/ \E x \in port_keys[App] :
                                     KeyIn(left_handed', turned, x) # KeyOf(x))

(* The end of view_dispatcher_set_current_view for a view: the port is     *)
(* enabled, and an update is asked for.                                    *)
Shown ==
    /\ enabled' = enabled \cup {App}
    /\ UNCHANGED <<ongoing_input_view_port, layers, lockdown, direct_draw>>
    /\ gui_update

(* And for none: an update is asked for if the port was on, and the loop   *)
(* stops.                                                                  *)
Hidden ==
    /\ current_view' = NoView
    /\ enabled' = enabled \ {App}
    /\ app_at' = IF app_at = "run" THEN "drain" ELSE app_at
    /\ UNCHANGED <<ongoing_input_view_port, layers, lockdown, direct_draw>>
    /\ IF App \in enabled THEN gui_update ELSE UNCHANGED screenVars

view_dispatcher_switch_to_view(v) ==
    /\ AtRun /\ v \in views
    /\ current_view' = v
    /\ IF turned = (v \in Turned)
       THEN Shown /\ UNCHANGED call
       ELSE call' = Call("turn", v) /\ UNCHANGED <<layerVars, screenVars>>
    /\ UNCHANGED <<inputVars, threadVars, app_at, views, ongoing_input_view, held, robbed_views,
                   keyVars, input_queue, gui_event>>

switch_to_none ==
    /\ AtRun
    /\ Hidden
    /\ UNCHANGED <<inputVars, threadVars, call, views, ongoing_input_view, held, robbed_views,
                   keyVars, input_queue, gui_event>>

view_dispatcher_stop ==
    /\ AtRun /\ app_at' = "drain"
    /\ UNCHANGED <<guiVars, call, viewVars, keyVars, input_queue, gui_event>>

(* A view's model was changed, by this thread or another.                  *)
view_dispatcher_update ==
    /\ app_at = "run" /\ App \in enabled
    /\ UNCHANGED <<inputVars, threadVars, layerVars, appVars>>
    /\ gui_update

Begin(op, v) ==
    /\ call' = Call(op, v)
    /\ UNCHANGED <<guiVars, app_at, viewVars, keyVars, input_queue, gui_event>>

begin_call ==
    \/ AtRun /\ \E v \in Views \ views : Begin("add", v)
    \/ AtRun /\ \E v \in views : Begin("remove", v)
    \/ AtRun /\ \E op \in {"front", "back"} : Begin(op, NoView)

(* What a call does once it has the GUI lock, or the port's mutex: the GUI *)
(* thread lets go of both at once.                                         *)
Calling(op) == call.op = op /\ call' = NoCall /\ GuiLockFree

view_dispatcher_add_view ==
    /\ Calling("add")
    /\ views' = views \cup {call.view}
    /\ UNCHANGED <<guiVars, app_at, current_view, ongoing_input_view, held, robbed_views, keyVars,
                   input_queue, gui_event>>

ViewForgotten_never(v) == UNCHANGED ongoing_input_view

ViewForgotten(v) ==
    ongoing_input_view' = IF ongoing_input_view = v THEN NoView ELSE ongoing_input_view

view_dispatcher_remove_view ==
    /\ Calling("remove")
    /\ IF current_view = call.view
       THEN Hidden
       ELSE UNCHANGED <<layerVars, screenVars, current_view, app_at>>
    /\ ViewForgotten(call.view)
    /\ views' = views \ {call.view}
    /\ held' = [held EXCEPT ![call.view] = {}]
    /\ robbed_views' = robbed_views \ {call.view}
    /\ UNCHANGED <<inputVars, threadVars, keyVars, input_queue, gui_event>>

(* The rest of view_dispatcher_set_current_view: the screen is turned, and *)
(* the keys that are down are forgotten.                                   *)
set_orientation ==
    /\ Calling("turn")
    /\ turned' = ~turned
    /\ ongoing_keys' = {}
    /\ sacrificed' = (sacrificed \/ input_queue # <<>> \/ port_keys[App] # {})
    /\ Shown
    /\ UNCHANGED <<inputVars, threadVars, app_at, viewVars, left_handed, input_queue, gui_event>>

view_dispatcher_send ==
    /\ \E op \in {"front", "back"} : Calling(op)
    /\ gui_view_port_send(App, call.op = "front")
    /\ UNCHANGED <<inputVars, threadVars, app_at, viewVars, keyVars, input_queue, gui_event>>

drain_to_empty ==
    /\ app_at = "drain" /\ call = NoCall /\ input_queue # <<>>
    /\ input_queue' = Tail(input_queue)
    /\ ongoing_keys' = OngoingAfter(ongoing_keys, Head(input_queue))
    /\ app_at' = IF ongoing_keys' = {} THEN "end" ELSE "drain"
    /\ UNCHANGED <<guiVars, call, viewVars, turned, left_handed, sacrificed, gui_event>>

(* The rest of view_dispatcher_run: events are read until no key is down.  *)
drain ==
    /\ app_at = "drain" /\ call = NoCall
    /\ IF ongoing_keys = {}
       THEN app_at' = "end" /\ UNCHANGED <<ongoing_keys, input_queue>>
       ELSE /\ input_queue # <<>> /\ input_queue' = Tail(input_queue)
            /\ ongoing_keys' = OngoingAfter(ongoing_keys, Head(input_queue))
            /\ UNCHANGED app_at
    /\ UNCHANGED <<guiVars, call, viewVars, turned, left_handed, sacrificed, gui_event>>

(* The views are removed, and the dispatcher is freed.                     *)
begin_end ==
    /\ app_at = "end" /\ call = NoCall
    /\ IF views # {} THEN \E v \in views : Begin("remove", v) ELSE Begin("free", NoView)

view_dispatcher_free ==
    /\ Calling("free")
    /\ gui_remove_view_port(App)
    /\ enabled' = enabled \ {App}
    /\ port_keys' = [port_keys EXCEPT ![App] = {}] /\ robbed' = robbed \ {App}
    /\ app_at' = "off" /\ input_queue' = <<>>
    /\ views' = {} /\ current_view' = NoView /\ ongoing_input_view' = NoView
    /\ held' = [v \in Views |-> {}] /\ robbed_views' = {}
    /\ ongoing_keys' = {} /\ turned' = FALSE /\ sacrificed' = FALSE
    /\ UNCHANGED <<inputVars, gui_at, gui_draws, ongoing_input, left_handed, gui_event>>

-----------------------------------------------------------------------------
(* The other users of the GUI                                              *)

guest_opens(p) ==
    /\ gui_add_view_port(p)
    /\ enabled' = enabled \cup {p}
    /\ UNCHANGED <<inputVars, threadVars>>

guest_closes(p) ==
    /\ gui_remove_view_port(p)
    /\ enabled' = enabled \ {p}
    /\ port_keys' = [port_keys EXCEPT ![p] = {}] /\ robbed' = robbed \ {p}
    /\ UNCHANGED <<inputVars, gui_at, gui_draws, ongoing_input>>

Others ==
    /\ \/ \E p \in Guests : guest_opens(p) \/ guest_closes(p)
       \/ (gui_set_lockdown \/ gui_direct_draw_acquire \/ gui_direct_draw_release)
          /\ UNCHANGED <<inputVars, threadVars>>
    /\ UNCHANGED appVars

InputService ==
    /\ \/ \E k \in Keys : press(k) \/ hold(k) \/ release(k) \/ rpc_system_gui_free(k)
       \/ \E e \in Events : inject(e.type, e.key, e.source)
       \/ furi_thread_flags_set
    /\ UNCHANGED appVars

GuiThread ==
    \/ /\ furi_thread_flags_wait \/ queue_is_empty \/ clear_draw_flag \/ gui_redraw
       /\ UNCHANGED appVars
    \/ \E e \in Events, target \in Ports \cup {NoPort} : view_port_input(e, target)
    \/ view_dispatcher_input_callback

(* What the application's thread does by itself, and what it may choose.   *)
AppGoesOn ==
    \/ view_dispatcher_handle_input \/ view_dispatcher_add_view \/ view_dispatcher_remove_view
    \/ set_orientation \/ view_dispatcher_send \/ drain \/ begin_end \/ view_dispatcher_free

AppStarts ==
    \/ view_dispatcher_attach_to_gui
    \/ current_view = NoView /\ \E v \in Views : view_dispatcher_switch_to_view(v)

AppChooses ==
    \/ switch_to_none \/ view_dispatcher_stop \/ begin_call \/ view_dispatcher_update
    \/ hand_orient_changed
    \/ current_view # NoView /\ \E v \in Views : view_dispatcher_switch_to_view(v)

Changes == changes < MaxChanges /\ changes' = changes + 1 /\ (AppChooses \/ Others)

Next ==
    \/ (InputService \/ GuiThread \/ AppGoesOn \/ AppStarts) /\ UNCHANGED changes
    \/ Changes

(* The threads run, and who presses a key lets go of it: a finger, and a   *)
(* session at its end.                                                     *)
Fairness ==
    /\ WF_vars(GuiThread /\ UNCHANGED changes) /\ WF_vars(AppGoesOn /\ UNCHANGED changes)
    /\ WF_vars(furi_thread_flags_set /\ UNCHANGED <<appVars, changes>>)
    /\ \A k \in Keys : /\ WF_vars(release(k) /\ UNCHANGED <<appVars, changes>>)
                       /\ WF_vars(rpc_system_gui_free(k) /\ UNCHANGED <<appVars, changes>>)

Spec == Init /\ [][Next]_vars
FairSpec == Spec /\ Fairness
-----------------------------------------------------------------------------
(* The keys that are down once the events were seen: those that were       *)
(* pressed, or down before, and not released since.                        *)
IsPress(e, k) == e.type = "Press" /\ e.key = k
IsRelease(e, k) == e.type = "Release" /\ e.key = k

NotReleased(events, k, i) == \A j \in i..Len(events) : ~IsRelease(events[j], k)

Pressed(events, k) ==
    \E i \in 1..Len(events) : IsPress(events[i], k) /\ NotReleased(events, k, i + 1)

KeysAfter(ongoing, events) ==
    {k \in Keys : Pressed(events, k) \/ (k \in ongoing /\ NotReleased(events, k, 1))}

(* An event never goes to a view port or a view that is not there any      *)
(* more: the owners of the keys are forgotten when they are removed.       *)
NoStaleTarget ==
    /\ ongoing_input_view_port # NoPort => Attached(ongoing_input_view_port)
    /\ gui_at = "put" => Attached(App)
    /\ {current_view, ongoing_input_view} \subseteq views \cup {NoView}

(* A view port that is attached and got a press owns the keys until it got *)
(* the release, whatever is shown, locked or drawn in the meantime, unless *)
(* somebody else pressed a key that was down and so moved the owner.       *)
PortSeesRelease ==
    \A p \in Ports \ robbed : port_keys[p] # {} =>
        p = ongoing_input_view_port /\ \A x \in port_keys[p] : x.key \in ongoing_input

(* The GUI thread, with the events on their way to it, takes no key for    *)
(* down that nobody holds, and knows all that the buttons hold as long as  *)
(* software sends nothing; the dispatcher, with those on their way to it,  *)
(* knows the keys that its view port was given, unless one of them came to *)
(* stand for another: view_dispatcher_run and the complementarity check    *)
(* count on it.                                                            *)
GuiAgrees ==
    LET known == KeysAfter(ongoing_input, gui_queue)
    IN  /\ known \subseteq down["hardware"] \cup down["software"]
        /\ injected = 0 => known = down["hardware"]

OnTheWay == input_queue \o (IF gui_at = "put" THEN <<gui_event>> ELSE <<>>)

AppAgrees ==
    Attached(App) /\ ~sacrificed =>
        KeysAfter(ongoing_keys, OnTheWay) = {KeyOf(x) : x \in port_keys[App]}

KeysAgree == GuiAgrees /\ AppAgrees

(* A view that got a press is the owner until it got the release, also if  *)
(* another view is shown in the meantime, as long as the dispatcher runs,  *)
(* no key came to stand for another and none that was down was pressed     *)
(* again.                                                                  *)
ViewSeesRelease ==
    app_at = "run" /\ ~sacrificed =>
        \A v \in views \ robbed_views : held[v] # {} =>
            v = ongoing_input_view /\ held[v] \subseteq ongoing_keys

(* The GUI thread does not sleep on an event: the flag is set, or its      *)
(* sender is about to set it.                                              *)
NoLostInput ==
    gui_queue # <<>> /\ gui_at \in {"wait", "clear", "draw"} => "Input" \in flags \/ telling

(* The GUI thread waits, with the GUI lock, for room in the queue of an    *)
(* application that waits for that lock or reads its queue no more.        *)
GuiStuck ==
    gui_at = "put" /\ Len(input_queue) = QueueSize /\ (call # NoCall \/ app_at = "end")

(* Every update that was asked for is drawn, unless someone draws directly.*)
UpdatesAreDrawn == stale ~> (~stale \/ direct_draw \/ GuiStuck)

(* view_dispatcher_run returns after a stop, and the dispatcher can be     *)
(* freed, if no key of the port came to stand for another and nobody else  *)
(* pressed a key that was down.                                            *)
RunReturns ==
    app_at \in {"drain", "end"} ~> app_at = "off" \/ sacrificed \/ App \in robbed \/ GuiStuck

(* view_dispatcher.h, of view_dispatcher_run: it blocks until              *)
(* view_dispatcher_stop is called.                                         *)
StopEndsRun == app_at = "drain" ~> app_at # "drain" \/ GuiStuck

(* gui.h, of gui_direct_draw_acquire: input is disabled, so that no view   *)
(* port is given a press when the keys are up.                             *)
DirectDrawDisablesInput ==
    [][direct_draw /\ ongoing_input = {} =>
           \A p \in Ports : port_keys'[p] \subseteq port_keys[p]]_vars
=============================================================================
