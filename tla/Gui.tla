-------------------------------- MODULE Gui --------------------------------
(***************************************************************************)
(* The GUI service (gui.c): view ports in three layers, one thread that    *)
(* takes the key events of the input service from a queue and hands each   *)
(* to a view port, and that redraws the screen.  What is below is under    *)
(* the GUI lock, which the thread keeps while a view port's input callback *)
(* runs; that callback belongs to the module that uses this one            *)
(* (ViewDispatcher).                                                       *)
(*                                                                         *)
(* Events come from two sources: the buttons, of which the input service   *)
(* knows the state, and software (RPC, CLI), which sends what it likes.    *)
(* Short stands for Short, Long and Repeat.  Drawing is one step.          *)
(***************************************************************************)
EXTENDS Naturals, Sequences, FiniteSets, SequencesExt

CONSTANTS
    Keys,
    Ports,          \* view ports
    LayerOf,        \* the layer that each of them is added to
    InputSize,      \* capacity of Gui.input_queue
    MaxStrokes,     \* bound: presses of the buttons, and what is sent while one is held
    MaxInjected,    \* bound: events from software, but for releases of what it holds
    NoPort

Layers == {"Desktop", "Window", "Fullscreen"}
Sources == {"hardware", "software"}

ASSUME GuiAssumption ==
    /\ IsFiniteSet(Ports) /\ LayerOf \in [Ports -> Layers] /\ NoPort \notin Ports
    /\ InputSize \in Nat \ {0} /\ MaxStrokes \in Nat /\ MaxInjected \in Nat

VARIABLES
    down,           \* the keys that each source has pressed and not released
    strokes,        \* number of presses and holds of the buttons so far
    injected,       \* number of events from software so far
    gui_queue,      \* Gui.input_queue
    telling,        \* the input service has put an event and not set the flag
    flags,          \* the GUI thread's flags
    gui_at,         \* the GUI thread: wait, get, put, clear, draw
    gui_draws,      \* it took the Draw flag with the Input flag
    ongoing_input, ongoing_input_view_port,     \* of Gui
    layers,         \* Gui.layers, the last view port of a layer on top
    enabled,        \* the view ports with is_enabled
    lockdown, direct_draw,      \* of Gui
    port_keys,      \* history: keys, and who pressed them, whose press a view port
                    \* got and not the release
    robbed,         \* history: the view ports with such keys when the owner was
                    \* changed by a press of a key that was down
    stale           \* history: an update was asked for since the last redraw

inputVars == <<down, strokes, injected, gui_queue, telling>>
keptVars == <<ongoing_input, port_keys, robbed>>
threadVars == <<gui_at, gui_draws, keptVars>>
layerVars == <<ongoing_input_view_port, layers, enabled, lockdown, direct_draw>>
screenVars == <<flags, stale>>
guiVars == <<inputVars, threadVars, layerVars, screenVars>>

Events == [type : {"Press", "Short", "Release"}, key : Keys, source : Sources]
Event(type, key, source) == [type |-> type, key |-> key, source |-> source]

Attached(p) == \E l \in Layers : p \in ToSet(layers[l])

GuiTypeOK ==
    /\ down \in [Sources -> SUBSET Keys]
    /\ strokes \in 0..MaxStrokes /\ injected \in 0..MaxInjected
    /\ gui_queue \in Seq(Events) /\ Len(gui_queue) <= InputSize
    /\ telling \in BOOLEAN /\ flags \subseteq {"Input", "Draw"}
    /\ gui_at \in {"wait", "get", "put", "clear", "draw"} /\ gui_draws \in BOOLEAN
    /\ ongoing_input \subseteq Keys /\ ongoing_input_view_port \in Ports \cup {NoPort}
    /\ layers \in [Layers -> Seq(Ports)] /\ enabled \subseteq Ports
    /\ lockdown \in BOOLEAN /\ direct_draw \in BOOLEAN
    /\ port_keys \in [Ports -> SUBSET [key : Keys, source : Sources]]
    /\ robbed \subseteq Ports /\ stale \in BOOLEAN

(* The view ports of the services are there, and on.                       *)
GuiInit(services) ==
    /\ down = [source \in Sources |-> {}] /\ strokes = 0 /\ injected = 0
    /\ gui_queue = <<>> /\ telling = FALSE
    /\ flags = {} /\ gui_at = "wait" /\ gui_draws = FALSE
    /\ ongoing_input = {} /\ ongoing_input_view_port = NoPort
    /\ layers = [l \in Layers |-> SetToSeq({p \in services : LayerOf[p] = l})]
    /\ enabled = services
    /\ lockdown = FALSE /\ direct_draw = FALSE
    /\ port_keys = [p \in Ports |-> {}] /\ robbed = {} /\ stale = FALSE

-----------------------------------------------------------------------------
(* The input service, and who else injects events: one at a time, under    *)
(* the mutex of the input PubSub.  The put waits for room.                 *)
Publish(e) ==
    /\ ~telling /\ Len(gui_queue) < InputSize
    /\ gui_queue' = Append(gui_queue, e) /\ telling' = TRUE
    /\ UNCHANGED <<threadVars, layerVars, screenVars>>

press(k) ==
    /\ k \notin down["hardware"] /\ strokes < MaxStrokes
    /\ Publish(Event("Press", k, "hardware"))
    /\ down' = [down EXCEPT !["hardware"] = @ \cup {k}]
    /\ strokes' = strokes + 1 /\ UNCHANGED injected

hold(k) ==
    /\ k \in down["hardware"] /\ strokes < MaxStrokes
    /\ Publish(Event("Short", k, "hardware"))
    /\ strokes' = strokes + 1 /\ UNCHANGED <<down, injected>>

release(k) ==
    /\ k \in down["hardware"]
    /\ Publish(Event("Release", k, "hardware"))
    /\ down' = [down EXCEPT !["hardware"] = @ \ {k}]
    /\ UNCHANGED <<strokes, injected>>

(* RPC and CLI send any event, whatever is down.  The CLI leaves the source*)
(* of its event uninitialized, so that it may read as either.              *)
inject(type, k, source) ==
    /\ injected < MaxInjected
    /\ Publish(Event(type, k, source))
    /\ down' = [down EXCEPT !["software"] = CASE type = "Press"   -> @ \cup {k}
                                             [] type = "Release" -> @ \ {k}
                                             [] OTHER            -> @]
    /\ injected' = injected + 1 /\ UNCHANGED strokes

(* The end of an RPC session: what it pressed is released.                 *)
rpc_system_gui_free(k) ==
    /\ k \in down["software"]
    /\ Publish(Event("Release", k, "software"))
    /\ down' = [down EXCEPT !["software"] = @ \ {k}]
    /\ UNCHANGED <<strokes, injected>>

(* The second half of gui_input_events_callback.                           *)
furi_thread_flags_set ==
    /\ telling /\ telling' = FALSE
    /\ flags' = flags \cup {"Input"}
    /\ UNCHANGED <<down, strokes, injected, gui_queue, threadVars, layerVars, stale>>

-----------------------------------------------------------------------------
(* The GUI thread                                                          *)

GuiLockFree == gui_at # "put"

TurnEnds_undrawn(draws) == gui_at' = "wait"

TurnEnds(draws) == gui_at' = IF draws THEN "clear" ELSE "wait"

furi_thread_flags_wait ==
    /\ gui_at = "wait" /\ flags # {}
    /\ flags' = {}
    /\ IF "Input" \in flags
       THEN gui_at' = "get" /\ gui_draws' = ("Draw" \in flags)
       ELSE TurnEnds(TRUE) /\ UNCHANGED gui_draws
    /\ UNCHANGED <<inputVars, keptVars, layerVars, stale>>

queue_is_empty ==
    /\ gui_at = "get" /\ gui_queue = <<>>
    /\ TurnEnds(gui_draws) /\ gui_draws' = FALSE
    /\ UNCHANGED <<inputVars, keptVars, layerVars, screenVars>>

(* The enabled view port of a layer above which none is enabled.           *)
OnTop(l, p) ==
    /\ p \in enabled
    /\ \E i \in 1..Len(layers[l]) :
           /\ layers[l][i] = p
           /\ \A j \in (i + 1)..Len(layers[l]) : layers[l][j] \notin enabled

gui_view_port_find_enabled(l) ==
    IF \E p \in Ports : OnTop(l, p) THEN CHOOSE p \in Ports : OnTop(l, p) ELSE NoPort

Or(p, q) == IF p # NoPort THEN p ELSE q

Top ==
    LET desktop == gui_view_port_find_enabled("Desktop")
    IN  IF lockdown
        THEN desktop
        ELSE Or(gui_view_port_find_enabled("Fullscreen"),
                Or(gui_view_port_find_enabled("Window"), desktop))

OngoingAfter_toggles(ongoing, e) ==
    CASE e.type = "Press"   -> (ongoing \cup {e.key}) \ (ongoing \cap {e.key})
      [] e.type = "Release" -> ongoing \ {e.key}
      [] OTHER              -> ongoing

(* The keys that are ongoing once e was seen.                              *)
OngoingAfter(ongoing, e) ==
    CASE e.type = "Press"   -> ongoing \cup {e.key}
      [] e.type = "Release" -> ongoing \ {e.key}
      [] OTHER              -> ongoing

Complementary(ongoing, e) == e.type = "Short" => e.key \in ongoing

(* A press of a key that is down counts as the first if no other key is.   *)
FirstPress(ongoing, e) == e.type = "Press" /\ OngoingAfter(ongoing, e) = {e.key}

(* Who gets e: whoever is on top if the keys are its own, and a release    *)
(* goes to the owner of the keys anyway.                                   *)
Target_top(top, owner, e, none) == IF top = owner THEN top ELSE none

Target(top, owner, e, none) ==
    IF top = owner \/ e.type = "Release" THEN owner ELSE none

(* The keys of a view port once it was given e: a release is of the key,   *)
(* whoever pressed it.                                                     *)
GivenAfter(given, e) ==
    CASE e.type = "Press"   -> given \cup {[key |-> e.key, source |-> e.source]}
      [] e.type = "Release" -> {x \in given : x.key # e.key}
      [] OTHER              -> given

(* Of those that hold keys, those from which e takes them: it is a press   *)
(* of a key that is down, and they do not own the keys after it.           *)
Robs(e, ongoing, owner, holder) == e.type = "Press" /\ e.key \in ongoing /\ holder # owner

(* gui_input: the event and the view port that gets it, if any.            *)
gui_input(e, target) ==
    /\ gui_at = "get" /\ gui_queue # <<>> /\ e = Head(gui_queue)
    /\ gui_queue' = Tail(gui_queue)
    /\ ongoing_input' = OngoingAfter(ongoing_input, e)
    /\ IF Complementary(ongoing_input, e) /\ ~(direct_draw /\ ongoing_input_view_port = NoPort)
       THEN /\ ongoing_input_view_port' =
                   IF FirstPress(ongoing_input, e) THEN Top ELSE ongoing_input_view_port
            /\ target = Target(Top, ongoing_input_view_port', e, NoPort)
       ELSE target = NoPort /\ UNCHANGED ongoing_input_view_port
    /\ port_keys' = [p \in Ports |->
           IF p = target THEN GivenAfter(port_keys[p], e) ELSE port_keys[p]]
    /\ robbed' = {p \in Ports : /\ port_keys'[p] # {}
                                /\ p \in robbed \/ Robs(e, ongoing_input,
                                                        ongoing_input_view_port', p)}
    /\ UNCHANGED <<down, strokes, injected, telling, gui_draws, layers, enabled, lockdown, direct_draw,
                   screenVars>>

clear_draw_flag_all ==
    /\ gui_at = "clear" /\ gui_at' = "draw"
    /\ flags' = {}
    /\ UNCHANGED <<inputVars, gui_draws, keptVars, layerVars, stale>>

clear_draw_flag ==
    /\ gui_at = "clear" /\ gui_at' = "draw"
    /\ flags' = flags \ {"Draw"}
    /\ UNCHANGED <<inputVars, gui_draws, keptVars, layerVars, stale>>

gui_redraw ==
    /\ gui_at = "draw" /\ gui_at' = "wait"
    /\ stale' = (stale /\ direct_draw)
    /\ UNCHANGED <<inputVars, gui_draws, keptVars, layerVars, flags>>

-----------------------------------------------------------------------------
(* The API.  Each call waits for the lock, and asks for an update last.    *)

gui_update ==
    /\ stale' = TRUE
    /\ flags' = IF direct_draw' THEN flags ELSE flags \cup {"Draw"}

gui_add_view_port(p) ==
    /\ GuiLockFree /\ ~Attached(p)
    /\ layers' = [layers EXCEPT ![LayerOf[p]] = Append(@, p)]
    /\ UNCHANGED <<ongoing_input_view_port, lockdown, direct_draw>>
    /\ gui_update

(* A view port is in one layer, and there once: it is added only if it is  *)
(* in none.                                                                *)
Without(p) ==
    LET layer == layers[LayerOf[p]]
        at == CHOOSE i \in 1..Len(layer) : layer[i] = p
    IN  [layers EXCEPT ![LayerOf[p]] = RemoveAt(layer, at)]

PortForgotten(p) ==
    ongoing_input_view_port' =
        IF ongoing_input_view_port = p THEN NoPort ELSE ongoing_input_view_port

gui_remove_view_port(p) ==
    /\ GuiLockFree /\ Attached(p)
    /\ layers' = Without(p)
    /\ PortForgotten(p)
    /\ UNCHANGED <<lockdown, direct_draw>>
    /\ gui_update

(* gui_view_port_send_to_front and gui_view_port_send_to_back.             *)
gui_view_port_send(p, to_front) ==
    /\ GuiLockFree /\ Attached(p)
    /\ layers' = [Without(p) EXCEPT ![LayerOf[p]] = IF to_front THEN Append(@, p) ELSE <<p>> \o @]
    /\ UNCHANGED <<ongoing_input_view_port, enabled, lockdown, direct_draw>>
    /\ gui_update

gui_set_lockdown ==
    /\ GuiLockFree
    /\ lockdown' = ~lockdown
    /\ UNCHANGED <<ongoing_input_view_port, layers, enabled, direct_draw>>
    /\ gui_update

gui_direct_draw_acquire ==
    /\ GuiLockFree /\ ~direct_draw /\ direct_draw' = TRUE
    /\ UNCHANGED <<ongoing_input_view_port, layers, enabled, lockdown, screenVars>>

gui_direct_draw_release ==
    /\ GuiLockFree /\ direct_draw /\ direct_draw' = FALSE
    /\ UNCHANGED <<ongoing_input_view_port, layers, enabled, lockdown>>
    /\ gui_update
=============================================================================
