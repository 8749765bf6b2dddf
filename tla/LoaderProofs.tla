---------------------------- MODULE LoaderProofs ----------------------------
(* Proofs about Loader: for any clients, names and queue sizes it           *)
(* implements AppSlot, its own checks hold, the application's memory is     *)
(* freed after the init thread is done with it, the desktop and the browser *)
(* are told in time, and no launch is left behind.                          *)
EXTENDS Loader, TLAPS

USE DEF threadVars, loaderVars, desktopVars, Ends

-----------------------------------------------------------------------------
(* The messages that are really sent, and the launches that are deferred.  *)
Asking == {"Start", "Lock", "Query", "EnqueueLaunch", "ClearLaunchQueue"}

Asks(m) == m.type \in Asking

Sent == {m \in Messages :
    /\ m.from \in Processes /\ m.type \notin {"Deferred", "None"}
    /\ m.type \in {"Lock", "Unlock"} => m.from \in Clients
    /\ m.type = "Unlock" => m = Plain("Unlock", m.from)
    /\ m.type = "EnqueueLaunch" => m.from = App /\ m.name # Applications
    /\ m.type = "Start" /\ m.from = Browser => m.name # Applications}

Deferrals == {m \in Messages : m.type = "Deferred" /\ m.name # Applications}

Places == {"run", "wait", "locked", "start", "flag", "leave", "end", "detach", "menu"}

(* The type invariant in parts.                                            *)
QueueOK == queue \in Seq(Sent) /\ Len(queue) <= QueueSize

LaunchOK == launch_queue \in Seq(Deferrals) /\ Len(launch_queue) <= LaunchSize

AtOK == at \in [Processes -> Places]

LoaderOK ==
    /\ slot \in {Null, Locked, App}
    /\ handling \in Sent \cup Deferrals \cup {NoMessage}
    /\ loader_at = "get" => handling = NoMessage
    /\ loader_at = "acknowledge" => handling.type \in {"Start", "Detached", "Deferred"}
    /\ loader_at = "dialog" => handling.type \in {"Detached", "Deferred"}
    /\ loader_at = "join" => handling.type \in DOMAIN Ends
    /\ loader_at \in {"get", "acknowledge", "dialog", "join"}

DesktopOK ==
    /\ events \in Seq({"BeforeLoad", "NoMoreAppsInQueue"})
    /\ animation_semaphore \in BOOLEAN /\ app_running \in BOOLEAN /\ stop_event \in BOOLEAN
    /\ crashed \in {"none", "animation", "loader"}
    /\ calls \in 0..MaxCalls

TypeInv ==
    ThreadsTypeOK /\ QueueOK /\ LaunchOK /\ AtOK /\ LoaderOK /\ DesktopOK

LEMMA Names_apart ==
    /\ App \in Threads /\ Menu \in Threads /\ Browser \in Threads
    /\ Clients \subseteq Processes /\ Threads \subseteq Processes /\ Desktop \in Processes
    /\ \A c \in Clients : c \notin Threads
    /\ Desktop \notin Threads /\ Desktop \notin Clients
    /\ App # Menu /\ App # Browser /\ Menu # Browser
    /\ Null # Locked /\ App # Null /\ App # Locked /\ Null \notin Clients
BY LoaderAssumption DEF Processes

-----------------------------------------------------------------------------
(* Who waits for an answer has one message with the loader.                *)
CallInv ==
    /\ \A i \in DOMAIN queue : Asks(queue[i]) =>
           /\ at[queue[i].from] = "wait"
           /\ handling.type = "Start" => handling.from # queue[i].from
    /\ \A i, j \in DOMAIN queue :
           Asks(queue[i]) /\ Asks(queue[j]) /\ queue[i].from = queue[j].from => i = j
    /\ handling.type = "Start" => at[handling.from] = "wait"

(* A thread that is not running waits for nothing, and is in one place of  *)
(* its way to the end.                                                     *)
ThreadInv ==
    /\ \A t \in Threads : at[t] = "wait" => Alive(t)
    /\ thread[Browser] = "Starting" => at[Browser] = "run"
    /\ \A i \in DOMAIN scrub_queue :
           /\ thread[scrub_queue[i]] = "Stopping"
           /\ scrubber.at = "mark" => scrub_queue[i] # scrubber.of
    /\ \A i, j \in DOMAIN scrub_queue : scrub_queue[i] = scrub_queue[j] => i = j
    /\ scrubber.at = "mark" => thread[scrubber.of] = "Stopping"

(* The lock has one holder, until the holder's unlock is handled.          *)
Unlocking(i) == i \in DOMAIN queue /\ queue[i].type = "Unlock"

LockInv ==
    /\ \A c, d \in Clients : HasLock(c) /\ HasLock(d) => c = d
    /\ \A c \in Clients : HasLock(c) => slot = Locked
    /\ slot = Locked => \E c \in Clients : HasLock(c)
    /\ \A i : Unlocking(i) => at[queue[i].from] # "locked"
    /\ \A i, j : Unlocking(i) /\ Unlocking(j) => i = j

(* The application has the slot while it has a thread, and its end is told *)
(* once.                                                                   *)
Told(i) == i \in DOMAIN queue /\ queue[i].type = "AppClosed"

Reaping == loader_at = "join" /\ handling.type = "AppClosed"

EndInv ==
    /\ slot = App <=> Allocated(App)
    /\ (\E i : Told(i)) \/ Reaping => thread[App] = "Stopped" /\ scrubber.of # App
    /\ \A i : Told(i) => ~Reaping
    /\ \A i, j : Told(i) /\ Told(j) => i = j
    /\ scrubber.of = App /\ scrubber.at # "mark" => thread[App] = "Stopped"

(* What is on its way to the desktop.                                      *)
DesktopInv ==
    /\ animation_semaphore => loader_at = "acknowledge" /\ events = <<>> /\ app_running
    /\ \A i \in DOMAIN events : events[i] = "BeforeLoad" <=>
           i = Len(events) /\ loader_at = "acknowledge" /\ ~animation_semaphore
    /\ loader_at = "acknowledge" /\ ~animation_semaphore => events # <<>>
    /\ slot = App => \A i \in DOMAIN events : events[i] = "BeforeLoad"
    /\ DesktopStalledWhileAppRuns

(* A deferred launch is handled while the slot is free, and a browser that  *)
(* waits for the end of its application will be told of it.                *)
DeferredWhileFree == handling.type = "Deferred" \/ loader_at = "dialog" => slot = Null

WaitsForEnd == at[Browser] = "flag" /\ Alive(Browser)

BrowserInv == WaitsForEnd /\ slot # App => stop_event \/ handling.type = "Deferred"

LoaderInv ==
    /\ TypeInv /\ CallInv /\ ThreadInv /\ LockInv /\ EndInv /\ DesktopInv
    /\ DeferredWhileFree /\ NoLaunchLeftBehind /\ BrowserInv /\ ChecksHold

-----------------------------------------------------------------------------
(* The steps of the specification, the callers' by what they have in common. *)

Calling ==
    \E m \in Sent :
        /\ Asks(m) /\ m.from \in Clients \cup {Menu, App}
        /\ loader_generic_synchronous_request(m)

Telling ==
    \E m \in Sent, from \in {"run", "detach", "menu"}, to \in {"run", "end"} :
        /\ m.type \in {"MenuClosed", "ApplicationsClosed", "Detached", "ShowMenu"}
        /\ PutAndGo(m, from, to)

Moving ==
    \E p \in {Desktop, Browser}, from \in {"run", "flag", "leave"},
       to \in {"start", "leave", "run", "detach", "menu"} :
        /\ Goes(p, from, to) /\ Alive(p) /\ (from = "flag" => p = Browser)
        /\ (stop_event' = stop_event) \/ from = "flag"
        /\ stop_event' \in BOOLEAN /\ calls' \in 0..MaxCalls
        /\ UNCHANGED <<threadVars, loaderVars, desktopVars, queue, crashed>>

CallerStep ==
    \/ Calling \/ Telling \/ Moving \/ browser_start
    \/ \E c \in Clients : loader_unlock(c)
    \/ dialog_closed \/ animation_timeout \/ desktop_custom_event_callback

InitThreadStep ==
    \/ Scrub \/ loader_thread_state_callback
    \/ \E t \in Threads : ThreadBegins(t) \/ ThreadReturns(t)

Steps == crashed = "none" /\ (LoaderStep \/ CallerStep \/ InitThreadStep)

LEMMA PlainSent ==
    /\ \A type \in {"Query", "Lock", "Unlock"}, c \in Clients : Plain(type, c) \in Sent
    /\ \A type \in {"MenuClosed", "ApplicationsClosed", "AppClosed", "ShowMenu",
                    "ClearLaunchQueue"}, p \in Processes : Plain(type, p) \in Sent
BY Names_apart DEF Plain, Sent, Messages, Types

LEMMA NamedSent ==
    /\ \A p \in Clients \cup {Menu}, name \in Names : Named("Start", p, name) \in Sent
    /\ \A name \in Names \ {Applications} : Named("Start", Browser, name) \in Sent
    /\ \A name \in Names : Named("Detached", Desktop, name) \in Sent
    /\ \A name \in Names \ {Applications}, gui \in BOOLEAN :
          [Named("EnqueueLaunch", App, name) EXCEPT !.gui = gui] \in Sent
BY Names_apart DEF Named, Sent, Messages, Types

LEMMA TheSteps == TypeInv /\ Next => Steps
<1> SUFFICES ASSUME TypeInv, Next PROVE Steps
  OBVIOUS
<1>1. ASSUME NEW p \in Clients \cup {Menu}, loader_start(p) PROVE Calling
  BY <1>1, NamedSent DEF loader_start, Calling, Asks, Asking, Named
<1>2. ASSUME NEW c \in Clients, loader_lock(c) \/ loader_query(c) PROVE Calling
  BY <1>2, PlainSent DEF loader_lock, loader_query, Calling, Asks, Asking, Plain
<1>3. ASSUME loader_enqueue_launch PROVE Calling
  <2>1. PICK name \in Names \ {Applications}, gui \in BOOLEAN :
            loader_generic_synchronous_request(
                [Named("EnqueueLaunch", App, name) EXCEPT !.gui = gui])
    BY <1>3 DEF loader_enqueue_launch
  <2> QED
    BY <2>1, NamedSent DEF Calling, Asks, Asking, Named
<1>4. ASSUME loader_clear_launch_queue PROVE Calling
  BY <1>4, PlainSent, Names_apart DEF loader_clear_launch_queue, Calling, Asks, Asking, Plain
<1>5. ASSUME loader_menu_closed_callback \/ loader_applications_closed_callback PROVE Telling
  BY <1>5, PlainSent, Names_apart
  DEF loader_menu_closed_callback, loader_applications_closed_callback, Telling, Plain
<1>6. ASSUME loader_start_detached_with_gui_error PROVE Telling
  BY <1>6, NamedSent DEF loader_start_detached_with_gui_error, Telling, Named
<1>7. ASSUME loader_show_menu PROVE Telling
  BY <1>7, PlainSent, Names_apart DEF loader_show_menu, Telling, Plain
<1>8. ASSUME desktop_press("detach") \/ desktop_press("menu") PROVE Moving
  BY <1>8, Names_apart, LoaderAssumption DEF desktop_press, Moving, Counted, TypeInv, DesktopOK, Alive
<1>9. ASSUME browser_subscribe PROVE Moving
  BY <1>9, LoaderAssumption DEF browser_subscribe, BrowserGoes, Moving, Counted, TypeInv, DesktopOK
<1>10. ASSUME browser_flags_wait \/ browser_unsubscribe PROVE Moving
  BY <1>10 DEF browser_flags_wait, browser_unsubscribe, BrowserGoes, Moving, TypeInv, DesktopOK
<1> QED
  BY <1>1, <1>2, <1>3, <1>4, <1>5, <1>6, <1>7, <1>8, <1>9, <1>10
  DEF Next, Steps, CallerStep, InitThreadStep, ScrubberStep, DesktopStep, BrowserStep, UserStep

-----------------------------------------------------------------------------
(* Type correctness.                                                       *)

USE DEF Handles, Take, Answer, Idle, Joins, Acknowledged, loader_do_is_locked, CanLock, Goes

LEMMA InitType == Init => TypeInv
<1> SUFFICES ASSUME Init PROVE TypeInv
  OBVIOUS
<1> USE LoaderAssumption, ThreadsAssumption DEF Init
<1>1. ThreadsTypeOK
  BY DEF ThreadsInit, ThreadsTypeOK, ThreadStates, ScrubberIdle
<1>2. QueueOK /\ LaunchOK
  BY DEF QueueOK, LaunchOK
<1>3. AtOK
  BY DEF AtOK, Places
<1>5. /\ animation_semaphore \in BOOLEAN /\ app_running \in BOOLEAN /\ stop_event \in BOOLEAN
      /\ crashed \in {"none", "animation", "loader"}
  OBVIOUS
<1>6. DesktopOK
  BY <1>5 DEF DesktopOK
<1>4. LoaderOK
  BY DEF LoaderOK
<1> QED
  BY <1>1, <1>2, <1>3, <1>4, <1>6 DEF TypeInv

(* What a step does to the queue: nothing, take the first, or add one.     *)
Took == queue # <<>> /\ queue' = Tail(queue)

Added(m) == Len(queue) < QueueSize /\ queue' = Append(queue, m)

LEMMA QueueSteps ==
    TypeInv /\ Steps => queue' = queue \/ Took \/ \E m \in Sent : Added(m)
<1> SUFFICES ASSUME TypeInv, Steps PROVE queue' = queue \/ Took \/ \E m \in Sent : Added(m)
  OBVIOUS
<1> USE DEF Took, Added
<1>1. CASE handle_start \/ start_application \/ start_applications \/ start_refused \/ start_failed
  BY <1>1 DEF handle_start, start_application, start_applications, start_refused, start_failed
<1>2. CASE loader_do_lock \/ loader_do_unlock \/ loader_do_query \/ handle_enqueue_launch
  BY <1>2 DEF loader_do_lock, loader_do_unlock, loader_do_query, handle_enqueue_launch
<1>3. CASE handle_clear_launch_queue \/ loader_do_menu_show
  BY <1>3 DEF handle_clear_launch_queue, loader_do_menu_show
<1>4. CASE handle_closed \/ loader_do_menu_closed \/ loader_do_app_closed
  BY <1>4 DEF handle_closed, loader_do_menu_closed, loader_do_app_closed
<1>5. CASE Calling \/ Telling
  BY <1>5 DEF Calling, Telling, loader_generic_synchronous_request, PutAndGo, Put
<1>6. CASE Moving
  BY <1>6 DEF Moving
<1>7. CASE browser_start
  BY <1>7, NamedSent DEF browser_start, PutAndGo, Put
<1>8. ASSUME NEW c \in Clients, loader_unlock(c) PROVE \E m \in Sent : Added(m)
  BY <1>8, PlainSent DEF loader_unlock, PutAndGo, Put
<1>9. CASE dialog_closed \/ animation_timeout \/ desktop_custom_event_callback
  BY <1>9 DEF dialog_closed, animation_timeout, desktop_custom_event_callback
<1>10. CASE loader_thread_state_callback
  BY <1>10, PlainSent, Names_apart DEF loader_thread_state_callback, Put
<1>11. CASE Scrub \/ \E t \in Threads : ThreadBegins(t) \/ ThreadReturns(t)
  BY <1>11 DEF Scrub, ThreadBegins, ThreadReturns
<1> QED
  BY <1>1, <1>2, <1>3, <1>4, <1>5, <1>6, <1>7, <1>8, <1>9, <1>10, <1>11
  DEF Steps, LoaderStep, CallerStep, InitThreadStep

LEMMA QueueOKNext == TypeInv /\ Steps => QueueOK'
BY QueueSteps, LoaderAssumption DEF TypeInv, QueueOK, Took, Added

(* What a step does to the threads.                                        *)
ThreadStep ==
    \/ UNCHANGED threadVars
    \/ \E t \in Threads : StartThread(t) \/ JoinAndFree(t) \/ furi_thread_body(t)
    \/ \E t \in Threads : MayReturn(t) /\ furi_thread_body_returns(t)
    \/ ScrubStep
    \/ InCallback(App) /\ Delivered

LEMMA ThreadSteps == TypeInv /\ Steps => ThreadStep
<1> SUFFICES ASSUME TypeInv, Steps PROVE ThreadStep
  OBVIOUS
<1> USE Names_apart DEF ThreadStep
<1>1. CASE handle_start \/ start_application \/ start_applications \/ start_refused \/ start_failed
  BY <1>1 DEF handle_start, start_application, start_applications, start_refused, start_failed
<1>2. CASE loader_do_lock \/ loader_do_unlock \/ loader_do_query \/ handle_enqueue_launch
  BY <1>2 DEF loader_do_lock, loader_do_unlock, loader_do_query, handle_enqueue_launch
<1>3. CASE handle_clear_launch_queue \/ loader_do_menu_show
  BY <1>3 DEF handle_clear_launch_queue, loader_do_menu_show
<1>4. CASE handle_closed \/ loader_do_menu_closed \/ loader_do_app_closed
  BY <1>4 DEF handle_closed, loader_do_menu_closed, loader_do_app_closed
<1>5. CASE CallerStep
  BY <1>5 DEF CallerStep, Calling, Telling, Moving, browser_start, loader_unlock, dialog_closed,
     animation_timeout, desktop_custom_event_callback, loader_generic_synchronous_request, PutAndGo
<1>6. CASE InitThreadStep
  BY <1>6 DEF InitThreadStep, Scrub, loader_thread_state_callback, ThreadBegins, ThreadReturns
<1> QED
  BY <1>1, <1>2, <1>3, <1>4, <1>5, <1>6 DEF Steps, LoaderStep

LEMMA ThreadsOKNext == TypeInv /\ Steps => ThreadsTypeOK'
<1> SUFFICES ASSUME ThreadsTypeOK, ThreadStep PROVE ThreadsTypeOK'
  BY ThreadSteps DEF TypeInv
<1> USE ThreadsAssumption DEF ThreadsTypeOK, ThreadStates, Scrubbing, ScrubberIdle
<1>1. CASE UNCHANGED threadVars
  BY <1>1
<1>2. ASSUME NEW t \in Threads, StartThread(t) \/ JoinAndFree(t) \/ furi_thread_body(t)
      PROVE  ThreadsTypeOK'
  BY <1>2 DEF StartThread, JoinAndFree, furi_thread_body
<1>3. ASSUME NEW t \in Threads, furi_thread_body_returns(t) PROVE ThreadsTypeOK'
  BY <1>3 DEF furi_thread_body_returns
<1>4. CASE scrub_get
  BY <1>4 DEF scrub_get
<1>5. CASE scrub_mark \/ scrub_read \/ Delivered
  BY <1>5 DEF scrub_mark, scrub_read, Delivered
<1> QED
  BY <1>1, <1>2, <1>3, <1>4, <1>5 DEF ThreadStep, ScrubStep

LEMMA HeadSent == QueueOK /\ queue # <<>> => Head(queue) \in Sent
BY DEF QueueOK

LEMMA HeadDeferred ==
    LaunchOK /\ launch_queue # <<>> =>
        Head(launch_queue) \in Deferrals /\ Tail(launch_queue) \in Seq(Deferrals)
BY DEF LaunchOK

(* A launch that is enqueued is deferred.                                  *)
LEMMA Deferral ==
    ASSUME NEW m \in Sent, m.type = "EnqueueLaunch"
    PROVE  [m EXCEPT !.type = "Deferred", !.from = Null] \in Deferrals
BY DEF Sent, Deferrals, Messages, Types

LEMMA LaunchOKNext == TypeInv /\ Steps => LaunchOK'
<1> SUFFICES ASSUME TypeInv, QueueOK, LaunchOK, Steps PROVE LaunchOK'
  BY DEF TypeInv
<1> USE LoaderAssumption DEF LaunchOK
<1>1. CASE handle_start \/ start_application \/ start_applications \/ start_refused
  BY <1>1 DEF handle_start, start_application, start_applications, start_refused, fail_start
<1>2. ASSUME loader_do_next_deferred_launch_if_available PROVE LaunchOK'
  BY <1>2, HeadDeferred DEF loader_do_next_deferred_launch_if_available, BeginStart
<1>3. CASE start_failed \/ dialog_closed \/ loader_do_app_closed
  BY <1>2, <1>3 DEF start_failed, dialog_closed, loader_do_app_closed, fail_start
<1>4. CASE loader_do_lock \/ loader_do_unlock \/ loader_do_query \/ loader_do_menu_show
  BY <1>4 DEF loader_do_lock, loader_do_unlock, loader_do_query, loader_do_menu_show
<1>5. CASE handle_enqueue_launch
  <2> DEFINE d == [Head(queue) EXCEPT !.type = "Deferred", !.from = Null]
  <2>1. d \in Deferrals
    BY <1>5, HeadSent, Deferral DEF handle_enqueue_launch
  <2>2. \/ launch_queue' = launch_queue
        \/ Len(launch_queue) < LaunchSize /\ launch_queue' = Append(launch_queue, d)
    BY <1>5 DEF handle_enqueue_launch
  <2> HIDE DEF d
  <2> QED
    BY <2>1, <2>2
<1>6. CASE handle_clear_launch_queue
  <2>1. launch_queue' = <<>>
    BY <1>6 DEF handle_clear_launch_queue
  <2> QED
    BY <2>1
<1>9. CASE handle_closed \/ loader_do_menu_closed
  BY <1>9 DEF handle_closed, loader_do_menu_closed
<1>7. CASE CallerStep /\ ~dialog_closed
  BY <1>7 DEF CallerStep, Calling, Telling, Moving, browser_start, loader_unlock,
     animation_timeout, desktop_custom_event_callback, loader_generic_synchronous_request, PutAndGo
<1>8. CASE InitThreadStep
  BY <1>8 DEF InitThreadStep, Scrub, loader_thread_state_callback, ThreadBegins, ThreadReturns
<1> QED
  BY <1>1, <1>3, <1>4, <1>5, <1>6, <1>7, <1>8, <1>9 DEF Steps, LoaderStep, CallerStep

LEMMA AtOKNext == TypeInv /\ Steps => AtOK'
<1> SUFFICES ASSUME TypeInv, QueueOK, AtOK, Steps PROVE AtOK'
  BY DEF TypeInv
<1> USE Names_apart DEF AtOK, Places
<1>1. CASE handle_start \/ loader_do_unlock \/ handle_closed \/ loader_do_menu_closed
              \/ loader_do_app_closed
  BY <1>1 DEF handle_start, loader_do_unlock, handle_closed, loader_do_menu_closed,
              loader_do_app_closed
<1>2. CASE start_application \/ start_applications
  BY <1>2 DEF start_application, start_applications, Answered
<1>3. CASE start_refused \/ start_failed
  BY <1>3 DEF start_refused, start_failed, fail_start, Answered
<1>4. CASE loader_do_lock \/ loader_do_query \/ loader_do_menu_show
  BY <1>4 DEF loader_do_lock, loader_do_query, loader_do_menu_show
<1>5. CASE handle_enqueue_launch \/ handle_clear_launch_queue
  BY <1>5 DEF handle_enqueue_launch, handle_clear_launch_queue
<1>6. CASE CallerStep
  <2>1. CASE Calling \/ Moving
    BY <2>1 DEF Calling, Moving, loader_generic_synchronous_request
  <2>2. CASE Telling
    BY <2>2 DEF Telling, PutAndGo
  <2>3. CASE browser_start \/ \E c \in Clients : loader_unlock(c)
    BY <2>3 DEF browser_start, loader_unlock, PutAndGo, Plain, Named
  <2>4. CASE dialog_closed \/ animation_timeout \/ desktop_custom_event_callback
    BY <2>4 DEF dialog_closed, animation_timeout, desktop_custom_event_callback
  <2> QED
    BY <1>6, <2>1, <2>2, <2>3, <2>4 DEF CallerStep
<1>7. CASE InitThreadStep
  BY <1>7 DEF InitThreadStep, Scrub, loader_thread_state_callback, ThreadBegins, ThreadReturns
<1> QED
  BY <1>1, <1>2, <1>3, <1>4, <1>5, <1>6, <1>7 DEF Steps, LoaderStep

(* What the loader begins to handle.                                       *)
LEMMA BegunOK ==
    ASSUME NEW m \in Sent \cup Deferrals, BeginStart(m),
           m.type \in {"Start", "Detached", "Deferred"}, slot' \in {Null, Locked, App}
    PROVE  LoaderOK'
BY DEF BeginStart, LoaderOK

LEMMA IdleOK == ASSUME Idle, slot' \in {Null, Locked, App} PROVE LoaderOK'
BY DEF LoaderOK

LEMMA DeferredOK ==
    ASSUME LaunchOK, loader_do_next_deferred_launch_if_available, slot' \in {Null, Locked, App}
    PROVE  LoaderOK'
BY HeadDeferred, BegunOK, IdleOK DEF loader_do_next_deferred_launch_if_available, Deferrals

LEMMA LoaderOKNext == TypeInv /\ Steps => LoaderOK'
<1> SUFFICES ASSUME TypeInv, QueueOK, LaunchOK, LoaderOK, Steps PROVE LoaderOK'
  BY DEF TypeInv
<1>0. slot \in {Null, Locked, App}
  BY DEF LoaderOK
<1>1. CASE handle_start
  BY <1>0, <1>1, HeadSent, BegunOK DEF handle_start
<1>2. CASE start_application \/ start_applications \/ start_refused
  BY <1>0, <1>2, IdleOK DEF start_application, start_applications, start_refused, fail_start
<1>3. CASE start_failed
  <2>1. CASE fail_start
    BY <1>0, <1>3, <2>1, IdleOK DEF start_failed, fail_start
  <2>2. CASE ShowsDialog /\ loader_at' = "dialog" /\ UNCHANGED handling
    BY <1>0, <1>3, <2>2 DEF start_failed, ShowsDialog, LoaderOK
  <2>3. CASE loader_do_next_deferred_launch_if_available
    BY <1>0, <1>3, <2>3, DeferredOK DEF start_failed
  <2> QED
    BY <1>3, <2>1, <2>2, <2>3 DEF start_failed
<1>4. CASE dialog_closed
  BY <1>0, <1>4, IdleOK, DeferredOK DEF dialog_closed
<1>5. CASE loader_do_app_closed
  BY <1>5, DeferredOK DEF loader_do_app_closed
<1>6. CASE loader_do_menu_closed
  BY <1>0, <1>6, IdleOK DEF loader_do_menu_closed
<1>7. CASE handle_closed
  BY <1>0, <1>7, HeadSent DEF handle_closed, LoaderOK
<1>8. CASE loader_do_lock \/ loader_do_unlock
  BY <1>8 DEF loader_do_lock, loader_do_unlock, LoaderOK
<1>9. CASE UNCHANGED loaderVars
  BY <1>9 DEF LoaderOK
<1>10. CASE loader_do_query \/ handle_enqueue_launch \/ handle_clear_launch_queue
              \/ loader_do_menu_show
  BY <1>10 DEF loader_do_query, handle_enqueue_launch, handle_clear_launch_queue,
               loader_do_menu_show, LoaderOK
<1>11. CASE CallerStep /\ ~dialog_closed
  BY <1>9, <1>11 DEF CallerStep, Calling, Telling, Moving, browser_start, loader_unlock,
     animation_timeout, desktop_custom_event_callback, loader_generic_synchronous_request, PutAndGo
<1>12. CASE InitThreadStep
  BY <1>9, <1>12 DEF InitThreadStep, Scrub, loader_thread_state_callback, ThreadBegins,
                     ThreadReturns
<1> QED
  BY <1>1, <1>2, <1>3, <1>4, <1>5, <1>6, <1>7, <1>8, <1>10, <1>11, <1>12
  DEF Steps, LoaderStep, CallerStep

LEMMA EmitOK ==
    ASSUME DesktopOK, Emit
    PROVE  events' \in Seq({"BeforeLoad", "NoMoreAppsInQueue"}) /\ stop_event' \in BOOLEAN
<1>1. events' \in Seq({"BeforeLoad", "NoMoreAppsInQueue"})
  BY DEF DesktopOK, Emit
<1>2. stop_event' \in BOOLEAN
  BY DEF DesktopOK, Emit
<1> QED
  BY <1>1, <1>2

LEMMA BeginOK ==
    ASSUME DesktopOK, NEW m, BeginStart(m)
    PROVE  events' \in Seq({"BeforeLoad", "NoMoreAppsInQueue"})
BY DEF DesktopOK, BeginStart

LEMMA LaunchEventsOK ==
    ASSUME DesktopOK, loader_do_next_deferred_launch_if_available
    PROVE  events' \in Seq({"BeforeLoad", "NoMoreAppsInQueue"}) /\ stop_event' \in BOOLEAN
BY EmitOK, BeginOK DEF loader_do_next_deferred_launch_if_available, DesktopOK

LEMMA FailEventsOK ==
    ASSUME DesktopOK, loader_do_emit_queue_empty_event
    PROVE  events' \in Seq({"BeforeLoad", "NoMoreAppsInQueue"}) /\ stop_event' \in BOOLEAN
BY EmitOK DEF loader_do_emit_queue_empty_event, DesktopOK

LEMMA DesktopOKNext == TypeInv /\ Steps => DesktopOK'
<1> SUFFICES ASSUME TypeInv, DesktopOK, Steps PROVE DesktopOK'
  BY DEF TypeInv
<1>1. /\ events \in Seq({"BeforeLoad", "NoMoreAppsInQueue"}) /\ stop_event \in BOOLEAN
      /\ calls \in 0..MaxCalls /\ animation_semaphore \in BOOLEAN /\ app_running \in BOOLEAN
      /\ crashed \in {"none", "animation", "loader"}
  BY DEF DesktopOK
<1>2. events' \in Seq({"BeforeLoad", "NoMoreAppsInQueue"}) /\ stop_event' \in BOOLEAN
  <2>1. CASE handle_start
    BY <1>1, <2>1, BeginOK DEF handle_start
  <2>2. CASE start_application \/ start_applications
    BY <1>1, <2>2 DEF start_application, start_applications
  <2>3. CASE start_refused \/ start_failed
    BY <1>1, <2>3, FailEventsOK, LaunchEventsOK DEF start_refused, start_failed, fail_start
  <2>4. CASE dialog_closed \/ loader_do_app_closed
    BY <1>1, <2>4, FailEventsOK, LaunchEventsOK DEF dialog_closed, loader_do_app_closed
  <2>5. CASE loader_do_lock \/ loader_do_unlock \/ loader_do_query \/ handle_enqueue_launch
    BY <1>1, <2>5 DEF loader_do_lock, loader_do_unlock, loader_do_query, handle_enqueue_launch
  <2>6. CASE handle_clear_launch_queue \/ loader_do_menu_show \/ handle_closed
                \/ loader_do_menu_closed
    BY <1>1, <2>6 DEF handle_clear_launch_queue, loader_do_menu_show, handle_closed,
                      loader_do_menu_closed
  <2>7. CASE desktop_custom_event_callback
    BY <1>1, <2>7 DEF desktop_custom_event_callback
  <2>8. CASE Moving
    BY <1>1, <2>8 DEF Moving
  <2>9. CASE CallerStep /\ ~Moving /\ ~dialog_closed /\ ~desktop_custom_event_callback
    BY <1>1, <2>9 DEF CallerStep, Calling, Telling, browser_start, loader_unlock,
       animation_timeout, loader_generic_synchronous_request, PutAndGo
  <2>10. CASE InitThreadStep
    BY <1>1, <2>10 DEF InitThreadStep, Scrub, loader_thread_state_callback, ThreadBegins,
                       ThreadReturns
  <2> QED
    BY <2>1, <2>2, <2>3, <2>4, <2>5, <2>6, <2>7, <2>8, <2>9, <2>10
    DEF Steps, LoaderStep, CallerStep
<1>3. /\ animation_semaphore' \in BOOLEAN /\ app_running' \in BOOLEAN
      /\ crashed' \in {"none", "animation", "loader"}
  <2>1. CASE LoaderStep
    BY <1>1, <2>1 DEF LoaderStep, handle_start, start_application, start_applications,
       start_refused, start_failed, loader_do_lock, loader_do_unlock, loader_do_query,
       handle_enqueue_launch, handle_clear_launch_queue, loader_do_menu_show, handle_closed,
       loader_do_menu_closed, loader_do_app_closed
  <2>2. CASE CallerStep
    BY <1>1, <2>2 DEF CallerStep, Calling, Telling, Moving, browser_start, loader_unlock,
       animation_timeout, loader_generic_synchronous_request, PutAndGo, dialog_closed,
       desktop_custom_event_callback
  <2>3. CASE InitThreadStep
    BY <1>1, <2>3 DEF InitThreadStep, Scrub, loader_thread_state_callback, ThreadBegins,
                      ThreadReturns
  <2> QED
    BY <2>1, <2>2, <2>3 DEF Steps
<1>4. calls' \in 0..MaxCalls
  <2>1. CASE LoaderStep
    BY <1>1, <2>1 DEF LoaderStep, handle_start, start_application, start_applications,
       start_refused, start_failed, loader_do_lock, loader_do_unlock, loader_do_query,
       handle_enqueue_launch, handle_clear_launch_queue, loader_do_menu_show, handle_closed,
       loader_do_menu_closed, loader_do_app_closed
  <2>2. CASE CallerStep
    BY <1>1, <2>2, LoaderAssumption DEF CallerStep, Calling, Telling, Moving, browser_start,
       loader_unlock, animation_timeout, loader_generic_synchronous_request, PutAndGo,
       dialog_closed, desktop_custom_event_callback, Counted
  <2>3. CASE InitThreadStep
    BY <1>1, <2>3 DEF InitThreadStep, Scrub, loader_thread_state_callback, ThreadBegins,
                      ThreadReturns
  <2> QED
    BY <2>1, <2>2, <2>3 DEF Steps
<1> QED
  BY <1>2, <1>3, <1>4 DEF DesktopOK

LEMMA TypeInvNext == TypeInv /\ [Next]_vars => TypeInv'
<1> SUFFICES ASSUME TypeInv, [Next]_vars PROVE TypeInv'
  OBVIOUS
<1>1. CASE Next
  BY <1>1, TheSteps, QueueOKNext, LaunchOKNext, AtOKNext, LoaderOKNext, DesktopOKNext, ThreadsOKNext
  DEF TypeInv
<1>2. CASE UNCHANGED vars
  <2>1. (QueueOK' <=> QueueOK) /\ (LaunchOK' <=> LaunchOK)
    BY <1>2 DEF vars, QueueOK, LaunchOK
  <2>2. (ThreadsTypeOK' <=> ThreadsTypeOK) /\ (AtOK' <=> AtOK)
    BY <1>2 DEF vars, ThreadsTypeOK, AtOK
  <2>3. (LoaderOK' <=> LoaderOK) /\ (DesktopOK' <=> DesktopOK)
    BY <1>2 DEF vars, LoaderOK, DesktopOK
  <2> QED
    BY <2>1, <2>2, <2>3 DEF TypeInv
<1> QED
  BY <1>1, <1>2

LEMMA TypeInvImplies == TypeInv => TypeOK
<1> SUFFICES ASSUME TypeInv PROVE TypeOK
  OBVIOUS
<1>1. queue \in Seq(Messages) /\ Len(queue) <= QueueSize
  BY DEF TypeInv, QueueOK, Sent
<1>2. launch_queue \in Seq(Messages) /\ Len(launch_queue) <= LaunchSize
  BY DEF TypeInv, LaunchOK, Deferrals
<1>3. handling \in Messages
  <2>1. NoMessage \in Messages
    BY DEF NoMessage, Plain, Messages, Types
  <2> QED
    BY <2>1 DEF TypeInv, LoaderOK, Sent, Deferrals
<1> QED
  BY <1>1, <1>2, <1>3 DEF TypeInv, TypeOK, AtOK, Places, LoaderOK, DesktopOK

(* Every variable of the loader and of the threads around it keeps its      *)
(* type, for any capacities.                                                *)
THEOREM TypeCorrect == Spec => []TypeOK
<1>1. Spec => []TypeInv
  BY InitType, TypeInvNext, PTL DEF Spec
<1> QED
  BY <1>1, TypeInvImplies, PTL

-----------------------------------------------------------------------------
(* The callers.  First what the steps do to positions in the queue.        *)
LEMMA TookFacts ==
    ASSUME QueueOK, Took
    PROVE  /\ \A i \in DOMAIN queue' :
                  i + 1 \in DOMAIN queue /\ queue'[i] = queue[i + 1] /\ i + 1 # 1
           /\ 1 \in DOMAIN queue /\ Head(queue) = queue[1] /\ Head(queue) \in Sent
           /\ \A i \in DOMAIN queue : i # 1 => i - 1 \in DOMAIN queue' /\ queue'[i - 1] = queue[i]
           /\ \A i, j \in DOMAIN queue' : i + 1 = j + 1 => i = j
BY DEF QueueOK, Took

LEMMA AddedFacts ==
    ASSUME QueueOK, NEW m \in Sent, Added(m)
    PROVE  /\ \A i \in DOMAIN queue : i \in DOMAIN queue' /\ queue'[i] = queue[i]
           /\ \A i \in DOMAIN queue' : i \in DOMAIN queue \/ i = Len(queue) + 1
           /\ Len(queue) + 1 \in DOMAIN queue' /\ queue'[Len(queue) + 1] = m
           /\ Len(queue) + 1 \notin DOMAIN queue
BY DEF QueueOK, Added

LEMMA QueueElements == QueueOK => \A i \in DOMAIN queue : queue[i] \in Sent
BY DEF QueueOK

LEMMA SentFrom == \A m \in Sent : m.from \in Processes
BY DEF Sent

(* What a step has to keep true when it adds nothing to the queue.         *)
LEMMA CallKept ==
    ASSUME QueueOK, CallInv, queue' = queue \/ Took,
           \A i \in DOMAIN queue' : Asks(queue'[i]) =>
               /\ at'[queue'[i].from] = "wait"
               /\ handling'.type = "Start" => handling'.from # queue'[i].from,
           handling'.type = "Start" => at'[handling'.from] = "wait"
    PROVE  CallInv'
<1>1. CASE queue' = queue
  BY <1>1 DEF CallInv
<1>2. CASE Took
  BY <1>2, TookFacts DEF CallInv
<1> QED
  BY <1>1, <1>2

(* The step leaves waiting whoever waits, and handles no other start.      *)
WaitsKept ==
    /\ \A p \in Processes : at[p] = "wait" => at'[p] = "wait"
    /\ handling'.type = "Start" => handling' = handling

LEMMA CallWaits ==
    ASSUME TypeInv, CallInv, WaitsKept, queue' = queue \/ Took PROVE CallInv'
<1> USE DEF TypeInv
<1>1. \A i \in DOMAIN queue' : \E j \in DOMAIN queue : queue'[i] = queue[j] /\ queue[j].from \in Processes
  BY TookFacts, QueueElements, SentFrom
<1>2. handling.type = "Start" => handling.from \in Processes
  BY DEF LoaderOK, Sent, Deferrals, NoMessage, Plain
<1> QED
  BY <1>1, <1>2, CallKept DEF CallInv, WaitsKept

LEMMA CallAdds ==
    ASSUME TypeInv, CallInv, WaitsKept, NEW m \in Sent, Added(m), ~Asks(m) PROVE CallInv'
<1> USE DEF TypeInv
<1>2. handling.type = "Start" => handling.from \in Processes
  BY DEF LoaderOK, Sent, Deferrals, NoMessage, Plain
<1> QED
  BY <1>2, AddedFacts, QueueElements, SentFrom DEF CallInv, WaitsKept

LEMMA CallAsks ==
    ASSUME TypeInv, CallInv, NEW m \in Sent, Added(m), handling' = handling,
           at[m.from] # "wait", at' = [at EXCEPT ![m.from] = "wait"]
    PROVE CallInv'
<1> USE DEF TypeInv
<1>2. handling.type = "Start" => handling.from \in Processes
  BY DEF LoaderOK, Sent, Deferrals, NoMessage, Plain
<1> QED
  BY <1>2, AddedFacts, QueueElements, SentFrom DEF CallInv, AtOK

LEMMA CallAnswered ==
    ASSUME TypeInv, CallInv, Took, Asks(Head(queue)), handling' = handling,
           handling.type # "Start", NEW x, at' = [at EXCEPT ![Head(queue).from] = x]
    PROVE  CallInv'
<1> USE DEF TypeInv
<1>1. \A i \in DOMAIN queue' :
          /\ i + 1 \in DOMAIN queue /\ queue'[i] = queue[i + 1] /\ i + 1 # 1
          /\ queue[i + 1].from \in Processes
  BY TookFacts, QueueElements, SentFrom
<1>2. Head(queue) = queue[1] /\ 1 \in DOMAIN queue
  BY TookFacts
<1>3. \A i \in DOMAIN queue' : Asks(queue'[i]) => at'[queue'[i].from] = "wait"
  BY <1>1, <1>2 DEF CallInv, AtOK
<1> QED
  BY <1>3, CallKept

(* The answer to a start: everybody else goes on waiting.                  *)
LEMMA StartAnswered ==
    ASSUME TypeInv, CallInv, queue' = queue, handling'.type # "Start",
           \A p \in Processes :
               at[p] = "wait" /\ (handling.type = "Start" => p # handling.from) => at'[p] = "wait"
    PROVE  CallInv'
<1>1. \A i \in DOMAIN queue : queue[i].from \in Processes
  BY QueueElements, SentFrom DEF TypeInv
<1> QED
  BY <1>1, CallKept DEF CallInv, TypeInv

(* A thread that does not exist waits for nothing.                         *)
LEMMA NotWaiting ==
    ASSUME ThreadInv, NEW t \in Threads, ~Allocated(t) PROVE at[t] # "wait"
BY DEF ThreadInv, Alive, Allocated

LEMMA AnsweredKeeps ==
    ASSUME TypeInv, NEW threads \in [Processes -> Places], NEW x,
           NEW p \in Processes, handling.type = "Start" => p # handling.from
    PROVE  Answered(threads, x)[p] = threads[p]
BY DEF Answered

LEMMA NextHandled ==
    ASSUME TypeInv, loader_do_next_deferred_launch_if_available PROVE handling'.type # "Start"
BY HeadDeferred
DEF loader_do_next_deferred_launch_if_available, BeginStart, Deferrals, TypeInv, NoMessage, Plain

LEMMA CallInvNext == TypeInv /\ CallInv /\ ThreadInv /\ Steps => CallInv'
<1> SUFFICES ASSUME TypeInv, CallInv, ThreadInv, Steps PROVE CallInv'
  OBVIOUS
<1> USE DEF TypeInv
<1>0. NoMessage.type = "None"
  BY DEF NoMessage, Plain
<1>g. loader_at = "get" => handling.type = "None"
  BY <1>0 DEF LoaderOK
<1>1. CASE handle_start
  <2>1. Took /\ handling' = Head(queue) /\ at' = at
    BY <1>1 DEF handle_start, BeginStart, Took
  <2>2. Head(queue).type = "Start" => Asks(queue[1])
    BY <2>1, TookFacts DEF Asks, Asking
  <2>3. \A i \in DOMAIN queue' : Asks(queue'[i]) =>
            at[queue'[i].from] = "wait" /\ (Asks(queue[1]) => queue[1].from # queue'[i].from)
    BY <2>1, TookFacts DEF CallInv
  <2> QED
    BY <2>1, <2>2, <2>3, TookFacts, CallKept DEF CallInv
<1>2. CASE start_application
  <2>1. [at EXCEPT ![App] = "run"] \in [Processes -> Places]
    BY Names_apart DEF AtOK, Places
  <2>2. at' = Answered([at EXCEPT ![App] = "run"], "flag") /\ queue' = queue
    BY <1>2 DEF start_application
  <2>3. at[App] # "wait"
    BY <1>2, NotWaiting, Names_apart DEF start_application, StartThread
  <2>4. ASSUME NEW p \in Processes, at[p] = "wait", handling.type = "Start" => p # handling.from
        PROVE  at'[p] = "wait"
    BY <2>1, <2>2, <2>3, <2>4, AnsweredKeeps DEF AtOK
  <2> QED
    BY <1>0, <1>2, <2>2, <2>4, StartAnswered DEF start_application
<1>3. CASE start_applications
  <2> DEFINE threads == IF Allocated(Browser) THEN at ELSE [at EXCEPT ![Browser] = "run"]
  <2>1. threads \in [Processes -> Places]
    BY Names_apart DEF AtOK, Places
  <2>2. at' = Answered(threads, "flag") /\ queue' = queue
    BY <1>3 DEF start_applications
  <2>3. \A p \in Processes : at[p] = "wait" => threads[p] = "wait"
    BY <1>3, NotWaiting, Names_apart DEF AtOK
  <2> HIDE DEF threads
  <2>4. ASSUME NEW p \in Processes, at[p] = "wait", handling.type = "Start" => p # handling.from
        PROVE  at'[p] = "wait"
    BY <2>1, <2>2, <2>3, <2>4, AnsweredKeeps
  <2> QED
    BY <1>0, <1>3, <2>2, <2>4, StartAnswered DEF start_applications
<1>4. ASSUME fail_start, queue' = queue PROVE CallInv'
  <2>1. \A p \in Processes : (handling.type = "Start" => p # handling.from) => at'[p] = at[p]
    BY <1>4, AnsweredKeeps DEF fail_start, AtOK
  <2> QED
    BY <1>0, <1>4, <2>1, StartAnswered DEF fail_start
<1>5. ASSUME loader_do_next_deferred_launch_if_available, queue' = queue, at' = at PROVE CallInv'
  BY <1>5, NextHandled, StartAnswered
<1>6. CASE start_refused
  BY <1>0, <1>4, <1>6, StartAnswered DEF start_refused
<1>7. CASE start_failed
  BY <1>4, <1>5, <1>7, CallWaits DEF start_failed, WaitsKept
<1>8. CASE dialog_closed \/ loader_do_app_closed
  BY <1>0, <1>5, <1>8, StartAnswered DEF dialog_closed, loader_do_app_closed
<1>9. CASE loader_do_lock
  BY <1>9, <1>g, CallAnswered DEF loader_do_lock, Took, Asks, Asking
<1>10. CASE loader_do_query \/ handle_clear_launch_queue
  BY <1>10, <1>g, CallAnswered DEF loader_do_query, handle_clear_launch_queue, Took, Asks, Asking
<1>11. CASE handle_enqueue_launch
  BY <1>11, <1>g, CallAnswered DEF handle_enqueue_launch, Took, Asks, Asking
<1>12. CASE loader_do_unlock \/ handle_closed
  <2>1. Took /\ at' = at /\ (handling' = handling \/ handling'.type \in DOMAIN Ends)
    BY <1>12 DEF loader_do_unlock, handle_closed, Took
  <2> QED
    BY <2>1, CallWaits DEF WaitsKept
<1>13. CASE loader_do_menu_show
  <2>1. Took /\ handling' = handling
    BY <1>13 DEF loader_do_menu_show, Took
  <2>2. \A p \in Processes : at[p] = "wait" => at'[p] = "wait"
    BY <1>13, NotWaiting, Names_apart DEF loader_do_menu_show, AtOK
  <2> QED
    BY <2>1, <2>2, CallWaits DEF WaitsKept
<1>14. CASE loader_do_menu_closed
  BY <1>0, <1>14, StartAnswered DEF loader_do_menu_closed
<1>15. CASE Calling
  BY <1>15, CallAsks DEF Calling, loader_generic_synchronous_request, Put, Added
<1>16. CASE browser_start
  <2>1. PICK name \in Names \ {Applications} :
            PutAndGo(Named("Start", Browser, name), "start", "wait")
    BY <1>16 DEF browser_start
  <2>2. Named("Start", Browser, name).from = Browser
    BY DEF Named
  <2> QED
    BY <2>1, <2>2, NamedSent, CallAsks DEF PutAndGo, Put, Added
<1>17. CASE Telling
  <2>1. PICK m \in Sent, from \in {"run", "detach", "menu"}, to \in {"run", "end"} :
            /\ m.type \in {"MenuClosed", "ApplicationsClosed", "Detached", "ShowMenu"}
            /\ PutAndGo(m, from, to)
    BY <1>17 DEF Telling
  <2>2. Added(m) /\ ~Asks(m) /\ handling' = handling /\ at[m.from] = from
            /\ at' = [at EXCEPT ![m.from] = to]
    BY <2>1 DEF PutAndGo, Put, Added, Asks, Asking
  <2> QED
    BY <2>2, SentFrom, CallAdds DEF WaitsKept, AtOK
<1>18. ASSUME NEW c \in Clients, loader_unlock(c) PROVE CallInv'
  <2>1. Plain("Unlock", c) \in Sent /\ Plain("Unlock", c).from = c /\ ~Asks(Plain("Unlock", c))
    BY PlainSent DEF Plain, Asks, Asking
  <2>2. Added(Plain("Unlock", c)) /\ handling' = handling /\ at[c] = "locked"
            /\ at' = [at EXCEPT ![c] = "run"]
    BY <1>18, <2>1 DEF loader_unlock, PutAndGo, Put, Added
  <2> QED
    BY <2>1, <2>2, CallAdds DEF WaitsKept, AtOK
<1>19. CASE Moving
  BY <1>19, CallWaits DEF Moving, WaitsKept, AtOK
<1>20. CASE animation_timeout \/ desktop_custom_event_callback
  BY <1>20, CallWaits DEF animation_timeout, desktop_custom_event_callback, WaitsKept
<1>21. CASE loader_thread_state_callback
  <2>1. Plain("AppClosed", App) \in Sent /\ ~Asks(Plain("AppClosed", App))
    BY PlainSent, Names_apart DEF Plain, Asks, Asking
  <2> QED
    BY <1>21, <2>1, CallAdds DEF loader_thread_state_callback, Put, Added, WaitsKept
<1>22. CASE Scrub \/ \E t \in Threads : ThreadBegins(t) \/ ThreadReturns(t)
  BY <1>22, CallWaits DEF Scrub, ThreadBegins, ThreadReturns, WaitsKept
<1> QED
  BY <1>1, <1>2, <1>3, <1>6, <1>7, <1>8, <1>9, <1>10, <1>11, <1>12, <1>13, <1>14, <1>15, <1>16,
     <1>17, <1>18, <1>19, <1>20, <1>21, <1>22
  DEF Steps, LoaderStep, CallerStep, InitThreadStep

-----------------------------------------------------------------------------
(* The threads.                                                            *)
ScrubInv ==
    /\ \A i \in DOMAIN scrub_queue :
           /\ thread[scrub_queue[i]] = "Stopping"
           /\ scrubber.at = "mark" => scrub_queue[i] # scrubber.of
    /\ \A i, j \in DOMAIN scrub_queue : scrub_queue[i] = scrub_queue[j] => i = j
    /\ scrubber.at = "mark" => thread[scrubber.of] = "Stopping"

LEMMA ScrubInvNext == ThreadsTypeOK /\ ScrubInv /\ ThreadStep => ScrubInv'
<1> SUFFICES ASSUME ThreadsTypeOK, ScrubInv, ThreadStep PROVE ScrubInv'
  OBVIOUS
<1>0. /\ thread \in [Threads -> ThreadStates] /\ scrub_queue \in Seq(Threads)
      /\ scrubber \in Scrubbing \cup {ScrubberIdle}
      /\ \A i \in DOMAIN scrub_queue : scrub_queue[i] \in Threads
  BY DEF ThreadsTypeOK
<1>1. CASE UNCHANGED threadVars
  BY <1>1 DEF ScrubInv
<1>2. ASSUME NEW t \in Threads, thread[t] # "Stopping", NEW x,
             thread' = [thread EXCEPT ![t] = x], UNCHANGED <<scrub_queue, scrubber>>
      PROVE  ScrubInv'
  BY <1>0, <1>2 DEF ScrubInv, Scrubbing
<1>3. ASSUME NEW t \in Threads, StartThread(t) \/ JoinAndFree(t) \/ furi_thread_body(t)
      PROVE  ScrubInv'
  BY <1>2, <1>3 DEF StartThread, JoinAndFree, furi_thread_body, Allocated, Joinable
<1>4. ASSUME NEW t \in Threads, furi_thread_body_returns(t) PROVE ScrubInv'
  <2>1. /\ thread[t] = "Running" /\ thread' = [thread EXCEPT ![t] = "Stopping"]
        /\ scrub_queue' = Append(scrub_queue, t) /\ scrubber' = scrubber
    BY <1>4 DEF furi_thread_body_returns
  <2>2. /\ \A i \in DOMAIN scrub_queue' :
              \/ i \in DOMAIN scrub_queue /\ scrub_queue'[i] = scrub_queue[i]
              \/ i = Len(scrub_queue) + 1 /\ scrub_queue'[i] = t
    BY <1>0, <2>1
  <2>3. \A i \in DOMAIN scrub_queue : scrub_queue[i] # t
    BY <2>1 DEF ScrubInv
  <2> QED
    BY <1>0, <2>1, <2>2, <2>3 DEF ScrubInv, Scrubbing
<1>5. CASE scrub_get
  <2>1. /\ scrub_queue # <<>> /\ scrubber' = [at |-> "mark", of |-> Head(scrub_queue)]
        /\ scrub_queue' = Tail(scrub_queue) /\ thread' = thread
    BY <1>5 DEF scrub_get
  <2>2. /\ \A i \in DOMAIN scrub_queue' :
              i + 1 \in DOMAIN scrub_queue /\ scrub_queue'[i] = scrub_queue[i + 1] /\ i + 1 # 1
        /\ 1 \in DOMAIN scrub_queue /\ Head(scrub_queue) = scrub_queue[1]
        /\ \A i, j \in DOMAIN scrub_queue' : i + 1 = j + 1 => i = j
    BY <1>0, <2>1
  <2> QED
    BY <2>1, <2>2 DEF ScrubInv
<1>6. CASE scrub_mark
  <2>1. /\ scrubber.at = "mark" /\ thread' = [thread EXCEPT ![scrubber.of] = "Stopped"]
        /\ scrubber'.at = "read" /\ scrub_queue' = scrub_queue
    BY <1>0, <1>6 DEF scrub_mark, Scrubbing, ScrubberIdle
  <2> QED
    BY <1>0, <2>1 DEF ScrubInv
<1>7. CASE scrub_read \/ Delivered
  <2>1. scrubber'.at # "mark" /\ scrub_queue' = scrub_queue /\ thread' = thread
    BY <1>0, <1>7 DEF scrub_read, Delivered, Scrubbing, ScrubberIdle
  <2> QED
    BY <2>1 DEF ScrubInv
<1> QED
  BY <1>1, <1>3, <1>4, <1>5, <1>6, <1>7 DEF ThreadStep, ScrubStep

(* A thread that runs goes on running, but for its own return.              *)
LEMMA RunsOn ==
    ASSUME ThreadsTypeOK, ScrubInv, ThreadStep, NEW t \in Threads, Alive(t), ~MayReturn(t)
    PROVE  Alive(t)'
<1>0. /\ thread \in [Threads -> ThreadStates] /\ thread[t] = "Running"
  BY DEF ThreadsTypeOK, Alive
<1>1. CASE UNCHANGED threadVars
  BY <1>0, <1>1 DEF Alive
<1>2. ASSUME NEW u \in Threads, StartThread(u) \/ JoinAndFree(u) \/ furi_thread_body(u)
      PROVE  Alive(t)'
  BY <1>0, <1>2 DEF StartThread, JoinAndFree, furi_thread_body, Alive, Allocated, Joinable
<1>3. ASSUME NEW u \in Threads, MayReturn(u), furi_thread_body_returns(u) PROVE Alive(t)'
  <2>1. u # t
    BY <1>3
  <2> QED
    BY <1>0, <1>3, <2>1 DEF furi_thread_body_returns, Alive
<1>4. CASE ScrubStep \/ Delivered
  BY <1>0, <1>4 DEF ScrubStep, scrub_get, scrub_mark, scrub_read, Delivered, ScrubInv, Alive
<1> QED
  BY <1>1, <1>2, <1>3, <1>4 DEF ThreadStep

(* A thread begins to wait only while it runs.                             *)
LEMMA NewWaits ==
    ASSUME TypeInv, Steps, NEW t \in Threads, at'[t] = "wait"
    PROVE  at[t] = "wait" \/ (Alive(t) /\ UNCHANGED thread)
<1> USE DEF TypeInv
<1>0. \A threads \in [Processes -> Places], x \in {"flag", "leave"} :
          Answered(threads, x)[t] = "wait" => threads[t] = "wait"
  BY Names_apart DEF Answered
<1>1. at \in [Processes -> Places] /\ t \in Processes
  BY Names_apart DEF AtOK
<1>2. ASSUME NEW p \in Processes, NEW x \in Places \ {"wait"}, at' = [at EXCEPT ![p] = x]
      PROVE  at[t] = "wait"
  BY <1>1, <1>2
<1>3. CASE start_application
  <2>1. [at EXCEPT ![App] = "run"] \in [Processes -> Places]
    BY <1>1 DEF Places
  <2>2. at' = Answered([at EXCEPT ![App] = "run"], "flag")
    BY <1>3 DEF start_application
  <2> QED
    BY <1>0, <1>1, <2>1, <2>2
<1>4. CASE start_applications
  <2> DEFINE threads == IF Allocated(Browser) THEN at ELSE [at EXCEPT ![Browser] = "run"]
  <2>1. threads \in [Processes -> Places]
    BY <1>1 DEF Places
  <2>2. at' = Answered(threads, "flag")
    BY <1>4 DEF start_applications
  <2>3. threads[t] = "wait" => at[t] = "wait"
    BY <1>1
  <2> HIDE DEF threads
  <2> QED
    BY <1>0, <2>1, <2>2, <2>3
<1>5. CASE fail_start
  BY <1>0, <1>1, <1>5 DEF fail_start
<1>6. CASE at' = at
  BY <1>6
<1>7. Head(queue).from \in Processes \/ queue = <<>>
  BY HeadSent, SentFrom
<1>8. CASE loader_do_lock
  BY <1>2, <1>6, <1>7, <1>8 DEF loader_do_lock, Places
<1>9. CASE loader_do_query \/ handle_enqueue_launch \/ handle_clear_launch_queue
              \/ loader_do_menu_show
  BY <1>2, <1>6, <1>7, <1>9, Names_apart
  DEF loader_do_query, handle_enqueue_launch, handle_clear_launch_queue, loader_do_menu_show, Places
<1>10. CASE handle_start \/ loader_do_unlock \/ handle_closed \/ loader_do_menu_closed
               \/ loader_do_app_closed \/ start_refused \/ start_failed \/ dialog_closed
  BY <1>5, <1>6, <1>10 DEF handle_start, loader_do_unlock, handle_closed, loader_do_menu_closed,
     loader_do_app_closed, start_refused, start_failed, dialog_closed
<1>11. CASE Calling
  BY <1>1, <1>11 DEF Calling, loader_generic_synchronous_request, AtOK
<1>12. CASE browser_start
  <2>1. Alive(Browser) /\ at' = [at EXCEPT ![Browser] = "wait"] /\ thread' = thread
    BY <1>12 DEF browser_start, PutAndGo, Named
  <2> QED
    BY <1>1, <2>1
<1>13. CASE Telling
  BY <1>2, <1>13, SentFrom DEF Telling, PutAndGo, Places
<1>14. ASSUME NEW c \in Clients, loader_unlock(c) PROVE at[t] = "wait"
  BY <1>2, <1>14, Names_apart DEF loader_unlock, PutAndGo, Places, Plain
<1>15. CASE Moving
  BY <1>2, <1>15, Names_apart DEF Moving, Places
<1>16. CASE animation_timeout \/ desktop_custom_event_callback
  BY <1>6, <1>16 DEF animation_timeout, desktop_custom_event_callback
<1>17. CASE InitThreadStep
  BY <1>6, <1>17 DEF InitThreadStep, Scrub, loader_thread_state_callback, ThreadBegins,
                     ThreadReturns
<1> QED
  BY <1>3, <1>4, <1>8, <1>9, <1>10, <1>11, <1>12, <1>13, <1>14, <1>15, <1>16, <1>17
  DEF Steps, LoaderStep, CallerStep

(* A browser that is being started has done nothing yet.                   *)
LEMMA BrowserStarts ==
    ASSUME TypeInv, CallInv, ThreadInv, Steps, thread'[Browser] = "Starting"
    PROVE  at'[Browser] = "run"
<1> USE DEF TypeInv
<1>0. /\ at \in [Processes -> Places] /\ Browser \in Threads /\ Browser \in Processes
      /\ thread \in [Threads -> ThreadStates] /\ App # Browser /\ Menu # Browser
  BY Names_apart DEF AtOK, ThreadsTypeOK
<1>1. ASSUME ~Alive(Browser), handling.type = "Start" PROVE handling.from # Browser
  BY <1>0, <1>1 DEF CallInv, ThreadInv
<1>2. CASE start_applications
  <2> DEFINE threads == IF Allocated(Browser) THEN at ELSE [at EXCEPT ![Browser] = "run"]
  <2>1. threads \in [Processes -> Places]
    BY <1>0 DEF Places
  <2>2. at' = Answered(threads, "flag")
    BY <1>2 DEF start_applications
  <2>3. ~Alive(Browser) /\ threads[Browser] = "run"
    BY <1>0, <1>2 DEF start_applications, StartThread, Allocated, Alive, ThreadInv
  <2> HIDE DEF threads
  <2> QED
    BY <1>0, <1>1, <2>1, <2>2, <2>3, AnsweredKeeps
<1>3. ASSUME ~start_applications PROVE thread[Browser] = "Starting"
  <2>1. ASSUME NEW t \in Threads, t # Browser, StartThread(t) PROVE thread[Browser] = "Starting"
    BY <1>0, <2>1 DEF StartThread
  <2>2. CASE start_application
    BY <1>0, <2>1, <2>2, Names_apart DEF start_application
  <2>3. CASE loader_do_menu_show
    BY <1>0, <2>1, <2>3, Names_apart DEF loader_do_menu_show
  <2>4. CASE ScrubStep \/ Delivered \/ UNCHANGED threadVars
    BY <1>0, <2>4 DEF ScrubStep, scrub_get, scrub_mark, scrub_read, Delivered, ThreadsTypeOK,
       Scrubbing, ScrubberIdle
  <2>5. ASSUME NEW t \in Threads, JoinAndFree(t) \/ furi_thread_body(t) \/ furi_thread_body_returns(t)
        PROVE  thread[Browser] = "Starting"
    BY <1>0, <2>5 DEF JoinAndFree, furi_thread_body, furi_thread_body_returns
  <2>6. CASE loader_do_menu_closed \/ loader_do_app_closed
    BY <2>5, <2>6, Names_apart DEF loader_do_menu_closed, loader_do_app_closed
  <2>7. CASE handle_start \/ start_refused \/ start_failed \/ loader_do_lock \/ loader_do_unlock
                \/ loader_do_query
    BY <2>4, <2>7 DEF handle_start, start_refused, start_failed, loader_do_lock,
       loader_do_unlock, loader_do_query
  <2>8. CASE handle_enqueue_launch \/ handle_clear_launch_queue \/ handle_closed
    BY <2>4, <2>8 DEF handle_enqueue_launch, handle_clear_launch_queue, handle_closed
  <2>9. CASE CallerStep
    BY <2>4, <2>9 DEF CallerStep, Calling, Telling, Moving, browser_start, loader_unlock,
       dialog_closed, animation_timeout, desktop_custom_event_callback,
       loader_generic_synchronous_request, PutAndGo
  <2>10. CASE InitThreadStep
    BY <2>4, <2>5, <2>10 DEF InitThreadStep, Scrub, loader_thread_state_callback, ThreadBegins,
                             ThreadReturns
  <2> QED
    BY <1>3, <2>2, <2>3, <2>6, <2>7, <2>8, <2>9, <2>10 DEF Steps, LoaderStep
<1>4. ASSUME ~start_applications PROVE at'[Browser] = at[Browser] \/ at'[Browser] = "run"
  <2>1. ~Alive(Browser)
    BY <1>0, <1>3, <1>4 DEF Alive
  <2>2. ASSUME fail_start PROVE at'[Browser] = at[Browser]
    BY <1>0, <1>1, <2>1, <2>2, AnsweredKeeps DEF fail_start
  <2>3. CASE start_application
    <3>1. [at EXCEPT ![App] = "run"] \in [Processes -> Places]
      BY <1>0 DEF Places
    <3>2. at' = Answered([at EXCEPT ![App] = "run"], "flag")
      BY <2>3 DEF start_application
    <3> QED
      BY <1>0, <1>1, <2>1, <3>1, <3>2, AnsweredKeeps
  <2>4. CASE loader_do_lock
    <3>1. Head(queue).from \in Clients /\ Browser \notin Clients
      BY <2>4, HeadSent, Names_apart DEF loader_do_lock, Sent
    <3> QED
      BY <1>0, <2>4, <3>1 DEF loader_do_lock
  <2>5. CASE loader_do_query \/ handle_enqueue_launch \/ handle_clear_launch_queue
                \/ loader_do_menu_show
    <3>1. at' = at \/ \E p \in Processes : at' = [at EXCEPT ![p] = "run"]
      BY <2>5, HeadSent, SentFrom, Names_apart DEF loader_do_query, handle_enqueue_launch, handle_clear_launch_queue,
                  loader_do_menu_show
    <3>2. ASSUME NEW q \in Processes, at' = [at EXCEPT ![q] = "run"]
          PROVE  at'[Browser] = at[Browser] \/ at'[Browser] = "run"
      BY <1>0, <3>2
    <3>3. CASE at' = at
      BY <3>3
    <3> QED
      BY <3>1, <3>2, <3>3
  <2>6. CASE handle_start \/ loader_do_unlock \/ handle_closed \/ loader_do_menu_closed
                 \/ loader_do_app_closed \/ start_refused \/ start_failed \/ dialog_closed
    BY <2>2, <2>6 DEF handle_start, loader_do_unlock, handle_closed, loader_do_menu_closed,
       loader_do_app_closed, start_refused, start_failed, dialog_closed
  <2>7. ASSUME NEW p \in Processes, NEW x, p = Browser => Alive(p), at' = [at EXCEPT ![p] = x]
        PROVE  at'[Browser] = at[Browser]
    BY <1>0, <2>1, <2>7
  <2>8. CASE Calling
    BY <2>7, <2>8, SentFrom, <1>0 DEF Calling, loader_generic_synchronous_request
  <2>9. CASE Telling
    <3>1. PICK m \in Sent, from \in {"run", "detach", "menu"}, to \in {"run", "end"} :
              PutAndGo(m, from, to)
      BY <2>9 DEF Telling
    <3>2. m.from \in Processes /\ (m.from = Browser => Alive(m.from))
              /\ at' = [at EXCEPT ![m.from] = to]
      BY <3>1, SentFrom DEF PutAndGo
    <3> QED
      BY <2>7, <3>2
  <2>10. CASE browser_start \/ Moving
    BY <2>1, <2>7, <2>10, Names_apart DEF browser_start, Moving, PutAndGo, Named
  <2>11. ASSUME NEW c \in Clients, loader_unlock(c) PROVE at'[Browser] = at[Browser]
    BY <2>7, <2>11, Names_apart DEF loader_unlock, PutAndGo, Plain
  <2>12. CASE animation_timeout \/ desktop_custom_event_callback \/ InitThreadStep
    BY <2>12 DEF animation_timeout, desktop_custom_event_callback, InitThreadStep, Scrub,
       loader_thread_state_callback, ThreadBegins, ThreadReturns
  <2> QED
    BY <1>4, <2>3, <2>4, <2>5, <2>6, <2>8, <2>9, <2>10, <2>11, <2>12
    DEF Steps, LoaderStep, CallerStep
<1> QED
  BY <1>2, <1>3, <1>4 DEF ThreadInv

LEMMA ThreadInvNext == TypeInv /\ CallInv /\ ThreadInv /\ Steps => ThreadInv'
<1> SUFFICES ASSUME TypeInv, CallInv, ThreadInv, Steps PROVE ThreadInv'
  OBVIOUS
<1>1. ScrubInv /\ ThreadStep
  BY ThreadSteps DEF ThreadInv, ScrubInv
<1>2. ScrubInv'
  BY <1>1, ScrubInvNext DEF TypeInv
<1>3. ASSUME NEW t \in Threads, at'[t] = "wait" PROVE Alive(t)'
  <2>1. CASE at[t] = "wait"
    BY <1>1, <2>1, RunsOn DEF ThreadInv, TypeInv, MayReturn
  <2>2. CASE Alive(t) /\ UNCHANGED thread
    BY <2>2 DEF Alive
  <2> QED
    BY <1>3, <2>1, <2>2, NewWaits
<1> QED
  BY <1>2, <1>3, BrowserStarts DEF ThreadInv, ScrubInv

-----------------------------------------------------------------------------
(* The lock.                                                               *)
LEMMA HasLockIs ==
    \A c : HasLock(c) <=> at[c] = "locked" \/ \E i \in DOMAIN queue : queue[i] = Plain("Unlock", c)
BY DEF HasLock

LEMMA UnlockIs ==
    \A m \in Sent : m.type = "Unlock" => m.from \in Clients /\ m = Plain("Unlock", m.from)
BY DEF Sent

LEMMA PlainIs == \A type, p : Plain(type, p).type = type /\ Plain(type, p).from = p
BY DEF Plain

Unlocks == {i \in DOMAIN queue : queue[i].type = "Unlock"}

(* The lock is where it was.                                               *)
LockKept ==
    /\ slot' = slot \/ (slot # Locked /\ slot' # Locked)
    /\ \A c \in Clients : at'[c] = "locked" <=> at[c] = "locked"
    /\ \/ queue' = queue
       \/ Took /\ Head(queue).type # "Unlock"
       \/ \E m \in Sent : Added(m) /\ m.type # "Unlock"

LEMMA KeptLock ==
    ASSUME TypeInv, LockKept, NEW c \in Clients PROVE HasLock(c)' <=> HasLock(c)
<1> USE DEF TypeInv
<1>1. CASE queue' = queue
  BY <1>1, HasLockIs DEF LockKept, HasLock
<1>2. CASE Took /\ Head(queue).type # "Unlock"
  <2>1. (\E i \in DOMAIN queue' : queue'[i] = Plain("Unlock", c))
            <=> (\E i \in DOMAIN queue : queue[i] = Plain("Unlock", c))
    BY <1>2, TookFacts, PlainIs
  <2> QED
    BY <2>1 DEF LockKept, HasLock
<1>3. ASSUME NEW m \in Sent, Added(m), m.type # "Unlock" PROVE HasLock(c)' <=> HasLock(c)
  <2>1. (\E i \in DOMAIN queue' : queue'[i] = Plain("Unlock", c))
            <=> (\E i \in DOMAIN queue : queue[i] = Plain("Unlock", c))
    BY <1>3, AddedFacts, PlainIs
  <2> QED
    BY <2>1 DEF LockKept, HasLock
<1> QED
  BY <1>1, <1>2, <1>3 DEF LockKept

LEMMA LockKeptInv == TypeInv /\ LockInv /\ LockKept => LockInv'
<1> SUFFICES ASSUME TypeInv, LockInv, LockKept PROVE LockInv'
  OBVIOUS
<1> USE DEF TypeInv
<1>1. \A c \in Clients : HasLock(c)' <=> HasLock(c)
  BY KeptLock
<1>2. /\ \A c, d \in Clients : HasLock(c)' /\ HasLock(d)' => c = d
      /\ \A c \in Clients : HasLock(c)' => slot' = Locked
      /\ slot' = Locked => \E c \in Clients : HasLock(c)'
  BY <1>1 DEF LockInv, LockKept
<1>3. /\ \A i : Unlocking(i)' => at'[queue'[i].from] # "locked"
      /\ \A i, j : Unlocking(i)' /\ Unlocking(j)' => i = j
  <2>0. \A i \in DOMAIN queue : queue[i].type = "Unlock" => queue[i].from \in Clients
    BY QueueElements, UnlockIs
  <2>1. CASE queue' = queue
    BY <2>0, <2>1 DEF LockKept, LockInv, Unlocking
  <2>2. CASE Took
    BY <2>0, <2>2, TookFacts DEF LockKept, LockInv, Unlocking
  <2>3. ASSUME NEW m \in Sent, Added(m), m.type # "Unlock"
        PROVE  <1>3!:
    BY <2>0, <2>3, AddedFacts DEF LockKept, LockInv, Unlocking
  <2> QED
    BY <2>1, <2>2, <2>3 DEF LockKept
<1> QED
  BY <1>2, <1>3 DEF LockInv

(* All steps but the grant of a lock and the two halves of an unlock.       *)
LEMMA StepsKeepLock ==
    ASSUME TypeInv, CallInv, ThreadInv, EndInv, Steps,
           ~loader_do_unlock, ~(loader_do_lock /\ CanLock), \A c \in Clients : ~loader_unlock(c)
    PROVE  LockKept
<1> USE DEF TypeInv
<1>0. /\ at \in [Processes -> Places] /\ \A c \in Clients : c \in Processes /\ c \notin Threads
      /\ App \in Threads /\ Menu \in Threads /\ Browser \in Threads /\ Desktop \notin Clients
      /\ App # Locked /\ Null # Locked
  BY Names_apart DEF AtOK
<1> DEFINE SameLocks == \A c \in Clients : at'[c] = "locked" <=> at[c] = "locked"
<1>1. ASSUME queue' = queue, at' = at, slot' = slot PROVE LockKept
  BY <1>1 DEF LockKept
<1>2. ASSUME NEW threads \in [Processes -> Places], NEW x \in {"flag", "leave"},
             \A c \in Clients : threads[c] = at[c], at' = Answered(threads, x)
      PROVE  SameLocks
  <2>1. ASSUME NEW c \in Clients, handling.type = "Start" => c # handling.from
        PROVE  at'[c] = at[c]
    BY <1>0, <1>2, <2>1, AnsweredKeeps
  <2>2. ASSUME NEW c \in Clients, handling.type = "Start", c = handling.from
        PROVE  at[c] = "wait" /\ at'[c] \in {"run", "flag", "leave"}
    BY <1>0, <1>2, <2>2 DEF CallInv, Answered
  <2> QED
    BY <2>1, <2>2
<1>3. CASE handle_start
  BY <1>3 DEF handle_start, LockKept, Took
<1>4. CASE start_application
  <2>1. [at EXCEPT ![App] = "run"] \in [Processes -> Places]
            /\ \A c \in Clients : [at EXCEPT ![App] = "run"][c] = at[c]
    BY <1>0 DEF Places
  <2>2. at' = Answered([at EXCEPT ![App] = "run"], "flag") /\ queue' = queue
            /\ slot = Null /\ slot' = App
    BY <1>4 DEF start_application
  <2> QED
    BY <1>0, <1>2, <2>1, <2>2 DEF LockKept
<1>5. CASE start_applications
  <2> DEFINE threads == IF Allocated(Browser) THEN at ELSE [at EXCEPT ![Browser] = "run"]
  <2>1. threads \in [Processes -> Places] /\ \A c \in Clients : threads[c] = at[c]
    BY <1>0 DEF Places
  <2>2. at' = Answered(threads, "flag") /\ queue' = queue /\ slot' = slot
    BY <1>5 DEF start_applications
  <2> HIDE DEF threads
  <2> QED
    BY <1>2, <2>1, <2>2 DEF LockKept
<1>6. ASSUME fail_start, queue' = queue, slot' = slot PROVE LockKept
  BY <1>0, <1>2, <1>6 DEF LockKept, fail_start
<1>7. CASE start_refused \/ start_failed \/ dialog_closed
  BY <1>1, <1>6, <1>7 DEF start_refused, start_failed, dialog_closed
<1>8. ASSUME NEW p \in Processes, NEW x, p \in Clients => at[p] # "locked" /\ x # "locked",
             at' = [at EXCEPT ![p] = x]
      PROVE  SameLocks
  BY <1>0, <1>8
<1>9. CASE loader_do_lock \/ loader_do_query \/ handle_enqueue_launch \/ handle_clear_launch_queue
  <2>1. Took /\ slot' = slot /\ Head(queue).type \in Asking \ {"Start"}
            /\ at' = [at EXCEPT ![Head(queue).from] = "run"]
    BY <1>9 DEF loader_do_lock, loader_do_query, handle_enqueue_launch,
                handle_clear_launch_queue, Took, Asking
  <2>2. Head(queue).from \in Processes /\ at[Head(queue).from] = "wait"
    BY <2>1, TookFacts, SentFrom DEF CallInv, Asks
  <2> QED
    BY <1>8, <2>1, <2>2 DEF LockKept, Asking
<1>10. CASE loader_do_menu_show
  <2>1. Took /\ slot' = slot /\ Head(queue).type = "ShowMenu"
            /\ (at' = at \/ at' = [at EXCEPT ![Menu] = "run"])
    BY <1>10 DEF loader_do_menu_show, Took
  <2> QED
    BY <1>0, <2>1 DEF LockKept
<1>11. CASE handle_closed
  BY <1>11 DEF handle_closed, LockKept, Took
<1>12. CASE loader_do_menu_closed
  BY <1>1, <1>12 DEF loader_do_menu_closed
<1>13. CASE loader_do_app_closed
  <2>1. slot = App
    BY <1>13, <1>0 DEF loader_do_app_closed, JoinAndFree, Joinable, EndInv, Allocated
  <2> QED
    BY <1>0, <1>13, <2>1 DEF loader_do_app_closed, LockKept
<1>14. CASE Calling
  <2>1. PICK m \in Sent : Asks(m) /\ loader_generic_synchronous_request(m)
    BY <1>14 DEF Calling
  <2>2. Added(m) /\ m.type # "Unlock" /\ slot' = slot /\ at[m.from] = "run"
            /\ at' = [at EXCEPT ![m.from] = "wait"]
    BY <2>1 DEF loader_generic_synchronous_request, Put, Added, Asks, Asking
  <2> QED
    BY <1>8, <2>2, SentFrom DEF LockKept
<1>15. CASE Telling
  <2>1. PICK m \in Sent, from \in {"run", "detach", "menu"}, to \in {"run", "end"} :
            /\ m.type \in {"MenuClosed", "ApplicationsClosed", "Detached", "ShowMenu"}
            /\ PutAndGo(m, from, to)
    BY <1>15 DEF Telling
  <2>2. Added(m) /\ m.type # "Unlock" /\ slot' = slot /\ at[m.from] = from
            /\ at' = [at EXCEPT ![m.from] = to]
    BY <2>1 DEF PutAndGo, Put, Added
  <2> QED
    BY <1>8, <2>2, SentFrom DEF LockKept
<1>16. CASE browser_start
  <2>1. PICK name \in Names \ {Applications} :
            PutAndGo(Named("Start", Browser, name), "start", "wait")
    BY <1>16 DEF browser_start
  <2>2. Named("Start", Browser, name).from = Browser /\ Named("Start", Browser, name).type = "Start"
    BY DEF Named
  <2>3. Added(Named("Start", Browser, name)) /\ slot' = slot /\ at' = [at EXCEPT ![Browser] = "wait"]
    BY <2>1, <2>2 DEF PutAndGo, Put, Added
  <2> QED
    BY <1>0, <2>2, <2>3, NamedSent DEF LockKept
<1>17. CASE Moving
  <2>1. PICK p \in {Desktop, Browser} : \E from, to : Goes(p, from, to)
    BY <1>17 DEF Moving
  <2> QED
    BY <1>0, <1>17, <2>1 DEF Moving, LockKept
<1>18. CASE animation_timeout \/ desktop_custom_event_callback
  BY <1>1, <1>18 DEF animation_timeout, desktop_custom_event_callback
<1>19. CASE loader_thread_state_callback
  BY <1>19, PlainIs, PlainSent, Names_apart DEF loader_thread_state_callback, LockKept, Put, Added
<1>20. CASE Scrub \/ \E t \in Threads : ThreadBegins(t) \/ ThreadReturns(t)
  BY <1>1, <1>20 DEF Scrub, ThreadBegins, ThreadReturns
<1> QED
  BY <1>3, <1>4, <1>5, <1>7, <1>9, <1>10, <1>11, <1>12, <1>13, <1>14, <1>15, <1>16, <1>17, <1>18,
     <1>19, <1>20 DEF Steps, LoaderStep, CallerStep, InitThreadStep

(* The grant of a lock.                                                    *)
Granted(c) ==
    /\ Took /\ Head(queue).type = "Lock" /\ c = Head(queue).from
    /\ slot = Null /\ slot' = Locked
    /\ at[c] = "wait" /\ at' = [at EXCEPT ![c] = "locked"]

LEMMA LockGranted ==
    ASSUME TypeInv, CallInv, loader_do_lock, CanLock
    PROVE  \E c \in Clients : Granted(c)
<1>1. Took /\ Head(queue).type = "Lock" /\ Asks(Head(queue))
  BY DEF loader_do_lock, Took, Asks, Asking
<1>2. Head(queue).from \in Clients /\ at[Head(queue).from] = "wait"
  BY <1>1, TookFacts DEF CallInv, TypeInv, Sent
<1> QED
  BY <1>1, <1>2 DEF loader_do_lock, Granted

(* The caller's half of an unlock, and the loader's.                       *)
LEMMA UnlockPut ==
    ASSUME NEW c \in Clients, loader_unlock(c)
    PROVE  /\ Added(Plain("Unlock", c)) /\ Plain("Unlock", c) \in Sent
           /\ at[c] = "locked" /\ at' = [at EXCEPT ![c] = "run"] /\ slot' = slot
BY PlainIs, PlainSent DEF loader_unlock, PutAndGo, Put, Added

LEMMA UnlockTaken ==
    ASSUME TypeInv, LockInv, loader_do_unlock
    PROVE  \E c \in Clients :
               /\ Took /\ Head(queue) = Plain("Unlock", c) /\ HasLock(c)
               /\ at[c] # "locked" /\ slot = Locked /\ slot' = Null
               /\ at' = at /\ crashed' = crashed
<1>1. Took /\ Head(queue).type = "Unlock" /\ Head(queue) = queue[1] /\ 1 \in DOMAIN queue
  BY TookFacts DEF loader_do_unlock, Took, TypeInv
<1>2. PICK c \in Clients : Head(queue) = Plain("Unlock", c) /\ Head(queue).from = c
  BY <1>1, TookFacts, UnlockIs DEF TypeInv
<1>3. HasLock(c) /\ at[c] # "locked" /\ slot = Locked
  BY <1>1, <1>2, HasLockIs DEF LockInv, Unlocking
<1> QED
  BY <1>1, <1>2, <1>3 DEF loader_do_unlock

LEMMA LockInvNext == TypeInv /\ CallInv /\ ThreadInv /\ EndInv /\ LockInv /\ Steps => LockInv'
<1> SUFFICES ASSUME TypeInv, CallInv, ThreadInv, EndInv, LockInv, Steps PROVE LockInv'
  OBVIOUS
<1>0. at \in [Processes -> Places] /\ Clients \subseteq Processes /\ Null # Locked
  BY Names_apart DEF TypeInv, AtOK
<1>1. ASSUME NEW c \in Clients, Granted(c) PROVE LockInv'
  <2>1. \A d \in Clients : ~HasLock(d)
    BY <1>0, <1>1 DEF Granted, LockInv
  <2>2. \A i \in DOMAIN queue : queue[i].type # "Unlock"
    BY <2>1, HasLockIs, QueueElements, UnlockIs DEF TypeInv
  <2>3. \A i \in DOMAIN queue' : queue'[i].type # "Unlock"
    BY <1>1, <2>2, TookFacts DEF Granted, TypeInv
  <2>4. \A d \in Clients : HasLock(d)' <=> d = c
    <3>1. \A d \in Clients : HasLock(d)' <=> at'[d] = "locked"
      BY <2>3, PlainIs DEF HasLock
    <3> QED
      BY <1>0, <1>1, <2>1, <3>1 DEF Granted, HasLock
  <2> QED
    BY <1>1, <2>3, <2>4 DEF LockInv, Granted, Unlocking
<1>2. ASSUME NEW c \in Clients, loader_unlock(c) PROVE LockInv'
  <2>1. /\ Added(Plain("Unlock", c)) /\ Plain("Unlock", c) \in Sent
        /\ at[c] = "locked" /\ at' = [at EXCEPT ![c] = "run"] /\ slot' = slot
    BY <1>2, UnlockPut
  <2>2. HasLock(c) /\ \A d \in Clients : HasLock(d) => d = c
    BY <2>1 DEF LockInv, HasLock
  <2>3. \A i \in DOMAIN queue : queue[i].type # "Unlock"
    BY <2>1, <2>2, HasLockIs, QueueElements, UnlockIs DEF TypeInv, LockInv, Unlocking
  <2>4. \A i \in DOMAIN queue' : queue'[i].type = "Unlock" =>
            i = Len(queue) + 1 /\ queue'[i] = Plain("Unlock", c)
    BY <2>1, <2>3, AddedFacts DEF TypeInv
  <2>5. \A d \in Clients : HasLock(d)' <=> d = c
    <3>1. Len(queue) + 1 \in DOMAIN queue' /\ queue'[Len(queue) + 1] = Plain("Unlock", c)
      BY <2>1, AddedFacts DEF TypeInv
    <3>2. HasLock(c)'
      BY <3>1 DEF HasLock
    <3>3. ASSUME NEW d \in Clients, HasLock(d)' PROVE d = c
      <4>1. at'[d] # "locked"
        BY <1>0, <2>1, <2>2 DEF HasLock
      <4>2. PICK i \in DOMAIN queue' : queue'[i] = Plain("Unlock", d)
        BY <3>3, <4>1 DEF HasLock
      <4> QED
        BY <2>4, <4>2, PlainIs
    <3> QED
      BY <3>2, <3>3
  <2>6. at'[c] # "locked"
    BY <1>0, <2>1
  <2> QED
    BY <2>1, <2>2, <2>4, <2>5, <2>6, PlainIs DEF LockInv, Unlocking
<1>3. CASE loader_do_unlock
  <2>1. PICK c \in Clients :
            /\ Took /\ Head(queue) = Plain("Unlock", c) /\ HasLock(c)
            /\ at[c] # "locked" /\ slot = Locked /\ slot' = Null /\ at' = at
    BY <1>3, UnlockTaken
  <2>2. \A i \in DOMAIN queue' : queue'[i].type # "Unlock"
    BY <2>1, TookFacts, PlainIs DEF LockInv, Unlocking, TypeInv
  <2>3. \A d \in Clients : ~HasLock(d)'
    BY <2>1, <2>2, PlainIs DEF LockInv, HasLock
  <2> QED
    BY <1>0, <2>1, <2>2, <2>3 DEF LockInv, Unlocking
<1> QED
  BY <1>1, <1>2, <1>3, LockGranted, StepsKeepLock, LockKeptInv

-----------------------------------------------------------------------------
(* The end of the application.                                             *)
QueueKept(type) ==
    \/ queue' = queue
    \/ Took /\ Head(queue).type # type
    \/ \E m \in Sent : Added(m) /\ m.type # type

EndKept ==
    /\ thread'[App] = thread[App] /\ scrubber' = scrubber
    /\ slot' = slot \/ (slot # App /\ slot' # App)
    /\ Reaping' <=> Reaping
    /\ QueueKept("AppClosed")

(* Without a message about its end in the queue, the end is not told.      *)
LEMMA ToldKept ==
    ASSUME QueueOK, QueueKept("AppClosed")
    PROVE  /\ (\E i : Told(i)') <=> (\E i : Told(i))
           /\ (\A i, j : Told(i) /\ Told(j) => i = j) => (\A i, j : Told(i)' /\ Told(j)' => i = j)
<1>1. CASE queue' = queue
  BY <1>1 DEF Told
<1>2. CASE Took /\ Head(queue).type # "AppClosed"
  BY <1>2, TookFacts DEF Told
<1>3. ASSUME NEW m \in Sent, Added(m), m.type # "AppClosed"
      PROVE  /\ (\E i : Told(i)') <=> (\E i : Told(i))
             /\ (\A i, j : Told(i) /\ Told(j) => i = j)
                    => (\A i, j : Told(i)' /\ Told(j)' => i = j)
  BY <1>3, AddedFacts DEF Told
<1> QED
  BY <1>1, <1>2, <1>3 DEF QueueKept

LEMMA EndKeptInv == TypeInv /\ EndInv /\ EndKept => EndInv'
<1> SUFFICES ASSUME TypeInv, EndInv, EndKept PROVE EndInv'
  OBVIOUS
<1>1. /\ (\E i : Told(i)') <=> (\E i : Told(i))
      /\ \A i, j : Told(i)' /\ Told(j)' => i = j
  BY ToldKept DEF TypeInv, EndKept, EndInv
<1>2. Allocated(App)' <=> Allocated(App)
  BY DEF EndKept, Allocated
<1>3. slot' = App <=> slot = App
  BY DEF EndKept
<1> QED
  BY <1>1, <1>2, <1>3 DEF EndKept, EndInv

(* The step leaves the queue and what is handled alone.                    *)
LEMMA ToldSame ==
    ASSUME UNCHANGED <<queue, loader_at, handling>>
    PROVE  (\A i : Told(i)' <=> Told(i)) /\ (Reaping' <=> Reaping)
BY DEF Told, Reaping

LEMMA StepsKeepEnd ==
    ASSUME TypeInv, LockInv, Steps,
           ~start_application, ~(handle_closed /\ Head(queue).type = "AppClosed"),
           ~loader_do_app_closed, ~loader_thread_state_callback, ~Scrub,
           ~ThreadBegins(App), ~ThreadReturns(App)
    PROVE  EndKept
<1> USE DEF TypeInv
<1>0. /\ thread \in [Threads -> ThreadStates] /\ App \in Threads /\ Menu \in Threads
      /\ Browser \in Threads /\ App # Menu /\ App # Browser /\ App # Null /\ App # Locked
  BY Names_apart DEF ThreadsTypeOK
<1>1. \A t \in Threads : t # App /\ (StartThread(t) \/ JoinAndFree(t) \/ furi_thread_body(t))
          => thread'[App] = thread[App] /\ scrubber' = scrubber
  BY <1>0 DEF StartThread, JoinAndFree, furi_thread_body
<1>2. NoMessage.type = "None"
  BY DEF NoMessage, Plain
<1>3. CASE handle_start
  <2>1. ~Reaping /\ ~Reaping'
    BY <1>3 DEF handle_start, BeginStart, Reaping
  <2> QED
    BY <1>3, <2>1 DEF handle_start, EndKept, QueueKept, Took
<1>4. CASE start_applications
  <2>1. ~Reaping /\ ~Reaping'
    BY <1>4 DEF start_applications, Reaping
  <2> QED
    BY <1>0, <1>1, <1>4, <2>1 DEF start_applications, EndKept, QueueKept
<1>5. ASSUME loader_do_next_deferred_launch_if_available PROVE ~Reaping'
  BY <1>5 DEF loader_do_next_deferred_launch_if_available, BeginStart, Reaping
<1>6. CASE start_refused \/ start_failed \/ dialog_closed
  <2>1. ~Reaping /\ ~Reaping'
    BY <1>5, <1>6 DEF start_refused, start_failed, dialog_closed, fail_start, Reaping
  <2> QED
    BY <1>6, <2>1 DEF start_refused, start_failed, dialog_closed, EndKept, QueueKept
<1>7. CASE loader_do_lock \/ loader_do_query \/ handle_enqueue_launch \/ handle_clear_launch_queue
  BY <1>0, <1>7 DEF loader_do_lock, loader_do_query, handle_enqueue_launch,
     handle_clear_launch_queue, EndKept, QueueKept, Took, Reaping
<1>8. CASE loader_do_unlock
  BY <1>0, <1>8 DEF loader_do_unlock, EndKept, QueueKept, Took, Reaping
<1>9. CASE loader_do_menu_show
  <2>1. Took /\ Head(queue).type # "AppClosed" /\ slot' = slot /\ (Reaping' <=> Reaping)
    BY <1>9 DEF loader_do_menu_show, Took, Reaping
  <2>2. thread'[App] = thread[App] /\ scrubber' = scrubber
    BY <1>0, <1>1, <1>9 DEF loader_do_menu_show
  <2> QED
    BY <2>1, <2>2 DEF EndKept, QueueKept
<1>10. CASE handle_closed
  <2>1. ~Reaping /\ ~Reaping'
    BY <1>10 DEF handle_closed, Reaping
  <2> QED
    BY <1>10, <2>1 DEF handle_closed, EndKept, QueueKept, Took
<1>11. CASE loader_do_menu_closed
  <2>1. ~Reaping /\ ~Reaping'
    BY <1>11 DEF loader_do_menu_closed, Reaping
  <2>2. thread'[App] = thread[App] /\ scrubber' = scrubber
    BY <1>0, <1>1, <1>11 DEF loader_do_menu_closed
  <2> QED
    BY <1>11, <2>1, <2>2 DEF loader_do_menu_closed, EndKept, QueueKept
<1>12. CASE Calling \/ Telling
  BY <1>12 DEF Calling, Telling, loader_generic_synchronous_request, PutAndGo, Put, EndKept,
     QueueKept, Added, Asks, Asking, Reaping
<1>13. CASE browser_start
  <2>1. PICK name \in Names \ {Applications} :
            PutAndGo(Named("Start", Browser, name), "start", "wait")
    BY <1>13 DEF browser_start
  <2>2. Named("Start", Browser, name).type = "Start" /\ Named("Start", Browser, name) \in Sent
    BY NamedSent DEF Named
  <2> QED
    BY <2>1, <2>2 DEF PutAndGo, Put, EndKept, QueueKept, Added, Reaping
<1>14. ASSUME NEW c \in Clients, loader_unlock(c) PROVE EndKept
  BY <1>14, PlainIs, PlainSent DEF loader_unlock, PutAndGo, Put, EndKept, QueueKept, Added, Reaping
<1>15. CASE Moving \/ animation_timeout \/ desktop_custom_event_callback
  BY <1>15 DEF Moving, animation_timeout, desktop_custom_event_callback, EndKept, QueueKept, Reaping
<1>16. ASSUME NEW t \in Threads, ThreadBegins(t) \/ ThreadReturns(t) PROVE EndKept
  <2>1. t # App
    BY <1>16
  <2> QED
    BY <1>0, <1>16, <2>1 DEF ThreadBegins, ThreadReturns, furi_thread_body,
       furi_thread_body_returns, EndKept, QueueKept, Reaping
<1> QED
  BY <1>3, <1>4, <1>6, <1>7, <1>8, <1>9, <1>10, <1>11, <1>12, <1>13, <1>14, <1>15, <1>16
  DEF Steps, LoaderStep, CallerStep, InitThreadStep

LEMMA EndInvNext == TypeInv /\ ThreadInv /\ LockInv /\ EndInv /\ Steps => EndInv'
<1> SUFFICES ASSUME TypeInv, ThreadInv, LockInv, EndInv, Steps PROVE EndInv'
  OBVIOUS
<1> USE DEF TypeInv
<1>0. /\ thread \in [Threads -> ThreadStates] /\ App \in Threads /\ App # Null /\ App # Locked
      /\ scrubber \in Scrubbing \cup {ScrubberIdle} /\ App # NoThread
      /\ \A i \in DOMAIN scrub_queue : scrub_queue[i] \in Threads
  BY Names_apart, ThreadsAssumption DEF ThreadsTypeOK
<1>1. CASE start_application
  <2>1. thread[App] = "None" /\ thread' = [thread EXCEPT ![App] = "Starting"] /\ slot' = App
            /\ UNCHANGED <<scrubber, queue>> /\ ~Reaping'
    BY <1>1 DEF start_application, StartThread, Allocated, Reaping
  <2>2. scrubber.of # App /\ \A i : ~Told(i)
    BY <1>0, <2>1 DEF EndInv, ThreadInv, Scrubbing, ScrubberIdle
  <2> QED
    BY <1>0, <2>1, <2>2 DEF EndInv, Allocated, Told
<1>2. CASE handle_closed /\ Head(queue).type = "AppClosed"
  <2>1. Took /\ Head(queue).type = "AppClosed" /\ UNCHANGED <<threadVars, slot>>
    BY <1>2 DEF handle_closed, Took
  <2>2. Told(1) /\ \A i : ~Told(i)'
    BY <2>1, TookFacts DEF EndInv, Told
  <2> QED
    BY <2>1, <2>2 DEF EndInv, Allocated
<1>3. CASE loader_do_app_closed
  <2>1. Reaping /\ ~Reaping' /\ slot' = Null /\ UNCHANGED <<queue, scrubber>>
            /\ thread' = [thread EXCEPT ![App] = "None"]
    BY <1>3 DEF loader_do_app_closed, Reaping, JoinAndFree,
       loader_do_next_deferred_launch_if_available, BeginStart
  <2>2. (\A i : ~Told(i)) /\ scrubber.of # App
    BY <2>1 DEF EndInv
  <2>3. \A i : ~Told(i)'
    BY <2>1, <2>2 DEF Told
  <2> QED
    BY <1>0, <2>1, <2>2, <2>3 DEF EndInv, Allocated
<1>4. CASE loader_thread_state_callback
  <2>1. /\ scrubber = [at |-> "callback", of |-> App] /\ scrubber' = ScrubberIdle
        /\ Added(Plain("AppClosed", App)) /\ Plain("AppClosed", App) \in Sent
        /\ UNCHANGED <<slot, thread, loader_at, handling>>
    BY <1>4, PlainSent, Names_apart
    DEF loader_thread_state_callback, InCallback, Delivered, Put, Added
  <2>2. thread[App] = "Stopped" /\ ~Reaping /\ \A i : ~Told(i)
    BY <1>0, <2>1 DEF EndInv
  <2>3. \A i : Told(i)' => i = Len(queue) + 1
    BY <2>1, <2>2, AddedFacts DEF Told
  <2>4. ~Reaping' /\ scrubber'.of # App
    BY <1>0, <2>1, <2>2 DEF Reaping, ScrubberIdle
  <2> QED
    BY <1>0, <2>1, <2>2, <2>3, <2>4 DEF EndInv, Allocated
<1>5. CASE Scrub
  <2>1. /\ \A i : Told(i)' <=> Told(i)
        /\ (Reaping' <=> Reaping) /\ slot' = slot
    BY <1>5, ToldSame DEF Scrub
  <2>2. CASE scrub_get
    <3>1. /\ scrub_queue # <<>> /\ scrubber' = [at |-> "mark", of |-> Head(scrub_queue)]
          /\ thread' = thread
      BY <2>2 DEF scrub_get
    <3>2. thread[Head(scrub_queue)] = "Stopping"
      BY <3>1 DEF ThreadInv, ThreadsTypeOK
    <3> QED
      BY <2>1, <3>1, <3>2 DEF EndInv, Allocated
  <2>3. CASE scrub_mark
    <3>1. /\ scrubber.at = "mark" /\ thread' = [thread EXCEPT ![scrubber.of] = "Stopped"]
          /\ scrubber'.at = "read" /\ scrubber'.of = scrubber.of
          /\ scrubber.of \in Threads /\ thread[scrubber.of] = "Stopping"
      BY <1>0, <2>3 DEF scrub_mark, Scrubbing, ScrubberIdle, ThreadInv
    <3> QED
      BY <1>0, <2>1, <3>1 DEF EndInv, Allocated
  <2>4. CASE scrub_read
    <3>1. /\ scrubber.at # "mark" /\ thread' = thread
          /\ scrubber'.of = scrubber.of \/ scrubber'.of # App
      BY <1>0, <2>4 DEF scrub_read, Scrubbing, ScrubberIdle
    <3> QED
      BY <2>1, <3>1 DEF EndInv, Allocated
  <2> QED
    BY <1>5, <2>2, <2>3, <2>4 DEF Scrub, ScrubStep
<1>6. CASE ThreadBegins(App) \/ ThreadReturns(App)
  <2>1. /\ \A i : Told(i)' <=> Told(i)
        /\ (Reaping' <=> Reaping) /\ slot' = slot
    BY <1>6, ToldSame DEF ThreadBegins, ThreadReturns
  <2>2. /\ thread[App] \in {"Starting", "Running"} /\ scrubber' = scrubber
        /\ \E x \in {"Running", "Stopping"} : thread' = [thread EXCEPT ![App] = x]
    BY <1>6 DEF ThreadBegins, ThreadReturns, furi_thread_body, furi_thread_body_returns
  <2> QED
    BY <1>0, <2>1, <2>2 DEF EndInv, Allocated
<1> QED
  BY <1>1, <1>2, <1>3, <1>4, <1>5, <1>6, StepsKeepEnd, EndKeptInv

-----------------------------------------------------------------------------
(* The loader's checks.                                                    *)
LEMMA ChecksNext ==
    TypeInv /\ LockInv /\ EndInv /\ ChecksHold /\ Steps => ChecksHold'
<1> SUFFICES ASSUME TypeInv, LockInv, EndInv, Steps, crashed' = "loader"
             PROVE  Len(launch_queue') = LaunchSize
  BY DEF ChecksHold
<1>0. crashed = "none"
  BY DEF Steps
<1>1. CASE loader_do_unlock
  BY <1>0, <1>1, UnlockTaken
<1>2. CASE handle_closed
  <2>1. Head(queue).type = "AppClosed" /\ slot # App /\ Took
    BY <1>0, <1>2 DEF handle_closed, Took
  <2>2. Told(1)
    BY <2>1, TookFacts DEF Told, TypeInv
  <2> QED
    BY <2>1, <2>2 DEF EndInv, Allocated
<1>3. CASE handle_enqueue_launch
  BY <1>0, <1>3, LoaderAssumption DEF handle_enqueue_launch, TypeInv, LaunchOK
<1>4. CASE LoaderStep /\ ~loader_do_unlock /\ ~handle_closed /\ ~handle_enqueue_launch
  BY <1>0, <1>4 DEF LoaderStep, handle_start, start_application, start_applications,
     start_refused, start_failed, loader_do_lock, loader_do_query, handle_clear_launch_queue,
     loader_do_menu_show, loader_do_menu_closed, loader_do_app_closed
<1>5. CASE CallerStep
  BY <1>0, <1>5 DEF CallerStep, Calling, Telling, Moving, browser_start, loader_unlock,
     animation_timeout, loader_generic_synchronous_request, PutAndGo, dialog_closed,
     desktop_custom_event_callback
<1>6. CASE InitThreadStep
  BY <1>0, <1>6 DEF InitThreadStep, Scrub, loader_thread_state_callback, ThreadBegins,
                    ThreadReturns
<1> QED
  BY <1>1, <1>2, <1>3, <1>4, <1>5, <1>6 DEF Steps

-----------------------------------------------------------------------------
(* The desktop.                                                            *)
LEMMA AppendedEvent ==
    ASSUME events \in Seq({"BeforeLoad", "NoMoreAppsInQueue"}), NEW e,
           events' = Append(events, e)
    PROVE  /\ \A i \in DOMAIN events : i \in DOMAIN events' /\ events'[i] = events[i] /\ i # Len(events')
           /\ \A i \in DOMAIN events' : i \in DOMAIN events \/ i = Len(events')
           /\ events'[Len(events')] = e /\ events' # <<>>
OBVIOUS

LEMMA EmptyEvents ==
    \A e \in Seq({"BeforeLoad", "NoMoreAppsInQueue"}) : e = <<>> <=> Len(e) = 0
OBVIOUS

LEMMA TakenEvent ==
    ASSUME events \in Seq({"BeforeLoad", "NoMoreAppsInQueue"}), events # <<>>,
           events' = Tail(events)
    PROVE  /\ \A i \in DOMAIN events' : i + 1 \in DOMAIN events /\ events'[i] = events[i + 1]
           /\ 1 \in DOMAIN events /\ Head(events) = events[1]
           /\ \A i \in DOMAIN events' : i = Len(events') <=> i + 1 = Len(events)
           /\ Len(events) = 1 <=> events' = <<>>
<1>1. /\ \A i \in DOMAIN events' : i + 1 \in DOMAIN events /\ events'[i] = events[i + 1]
      /\ 1 \in DOMAIN events /\ Head(events) = events[1]
  OBVIOUS
<1>2. Len(events') = Len(events) - 1 /\ Len(events) \in Nat /\ DOMAIN events' \subseteq Nat
  OBVIOUS
<1>3. events' = <<>> <=> Len(events') = 0
  <2>1. events' \in Seq({"BeforeLoad", "NoMoreAppsInQueue"})
    OBVIOUS
  <2> QED
    BY <2>1, EmptyEvents
<1> QED
  BY <1>1, <1>2, <1>3

(* A launch begins when nothing on its way would begin another.            *)
LEMMA BeginsDesktop ==
    ASSUME DesktopOK, DesktopInv, NEW m, BeginStart(m), ~animation_semaphore',
           loader_at = "acknowledge" => animation_semaphore, slot' = slot \/ slot' # App
    PROVE  DesktopInv'
<1>1. \A i \in DOMAIN events : events[i] # "BeforeLoad"
  BY DEF DesktopInv
<1>2. loader_at' = "acknowledge" /\ events' = Append(events, "BeforeLoad")
  BY DEF BeginStart
<1>3. slot' = App => \A i \in DOMAIN events : FALSE
  BY <1>1 DEF DesktopInv
<1> QED
  BY <1>1, <1>2, <1>3, AppendedEvent DEF DesktopOK, DesktopInv, DesktopStalledWhileAppRuns

LEMMA EmitsDesktop ==
    ASSUME DesktopOK, DesktopInv, Emit, Idle, ~animation_semaphore',
           loader_at = "acknowledge" => animation_semaphore, slot' # App
    PROVE  DesktopInv'
<1>1. \A i \in DOMAIN events : events[i] # "BeforeLoad"
  BY DEF DesktopInv
<1>2. loader_at' = "get" /\ events' = Append(events, "NoMoreAppsInQueue")
  BY DEF Emit
<1> QED
  BY <1>1, <1>2, AppendedEvent DEF DesktopOK, DesktopInv, DesktopStalledWhileAppRuns

LEMMA LaunchesDesktop ==
    ASSUME DesktopOK, DesktopInv, loader_do_next_deferred_launch_if_available,
           ~animation_semaphore', loader_at = "acknowledge" => animation_semaphore, slot' # App
    PROVE  DesktopInv'
BY BeginsDesktop, EmitsDesktop DEF loader_do_next_deferred_launch_if_available

(* The end of a launch that was acknowledged.                              *)
LEMMA AcknowledgedDesktop ==
    ASSUME DesktopInv, animation_semaphore, ~animation_semaphore', loader_at' # "acknowledge",
           UNCHANGED <<events, app_running>>
    PROVE  DesktopInv'
<1>1. events = <<>> /\ app_running /\ events' = <<>> /\ app_running'
  BY DEF DesktopInv
<1> QED
  BY <1>1 DEF DesktopInv, DesktopStalledWhileAppRuns

LEMMA KeptDesktop ==
    ASSUME DesktopInv, UNCHANGED desktopVars,
           loader_at' = loader_at \/ {loader_at, loader_at'} \cap {"acknowledge"} = {},
           slot' = slot \/ slot' # App
    PROVE  DesktopInv'
BY DEF DesktopInv, DesktopStalledWhileAppRuns

LEMMA DesktopInvNext == TypeInv /\ DeferredWhileFree /\ DesktopInv /\ Steps => DesktopInv'
<1> SUFFICES ASSUME TypeInv, DeferredWhileFree, DesktopInv, Steps PROVE DesktopInv'
  OBVIOUS
<1> USE DEF TypeInv
<1>0. App # Null /\ App # Locked /\ slot \in {Null, Locked, App}
  BY Names_apart DEF LoaderOK
<1>1. loader_at # "acknowledge" => ~animation_semaphore
  BY DEF DesktopInv
<1>2. CASE handle_start
  BY <1>1, <1>2, BeginsDesktop DEF handle_start
<1>3. CASE start_application \/ start_applications
  BY <1>3, AcknowledgedDesktop DEF start_application, start_applications
<1>4. ASSUME fail_start, Acknowledged, UNCHANGED <<slot, app_running>> PROVE DesktopInv'
  <2>1. CASE loader_do_is_locked
    BY <1>4, <2>1, AcknowledgedDesktop DEF fail_start, loader_do_emit_queue_empty_event
  <2>2. CASE ~loader_do_is_locked
    BY <1>0, <1>4, <2>2, EmitsDesktop DEF fail_start, loader_do_emit_queue_empty_event
  <2> QED
    BY <2>1, <2>2
<1>5. CASE start_refused
  BY <1>4, <1>5, AcknowledgedDesktop DEF start_refused
<1>6. CASE start_failed
  <2>1. CASE fail_start
    BY <1>4, <1>6, <2>1 DEF start_failed
  <2>2. CASE loader_at' = "dialog" /\ UNCHANGED events
    BY <1>6, <2>2, AcknowledgedDesktop DEF start_failed
  <2>3. CASE loader_do_next_deferred_launch_if_available
    BY <1>0, <1>6, <2>3, LaunchesDesktop DEF start_failed
  <2> QED
    BY <1>6, <2>1, <2>2, <2>3 DEF start_failed
<1>7. CASE dialog_closed
  <2>1. slot = Null /\ slot' = slot /\ ~animation_semaphore' /\ loader_at = "dialog"
    BY <1>1, <1>7 DEF dialog_closed, DeferredWhileFree
  <2>2. CASE Emit /\ Idle
    BY <1>0, <2>1, <2>2, EmitsDesktop
  <2>3. CASE loader_do_next_deferred_launch_if_available
    BY <1>0, <2>1, <2>3, LaunchesDesktop
  <2> QED
    BY <1>7, <2>1, <2>2, <2>3 DEF dialog_closed, loader_do_emit_queue_empty_event
<1>8. CASE loader_do_app_closed
  BY <1>0, <1>1, <1>8, LaunchesDesktop DEF loader_do_app_closed
<1>9. CASE loader_do_lock \/ loader_do_unlock \/ loader_do_query \/ handle_enqueue_launch
  BY <1>0, <1>9, KeptDesktop DEF loader_do_lock, loader_do_unlock, loader_do_query,
     handle_enqueue_launch
<1>10. CASE handle_clear_launch_queue \/ loader_do_menu_show \/ handle_closed
               \/ loader_do_menu_closed
  BY <1>10, KeptDesktop DEF handle_clear_launch_queue, loader_do_menu_show, handle_closed,
     loader_do_menu_closed
<1>11. CASE desktop_custom_event_callback
  <2>1. events # <<>> /\ events' = Tail(events) /\ UNCHANGED <<slot, loader_at>>
    BY <1>11 DEF desktop_custom_event_callback
  <2>2. /\ \A i \in DOMAIN events' : i + 1 \in DOMAIN events /\ events'[i] = events[i + 1]
        /\ 1 \in DOMAIN events /\ Head(events) = events[1]
        /\ \A i \in DOMAIN events' : i = Len(events') <=> i + 1 = Len(events)
        /\ Len(events) = 1 <=> events' = <<>>
    BY <2>1, TakenEvent DEF DesktopOK
  <2>3. ~animation_semaphore
    BY <2>1 DEF DesktopInv
  <2>4. CASE Head(events) = "BeforeLoad"
    <3>1. Len(events) = 1 /\ loader_at = "acknowledge"
      BY <2>2, <2>3, <2>4 DEF DesktopInv
    <3>2. animation_semaphore' /\ app_running' /\ events' = <<>>
      BY <1>11, <2>2, <2>4, <3>1 DEF desktop_custom_event_callback
    <3> QED
      BY <2>1, <3>1, <3>2 DEF DesktopInv, DesktopStalledWhileAppRuns
  <2>5. CASE Head(events) # "BeforeLoad"
    <3>1. ~animation_semaphore' /\ slot # App
      BY <1>11, <2>2, <2>3, <2>5 DEF desktop_custom_event_callback, DesktopInv
    <3>2. loader_at = "acknowledge" => Len(events) # 1
      BY <2>2, <2>3, <2>5 DEF DesktopInv
    <3> QED
      BY <2>1, <2>2, <2>3, <3>1, <3>2 DEF DesktopInv, DesktopStalledWhileAppRuns
  <2> QED
    BY <2>4, <2>5
<1>12. CASE Calling \/ Telling \/ Moving \/ browser_start \/ animation_timeout
               \/ \E c \in Clients : loader_unlock(c)
  BY <1>12, KeptDesktop DEF Calling, Telling, Moving, browser_start, loader_unlock,
     animation_timeout, loader_generic_synchronous_request, PutAndGo
<1>13. CASE InitThreadStep
  BY <1>13, KeptDesktop DEF InitThreadStep, Scrub, loader_thread_state_callback, ThreadBegins,
                            ThreadReturns
<1> QED
  BY <1>2, <1>3, <1>5, <1>6, <1>7, <1>8, <1>9, <1>10, <1>11, <1>12, <1>13
  DEF Steps, LoaderStep, CallerStep

-----------------------------------------------------------------------------
(* The launches.                                                           *)
LEMMA NextDeferred ==
    ASSUME TypeInv, loader_do_next_deferred_launch_if_available
    PROVE  /\ loader_at' \in {"get", "acknowledge"}
           /\ launch_queue' # <<>> => handling'.type = "Deferred"
           /\ handling'.type = "Deferred" \/ (Emit /\ handling'.type = "None")
BY HeadDeferred
DEF loader_do_next_deferred_launch_if_available, BeginStart, Deferrals, TypeInv, NoMessage, Plain

LEMMA DeferredNext == TypeInv /\ DeferredWhileFree /\ Steps => DeferredWhileFree'
<1> SUFFICES ASSUME TypeInv, DeferredWhileFree, Steps PROVE DeferredWhileFree'
  OBVIOUS
<1> USE DEF TypeInv, DeferredWhileFree
<1>0. NoMessage.type = "None"
  BY DEF NoMessage, Plain
<1>1. CASE handle_start
  BY <1>1, HeadSent DEF handle_start, BeginStart, Sent
<1>2. CASE start_application \/ start_applications \/ loader_do_menu_closed
  BY <1>0, <1>2 DEF start_application, start_applications, loader_do_menu_closed
<1>3. CASE start_refused \/ start_failed
  BY <1>0, <1>3 DEF start_refused, start_failed, fail_start, ShowsDialog
<1>4. CASE dialog_closed \/ loader_do_app_closed
  BY <1>0, <1>4, NextDeferred DEF dialog_closed, loader_do_app_closed
<1>5. CASE loader_do_lock \/ loader_do_unlock
  BY <1>0, <1>5 DEF loader_do_lock, loader_do_unlock, LoaderOK
<1>6. CASE loader_do_query \/ handle_enqueue_launch \/ handle_clear_launch_queue
              \/ loader_do_menu_show
  BY <1>6 DEF loader_do_query, handle_enqueue_launch, handle_clear_launch_queue,
              loader_do_menu_show
<1>7. CASE handle_closed
  BY <1>7, HeadSent DEF handle_closed, Sent
<1>8. CASE CallerStep /\ ~dialog_closed
  BY <1>8 DEF CallerStep, Calling, Telling, Moving, browser_start, loader_unlock,
     animation_timeout, desktop_custom_event_callback, loader_generic_synchronous_request, PutAndGo
<1>9. CASE InitThreadStep
  BY <1>9 DEF InitThreadStep, Scrub, loader_thread_state_callback, ThreadBegins, ThreadReturns
<1> QED
  BY <1>1, <1>2, <1>3, <1>4, <1>5, <1>6, <1>7, <1>8, <1>9 DEF Steps, LoaderStep, CallerStep

LEMMA LaunchesNext ==
    TypeInv /\ CallInv /\ ThreadInv /\ LockInv /\ EndInv /\ NoLaunchLeftBehind /\ Steps
        => NoLaunchLeftBehind'
<1> SUFFICES ASSUME TypeInv, CallInv, ThreadInv, LockInv, EndInv, NoLaunchLeftBehind, Steps
             PROVE  NoLaunchLeftBehind'
  OBVIOUS
<1> USE DEF TypeInv, NoLaunchLeftBehind
<1>0. NoMessage.type = "None" /\ App # Null /\ App # Locked /\ App \in Threads
          /\ (loader_at = "get" => handling = NoMessage) /\ crashed = "none"
  BY Names_apart DEF NoMessage, Plain, LoaderOK, Steps
<1>1. CASE handle_start
  BY <1>0, <1>1 DEF handle_start, BeginStart
<1>2. CASE start_application
  BY <1>2 DEF start_application
<1>3. CASE start_applications
  <2>1. handling.type # "Deferred"
    BY <1>3 DEF start_applications, LoaderOK, Sent, Deferrals, NoMessage, Plain
  <2> QED
    BY <1>3, <2>1 DEF start_applications
<1>4. CASE start_refused \/ start_failed
  BY <1>0, <1>4, NextDeferred DEF start_refused, start_failed, fail_start
<1>5. CASE dialog_closed \/ loader_do_app_closed
  BY <1>0, <1>5, NextDeferred DEF dialog_closed, loader_do_app_closed
<1>6. CASE loader_do_lock \/ loader_do_query \/ loader_do_menu_show \/ handle_closed
  BY <1>0, <1>6 DEF loader_do_lock, loader_do_query, loader_do_menu_show, handle_closed
<1>7. CASE loader_do_unlock
  BY <1>0, <1>7 DEF loader_do_unlock
<1>8. CASE handle_enqueue_launch
  <2>1. Head(queue).type = "EnqueueLaunch" /\ Took
    BY <1>8 DEF handle_enqueue_launch, Took
  <2>2. Head(queue).from = App /\ at[App] = "wait"
    BY <2>1, TookFacts DEF Sent, CallInv, Asks, Asking
  <2>3. slot = App
    BY <1>0, <2>2 DEF ThreadInv, Alive, EndInv, Allocated
  <2> QED
    BY <1>8, <2>3 DEF handle_enqueue_launch
<1>9. CASE handle_clear_launch_queue
  BY <1>9 DEF handle_clear_launch_queue
<1>10. CASE loader_do_menu_closed
  BY <1>10 DEF loader_do_menu_closed
<1>11. CASE CallerStep /\ ~dialog_closed
  BY <1>11 DEF CallerStep, Calling, Telling, Moving, browser_start, loader_unlock,
     animation_timeout, desktop_custom_event_callback, loader_generic_synchronous_request, PutAndGo
<1>12. CASE InitThreadStep
  BY <1>12 DEF InitThreadStep, Scrub, loader_thread_state_callback, ThreadBegins, ThreadReturns
<1> QED
  BY <1>1, <1>2, <1>3, <1>4, <1>5, <1>6, <1>7, <1>8, <1>9, <1>10, <1>11, <1>12
  DEF Steps, LoaderStep, CallerStep

LEMMA FlagBefore ==
    ASSUME TypeInv, Steps, ~start_application, at'[Browser] = "flag"
    PROVE  at[Browser] = "flag"
<1> USE DEF TypeInv
<1>0. /\ at \in [Processes -> Places] /\ Browser \in Processes /\ App # Browser
      /\ Menu \in Processes /\ Desktop \in Processes /\ Clients \subseteq Processes
  BY Names_apart DEF AtOK
<1>1. ASSUME NEW p \in Processes, NEW x, x # "flag", at' = [at EXCEPT ![p] = x]
      PROVE  at[Browser] = "flag"
  BY <1>0, <1>1
<1>2. CASE at' = at
  BY <1>2
<1>3. CASE start_applications
  <2> DEFINE threads == IF Allocated(Browser) THEN at ELSE [at EXCEPT ![Browser] = "run"]
  <2>1. handling.type = "Start" => handling.from # Browser
    BY <1>3 DEF start_applications, LoaderOK, Sent, Deferrals, NoMessage, Plain
  <2>2. threads \in [Processes -> Places] /\ at' = Answered(threads, "flag")
    BY <1>0, <1>3 DEF start_applications, Places
  <2>3. threads[Browser] = "flag" => at[Browser] = "flag"
    BY <1>0
  <2> HIDE DEF threads
  <2> QED
    BY <1>0, <2>1, <2>2, <2>3, AnsweredKeeps
<1>4. CASE fail_start
  <2>1. handling.type = "Start" => handling.from # Browser
    BY <1>0, <1>4 DEF fail_start, Answered
  <2> QED
    BY <1>0, <1>4, <2>1, AnsweredKeeps DEF fail_start
<1>5. CASE loader_do_lock \/ loader_do_query \/ handle_enqueue_launch
              \/ handle_clear_launch_queue \/ loader_do_menu_show
  <2>1. Head(queue).from \in Processes \/ queue = <<>>
    BY HeadSent, SentFrom
  <2>2. at' = at \/ \E p \in Processes, x \in {"run", "locked"} : at' = [at EXCEPT ![p] = x]
    BY <1>0, <1>5, <2>1 DEF loader_do_lock, loader_do_query, handle_enqueue_launch,
       handle_clear_launch_queue, loader_do_menu_show
  <2> QED
    BY <1>1, <1>2, <2>2
<1>6. CASE handle_start \/ loader_do_unlock \/ handle_closed \/ loader_do_menu_closed
              \/ loader_do_app_closed \/ start_refused \/ start_failed \/ dialog_closed
  BY <1>2, <1>4, <1>6 DEF handle_start, loader_do_unlock, handle_closed, loader_do_menu_closed,
     loader_do_app_closed, start_refused, start_failed, dialog_closed
<1>7. CASE Calling
  BY <1>1, <1>7, SentFrom DEF Calling, loader_generic_synchronous_request
<1>8. CASE Telling
  <2>1. PICK m \in Sent, from \in {"run", "detach", "menu"}, to \in {"run", "end"} :
            PutAndGo(m, from, to)
    BY <1>8 DEF Telling
  <2> QED
    BY <1>1, <2>1, SentFrom DEF PutAndGo
<1>9. CASE browser_start
  BY <1>0, <1>1, <1>9 DEF browser_start, PutAndGo, Named
<1>10. ASSUME NEW c \in Clients, loader_unlock(c) PROVE at[Browser] = "flag"
  BY <1>0, <1>1, <1>10 DEF loader_unlock, PutAndGo, Plain
<1>11. CASE Moving
  <2>1. PICK p \in {Desktop, Browser}, from \in {"run", "flag", "leave"},
             to \in {"start", "leave", "run", "detach", "menu"} : Goes(p, from, to)
    BY <1>11 DEF Moving
  <2> QED
    BY <1>0, <1>1, <2>1
<1>12. CASE animation_timeout \/ desktop_custom_event_callback \/ InitThreadStep
  BY <1>2, <1>12 DEF animation_timeout, desktop_custom_event_callback, InitThreadStep, Scrub,
     loader_thread_state_callback, ThreadBegins, ThreadReturns
<1> QED
  BY <1>3, <1>5, <1>6, <1>7, <1>8, <1>9, <1>10, <1>11, <1>12 DEF Steps, LoaderStep, CallerStep

LEMMA AliveBefore ==
    ASSUME ThreadsTypeOK, ThreadInv, ThreadStep, at[Browser] = "flag", Alive(Browser)'
    PROVE  Alive(Browser)
<1>0. thread \in [Threads -> ThreadStates] /\ Browser \in Threads /\ thread[Browser] # "Starting"
  BY Names_apart DEF ThreadsTypeOK, ThreadInv
<1>1. CASE UNCHANGED threadVars \/ ScrubStep \/ Delivered
  BY <1>0, <1>1 DEF ScrubStep, scrub_get, scrub_mark, scrub_read, Delivered, Alive,
     ThreadsTypeOK, Scrubbing, ScrubberIdle
<1>2. ASSUME NEW t \in Threads, StartThread(t) \/ JoinAndFree(t) \/ furi_thread_body(t)
      PROVE  Alive(Browser)
  BY <1>0, <1>2 DEF StartThread, JoinAndFree, furi_thread_body, Alive
<1>3. ASSUME NEW t \in Threads, furi_thread_body_returns(t) PROVE Alive(Browser)
  BY <1>0, <1>3 DEF furi_thread_body_returns, Alive
<1> QED
  BY <1>1, <1>2, <1>3 DEF ThreadStep

LEMMA BrowserInvNext ==
    TypeInv /\ ThreadInv /\ EndInv /\ DeferredWhileFree /\ BrowserInv /\ Steps => BrowserInv'
<1> SUFFICES ASSUME TypeInv, ThreadInv, EndInv, DeferredWhileFree, BrowserInv, Steps,
                    WaitsForEnd', slot' # App
             PROVE  stop_event' \/ handling'.type = "Deferred"
  BY DEF BrowserInv
<1> USE DEF TypeInv
<1>0. NoMessage.type = "None" /\ App # Null /\ App # Locked
          /\ (loader_at = "get" => handling = NoMessage)
  BY Names_apart DEF NoMessage, Plain, LoaderOK
<1>1. CASE start_application
  BY <1>1 DEF start_application
<1>2. WaitsForEnd \/ start_application
  BY FlagBefore, AliveBefore, ThreadSteps DEF WaitsForEnd
<1>3. CASE loader_do_app_closed \/ dialog_closed
  <2>1. CASE loader_do_next_deferred_launch_if_available
    BY <1>2, <1>3, <2>1, NextDeferred
    DEF loader_do_app_closed, dialog_closed, Emit, Subscribed, WaitsForEnd, start_application
  <2>2. CASE dialog_closed /\ handling.type = "Detached" /\ loader_do_emit_queue_empty_event
    BY <1>2, <2>2 DEF dialog_closed, loader_do_emit_queue_empty_event, Emit, BrowserInv,
       start_application
  <2> QED
    BY <1>3, <2>1, <2>2 DEF loader_do_app_closed, dialog_closed
<1>4. CASE start_failed \/ start_refused
  <2>1. WaitsForEnd
    BY <1>2, <1>4 DEF start_failed, start_refused, start_application
  <2>2. CASE loader_do_next_deferred_launch_if_available
    BY <2>1, <2>2, NextDeferred DEF Emit, Subscribed, WaitsForEnd
  <2>3. CASE fail_start
    BY <1>4, <2>1, <2>3 DEF start_failed, start_refused, fail_start,
       loader_do_emit_queue_empty_event, Emit, BrowserInv
  <2>4. CASE UNCHANGED stop_event /\ (handling.type = "Detached" \/ UNCHANGED handling)
    BY <1>4, <2>1, <2>4 DEF start_failed, start_refused, BrowserInv
  <2> QED
    BY <1>4, <2>2, <2>3, <2>4 DEF start_failed, start_refused
<1>5. ASSUME WaitsForEnd, slot # App, stop_event' = stop_event,
             handling.type = "Deferred" => handling'.type = "Deferred"
      PROVE  stop_event' \/ handling'.type = "Deferred"
  BY <1>5 DEF BrowserInv
<1>6. CASE start_applications
  <2>1. handling.type # "Deferred" /\ slot # App
    BY <1>0, <1>6 DEF start_applications, LoaderOK, Sent, Deferrals
  <2>2. WaitsForEnd
    BY <1>2, <1>6 DEF start_applications, start_application, LoaderOK
  <2>3. Allocated(Browser)
    BY <2>2, Names_apart DEF WaitsForEnd, Alive, Allocated
  <2> QED
    BY <1>6, <2>1, <2>2, <2>3 DEF start_applications, BrowserInv
<1>7. CASE handle_start \/ loader_do_lock \/ loader_do_unlock \/ loader_do_query
              \/ handle_enqueue_launch
  BY <1>0, <1>2, <1>5, <1>7 DEF handle_start, BeginStart, loader_do_lock, loader_do_unlock,
     loader_do_query, handle_enqueue_launch, start_application
<1>8. CASE handle_clear_launch_queue \/ loader_do_menu_show \/ handle_closed
              \/ loader_do_menu_closed
  BY <1>0, <1>2, <1>5, <1>8 DEF handle_clear_launch_queue, loader_do_menu_show, handle_closed,
     loader_do_menu_closed, start_application
<1>9. CASE Moving
  <2>1. PICK p \in {Desktop, Browser}, from \in {"run", "flag", "leave"},
             to \in {"start", "leave", "run", "detach", "menu"} :
            /\ Goes(p, from, to) /\ (from = "flag" => p = Browser)
            /\ (stop_event' = stop_event) \/ from = "flag"
    BY <1>9 DEF Moving
  <2>2. from # "flag"
    BY <2>1, Names_apart DEF AtOK, WaitsForEnd
  <2>3. UNCHANGED loaderVars
    BY <1>9 DEF Moving
  <2>4. stop_event' = stop_event
    BY <1>9, <2>1, <2>2
  <2> QED
    BY <1>2, <1>5, <2>3, <2>4, <1>1
<1>10. CASE Calling \/ Telling \/ browser_start \/ animation_timeout
               \/ desktop_custom_event_callback \/ \E c \in Clients : loader_unlock(c)
  <2>1. UNCHANGED loaderVars /\ UNCHANGED stop_event
    BY <1>10 DEF Calling, Telling, browser_start, loader_unlock, animation_timeout,
       desktop_custom_event_callback, loader_generic_synchronous_request, PutAndGo
  <2> QED
    BY <1>1, <1>2, <1>5, <2>1
<1>11. CASE InitThreadStep
  <2>1. UNCHANGED loaderVars /\ UNCHANGED stop_event
    BY <1>11 DEF InitThreadStep, Scrub, loader_thread_state_callback, ThreadBegins, ThreadReturns
  <2> QED
    BY <1>1, <1>2, <1>5, <2>1
<1> QED
  BY <1>1, <1>3, <1>4, <1>6, <1>7, <1>8, <1>9, <1>10, <1>11 DEF Steps, LoaderStep, CallerStep

-----------------------------------------------------------------------------
(* The invariant and what follows from it.                                 *)
LEMMA InitInv == Init => LoaderInv
<1> SUFFICES ASSUME Init PROVE LoaderInv
  OBVIOUS
<1>0. /\ queue = <<>> /\ scrub_queue = <<>> /\ events = <<>> /\ launch_queue = <<>>
      /\ slot = Null /\ loader_at = "get" /\ handling = NoMessage /\ crashed = "none"
      /\ animation_semaphore = FALSE /\ scrubber = ScrubberIdle
      /\ thread = [t \in Threads |-> "None"] /\ at = [p \in Processes |-> "run"]
  BY DEF Init, ThreadsInit
<1>1. /\ NoMessage.type = "None" /\ ScrubberIdle.at = "get" /\ ScrubberIdle.of = NoThread
      /\ NoThread \notin Threads
  BY ThreadsAssumption DEF NoMessage, Plain, ScrubberIdle
<1>2. CallInv
  BY <1>0, <1>1 DEF CallInv
<1>3. ThreadInv
  BY <1>0, <1>1, Names_apart DEF ThreadInv
<1>4. LockInv
  BY <1>0, Names_apart DEF LockInv, HasLock, Unlocking
<1>5. EndInv
  BY <1>0, <1>1, Names_apart DEF EndInv, Told, Reaping, Allocated
<1>6. DesktopInv
  BY <1>0, Names_apart DEF DesktopInv, DesktopStalledWhileAppRuns
<1>7. DeferredWhileFree /\ NoLaunchLeftBehind /\ BrowserInv /\ ChecksHold
  BY <1>0, <1>1, Names_apart
  DEF DeferredWhileFree, NoLaunchLeftBehind, BrowserInv, WaitsForEnd, ChecksHold
<1> QED
  BY <1>2, <1>3, <1>4, <1>5, <1>6, <1>7, InitType DEF LoaderInv

LEMMA StutterInv == LoaderInv /\ UNCHANGED vars => LoaderInv'
<1> SUFFICES ASSUME LoaderInv, UNCHANGED vars PROVE LoaderInv'
  OBVIOUS
<1> USE DEF vars
<1>1. TypeInv'
  BY TypeInvNext DEF LoaderInv
<1>2. CallInv'
  BY DEF LoaderInv, CallInv
<1>3. ThreadInv'
  BY DEF LoaderInv, ThreadInv, Alive
<1>4. LockInv'
  BY DEF LoaderInv, LockInv, HasLock, Unlocking
<1>5. EndInv'
  BY DEF LoaderInv, EndInv, Told, Reaping, Allocated
<1>6. DesktopInv'
  BY DEF LoaderInv, DesktopInv, DesktopStalledWhileAppRuns
<1>7. DeferredWhileFree' /\ NoLaunchLeftBehind' /\ BrowserInv' /\ ChecksHold'
  BY DEF LoaderInv, DeferredWhileFree, NoLaunchLeftBehind, BrowserInv, WaitsForEnd, Alive,
         ChecksHold
<1> QED
  BY <1>1, <1>2, <1>3, <1>4, <1>5, <1>6, <1>7 DEF LoaderInv

LEMMA LoaderInvInductive == LoaderInv /\ [Next]_vars => LoaderInv'
<1>1. LoaderInv /\ Next => LoaderInv'
  BY TheSteps, TypeInvNext, CallInvNext, ThreadInvNext, LockInvNext, EndInvNext, DesktopInvNext,
     DeferredNext, LaunchesNext, BrowserInvNext, ChecksNext DEF LoaderInv
<1> QED
  BY <1>1, StutterInv

LEMMA LoaderAlways == Spec => []LoaderInv
BY InitInv, LoaderInvInductive, PTL DEF Spec

(* The loader's furi_checks about the lock and about the end of an          *)
(* application hold; the one that can fail is that of the launch queue.     *)
THEOREM LoaderChecks == Spec => []ChecksHold
<1>1. LoaderInv => ChecksHold
  BY DEF LoaderInv
<1> QED
  BY <1>1, LoaderAlways, PTL

(* When the loader learns of the end of the application the thread has      *)
(* stopped, and the init thread is done with the memory that is freed.      *)
THEOREM ApplicationEndIsSafe == Spec => []AppClosedIsSafe
<1>1. LoaderInv => AppClosedIsSafe
  <2> SUFFICES ASSUME LoaderInv PROVE AppClosedIsSafe
    OBVIOUS
  <2> USE DEF LoaderInv
  <2>1. scrubber.of = App => Allocated(App)
    <3>1. scrubber.at = "mark" => thread[scrubber.of] = "Stopping"
      BY DEF ThreadInv
    <3> QED
      BY <3>1 DEF EndInv, Allocated
  <2>2. ASSUME NEW m \in {queue[i] : i \in DOMAIN queue} \cup {handling}, m.type = "AppClosed"
        PROVE  Joinable(App)
    <3>1. CASE m = handling
      <4>1. loader_at = "join"
        BY <2>2, <3>1 DEF TypeInv, LoaderOK, NoMessage, Plain
      <4> QED
        BY <2>2, <3>1, <4>1 DEF EndInv, Reaping, Joinable
    <3>2. ASSUME NEW i \in DOMAIN queue, m = queue[i] PROVE Joinable(App)
      BY <2>2, <3>2 DEF EndInv, Told, Joinable
    <3> QED
      BY <3>1, <3>2
  <2> QED
    BY <2>1, <2>2 DEF AppClosedIsSafe
<1> QED
  BY <1>1, LoaderAlways, PTL

(* While an application has its thread the desktop has unloaded its         *)
(* animation, and nothing on its way would load it.                         *)
THEOREM DesktopIsStalled == Spec => []DesktopStalledWhileAppRuns
<1>1. LoaderInv => DesktopStalledWhileAppRuns
  BY DEF LoaderInv, DesktopInv
<1> QED
  BY <1>1, LoaderAlways, PTL

(* Launches are left in the queue only while an application is there, whose *)
(* end takes the next one, or one of them is being handled.                 *)
THEOREM LaunchesGoOn == Spec => []NoLaunchLeftBehind
<1>1. LoaderInv => NoLaunchLeftBehind
  BY DEF LoaderInv
<1> QED
  BY <1>1, LoaderAlways, PTL

(* A browser that waits for the end of the application it started has the   *)
(* event once the loader has nothing more to launch.                        *)
THEOREM BrowserLearns == Spec => []BrowserIsTold
<1>1. LoaderInv => BrowserIsTold
  BY DEF LoaderInv, BrowserInv, WaitsForEnd, BrowserIsTold, TypeInv, LoaderOK, NoMessage, Plain
<1> QED
  BY <1>1, LoaderAlways, PTL

(* Two clients never hold the lock at once, and none while an application   *)
(* has a thread.                                                            *)
THEOREM LocksAreExclusive == Spec => []LocksExclude
<1>1. LoaderInv => LocksExclude
  BY Names_apart DEF LoaderInv, LockInv, EndInv, LocksExclude
<1> QED
  BY <1>1, LoaderAlways, PTL

-----------------------------------------------------------------------------
(* The refinement.                                                         *)
OwnerFacts ==
    /\ slot = App => Owner = App
    /\ slot = Null => Owner = Null
    /\ \A c \in Clients : HasLock(c) => Owner = c
    /\ slot = Locked => \E c \in Clients : HasLock(c)

LEMMA OwnerIs == LoaderInv => OwnerFacts
<1> SUFFICES ASSUME LoaderInv PROVE OwnerFacts
  OBVIOUS
<1>1. App # Null /\ App # Locked /\ Null # Locked
  BY Names_apart
<1>2. \A c, d \in Clients : HasLock(c) /\ HasLock(d) => c = d
  BY DEF LoaderInv, LockInv
<1>3. \A c \in Clients : HasLock(c) => slot = Locked
  BY DEF LoaderInv, LockInv
<1>4. slot = Locked => \E c \in Clients : HasLock(c)
  BY DEF LoaderInv, LockInv
<1>5. slot = App => Owner = App
  BY <1>1 DEF Owner
<1>6. slot = Null => Owner = Null
  BY <1>1 DEF Owner
<1>7. ASSUME NEW c \in Clients, HasLock(c) PROVE Owner = c
  <2>1. Owner = CHOOSE d \in Clients : HasLock(d)
    BY <1>1, <1>3, <1>7 DEF Owner
  <2>2. (CHOOSE d \in Clients : HasLock(d)) \in Clients /\ HasLock(CHOOSE d \in Clients : HasLock(d))
    BY <1>7
  <2> QED
    BY <1>2, <1>7, <2>1, <2>2
<1> QED
  BY <1>4, <1>5, <1>6, <1>7 DEF OwnerFacts

(* A step of the loader is a step of the slot, or none.                    *)
LEMMA StepsSlot == LoaderInv /\ [Next]_vars => [Slot!Next]_Owner
<1> SUFFICES ASSUME LoaderInv, [Next]_vars, Owner' # Owner PROVE Slot!Next
  OBVIOUS
<1>0. OwnerFacts /\ OwnerFacts'
  <2>1. LoaderInv'
    BY LoaderInvInductive
  <2>2. LoaderInv' => OwnerFacts'
    BY OwnerIs, PTL
  <2> QED
    BY <2>1, <2>2, OwnerIs
<1>1. Steps
  <2>1. ~UNCHANGED vars
    BY DEF vars, Owner, HasLock
  <2> QED
    BY <2>1, TheSteps DEF LoaderInv
<1>2. TypeInv /\ CallInv /\ ThreadInv /\ EndInv /\ LockInv
  BY DEF LoaderInv
<1>3. slot \in {Null, Locked, App} /\ slot' \in {Null, Locked, App} /\ App # Locked /\ Null # Locked
          /\ at \in [Processes -> Places] /\ Clients \subseteq Processes
  BY <1>1, <1>2, LoaderOKNext, Names_apart DEF TypeInv, LoaderOK, AtOK
<1>4. CASE LockKept
  <2>1. CASE slot = Locked
    <3>1. PICK c \in Clients : HasLock(c)
      BY <1>0, <2>1 DEF OwnerFacts
    <3>2. HasLock(c)'
      BY <1>2, <1>4, <3>1, KeptLock
    <3> QED
      BY <1>0, <3>1, <3>2 DEF OwnerFacts
  <2>2. CASE slot # Locked
    <3>1. slot' # Locked
      BY <1>4, <2>2 DEF LockKept
    <3>2. Owner = slot /\ Owner' = slot'
      BY <1>0, <1>3, <2>2, <3>1 DEF OwnerFacts
    <3> QED
      BY <1>3, <2>2, <3>1, <3>2 DEF Slot!Next, Slot!Launch, Slot!AppGone
  <2> QED
    BY <2>1, <2>2
<1>5. ASSUME NEW c \in Clients, Granted(c) PROVE Slot!Next
  <2>1. HasLock(c)'
    BY <1>3, <1>5 DEF Granted, HasLock
  <2>2. Owner = Null /\ Owner' = c
    BY <1>0, <1>5, <2>1 DEF OwnerFacts, Granted
  <2> QED
    BY <2>2 DEF Slot!Next, Slot!Lock
<1>6. ASSUME NEW c \in Clients, loader_unlock(c) PROVE FALSE
  <2>1. HasLock(c)
    BY <1>6, UnlockPut DEF HasLock
  <2>2. HasLock(c)'
    BY <1>2, <1>6, UnlockPut, AddedFacts DEF HasLock, TypeInv
  <2> QED
    BY <1>0, <2>1, <2>2 DEF OwnerFacts
<1>7. CASE loader_do_unlock
  <2>1. PICK c \in Clients : HasLock(c) /\ slot' = Null
    BY <1>2, <1>7, UnlockTaken
  <2>2. Owner = c /\ Owner' = Null
    BY <1>0, <2>1 DEF OwnerFacts
  <2> QED
    BY <2>2 DEF Slot!Next, Slot!Unlock
<1> QED
  BY <1>1, <1>2, <1>4, <1>5, <1>6, <1>7, StepsKeepLock, LockGranted

(* The loader implements AppSlot: no application starts under a client's    *)
(* lock or beside another application, no lock is granted before the last   *)
(* thread is gone, and an unlock frees its own caller's lock.               *)
THEOREM LoaderImplementsAppSlot == Spec => ImplementsAppSlot
<1>1. Init => Slot!Init
  BY Names_apart DEF Init, Slot!Init, Owner
<1>2. LoaderInv /\ [Next]_vars => [Slot!Next]_Owner
  BY StepsSlot
<1> QED
  BY <1>1, <1>2, LoaderAlways, PTL DEF Spec, ImplementsAppSlot, Slot!Spec
=============================================================================
