------------------------------- MODULE Loader -------------------------------
(***************************************************************************)
(* The loader (loader.c): one thread that starts applications, one at a    *)
(* time, and takes its requests from a queue of one message.  Around it:   *)
(* the clients of the host (CLI, RPC), the desktop, which is told before   *)
(* an application loads and has to answer, the menu and the browser of     *)
(* applications, threads that the loader owns and that start applications  *)
(* themselves, the application, and the init thread, which reports its end *)
(* (module Threads).                                                       *)
(*                                                                         *)
(* A message that needs no other thread is handled in one step.  Arguments *)
(* and error texts, heap tracing, insomnia and the launch path are left    *)
(* out.  IsLocked, GetApplicationName, GetApplicationLaunchPath and Signal *)
(* are one Query.                                                          *)
(***************************************************************************)
EXTENDS Threads

CONSTANTS
    Clients,        \* threads of the CLI and of RPC sessions
    Desktop,        \* the desktop's thread
    App, Menu, Browser,     \* LoaderAppData.thread, loader_menu, loader_applications
    Names,          \* names that a caller may ask for
    Runnable,       \* the names of applications that load
    Applications,   \* LOADER_APPLICATIONS_NAME, which opens the browser
    QueueSize,      \* capacity of Loader.queue
    LaunchSize,     \* LOADER_QUEUE_MAX_SIZE
    MaxCalls,       \* bound: calls made by users, host and applications
    NoName, Null, Locked    \* Locked is LOADER_MAGIC_THREAD_VALUE

ASSUME LoaderAssumption ==
    /\ Threads = {App, Menu, Browser} /\ Watched = {App}
    /\ App # Menu /\ App # Browser /\ Menu # Browser
    /\ Clients \cap Threads = {} /\ Desktop \notin Clients \cup Threads
    /\ Runnable \subseteq Names \ {Applications} /\ NoName \notin Names
    /\ Null # Locked /\ {Null, Locked} \cap (Clients \cup Threads) = {}
    /\ QueueSize \in Nat \ {0} /\ LaunchSize \in Nat /\ MaxCalls \in Nat

VARIABLES
    queue,          \* Loader.queue
    slot,           \* Loader.app.thread: Null, Locked or App
    launch_queue,   \* Loader.launch_queue
    loader_at,      \* the loader: get, acknowledge (the desktop's), dialog, join
    handling,       \* the message or deferred launch being handled
    at,             \* where each other thread is
    stop_event,     \* APPLICATION_STOP_EVENT among the browser's thread flags
    events,         \* loader events in the desktop's view dispatcher
    animation_semaphore,    \* of the desktop
    app_running,    \* of the desktop
    crashed,        \* the furi_check that failed: none, animation, loader
    calls           \* calls made so far

loaderVars == <<slot, launch_queue, loader_at, handling>>
desktopVars == <<events, animation_semaphore, app_running>>
vars == <<thread, scrub_queue, scrubber, queue, slot, launch_queue, loader_at, handling,
          at, stop_event, events, animation_semaphore, app_running, crashed, calls>>

Processes == Clients \cup {Desktop} \cup Threads

Types == {"Start", "Detached", "Deferred", "Lock", "Unlock", "Query", "ShowMenu",
          "MenuClosed", "ApplicationsClosed", "AppClosed", "EnqueueLaunch",
          "ClearLaunchQueue", "None"}
Messages == [type : Types, from : Processes \cup {Null}, name : Names \cup {NoName},
             gui : BOOLEAN]

Plain(type, p) == [type |-> type, from |-> p, name |-> NoName, gui |-> FALSE]
Named(type, p, name) == [type |-> type, from |-> p, name |-> name, gui |-> FALSE]
NoMessage == Plain("None", Null)

TypeOK ==
    /\ ThreadsTypeOK
    /\ queue \in Seq(Messages) /\ Len(queue) <= QueueSize
    /\ slot \in {Null, Locked, App}
    /\ launch_queue \in Seq(Messages) /\ Len(launch_queue) <= LaunchSize
    /\ loader_at \in {"get", "acknowledge", "dialog", "join"}
    /\ handling \in Messages
    /\ at \in [Processes -> {"run", "wait", "locked", "start", "flag", "leave", "end",
                             "detach", "menu"}]
    /\ stop_event \in BOOLEAN
    /\ events \in Seq({"BeforeLoad", "NoMoreAppsInQueue"})
    /\ animation_semaphore \in BOOLEAN /\ app_running \in BOOLEAN
    /\ crashed \in {"none", "animation", "loader"}
    /\ calls \in 0..MaxCalls

Init ==
    /\ ThreadsInit
    /\ queue = <<>> /\ slot = Null /\ launch_queue = <<>>
    /\ loader_at = "get" /\ handling = NoMessage
    /\ at = [p \in Processes |-> "run"]
    /\ stop_event = FALSE /\ events = <<>>
    /\ animation_semaphore = FALSE /\ app_running = FALSE
    /\ crashed = "none" /\ calls = 0

-----------------------------------------------------------------------------
(* Callers.  A put waits for room: it is not enabled while there is none.  *)

Put(m) == Len(queue) < QueueSize /\ queue' = Append(queue, m)

Goes(p, from, to) == at[p] = from /\ at' = [at EXCEPT ![p] = to]

Alive(p) == p \in Threads => thread[p] = "Running"

Counted == calls < MaxCalls /\ calls' = calls + 1

(* A synchronous request: put the message, wait for the api_lock.          *)
loader_generic_synchronous_request(m) ==
    /\ Alive(m.from) /\ Goes(m.from, "run", "wait") /\ Put(m) /\ Counted
    /\ UNCHANGED <<threadVars, loaderVars, desktopVars, stop_event, crashed>>

(* A put by a thread that does not wait for an answer.                     *)
PutAndGo(m, from, to) ==
    /\ Alive(m.from) /\ Goes(m.from, from, to) /\ Put(m)
    /\ UNCHANGED <<threadVars, loaderVars, desktopVars, stop_event, crashed, calls>>

loader_start(p) ==
    \E name \in Names : loader_generic_synchronous_request(Named("Start", p, name))

loader_lock(c) == loader_generic_synchronous_request(Plain("Lock", c))

loader_query(c) == loader_generic_synchronous_request(Plain("Query", c))

(* The CLI shell unlocks when the command that needed the lock has ended.  *)
loader_unlock(c) == PutAndGo(Plain("Unlock", c), "locked", "run")

(* Applications launch their successors, see nfc_app.c; none of them       *)
(* enqueues the browser.                                                   *)
loader_enqueue_launch ==
    \E name \in Names \ {Applications}, gui \in BOOLEAN :
        loader_generic_synchronous_request(
            [Named("EnqueueLaunch", App, name) EXCEPT !.gui = gui])

loader_clear_launch_queue ==
    loader_generic_synchronous_request(Plain("ClearLaunchQueue", App))

(* The last thing the menu's thread and the browser's thread do.           *)
loader_menu_closed_callback == PutAndGo(Plain("MenuClosed", Menu), "run", "end")

loader_applications_closed_callback ==
    PutAndGo(Plain("ApplicationsClosed", Browser), "run", "end")

-----------------------------------------------------------------------------
(* The browser of applications (loader_applications.c).  Publishing holds  *)
(* the mutex of the loader's PubSub, subscribing needs it.                 *)

PubSubFree == loader_at # "acknowledge"

BrowserGoes(from, to) == Alive(Browser) /\ Goes(Browser, from, to)

browser_subscribe ==
    /\ BrowserGoes("run", "start") /\ PubSubFree /\ Counted
    /\ UNCHANGED <<threadVars, loaderVars, desktopVars, queue, stop_event, crashed>>

browser_start ==
    \E name \in Names \ {Applications} :
        PutAndGo(Named("Start", Browser, name), "start", "wait")

browser_flags_wait ==
    /\ BrowserGoes("flag", "leave") /\ stop_event
    /\ stop_event' = FALSE
    /\ UNCHANGED <<threadVars, loaderVars, desktopVars, queue, crashed, calls>>

browser_unsubscribe ==
    /\ BrowserGoes("leave", "run") /\ PubSubFree
    /\ UNCHANGED <<threadVars, loaderVars, desktopVars, queue, stop_event, crashed, calls>>

Subscribed == at[Browser] \in {"start", "wait", "flag", "leave"} /\ Alive(Browser)

-----------------------------------------------------------------------------
(* The desktop (desktop.c)                                                 *)

(* The user starts a favourite, or opens the menu.                         *)
desktop_press(to) ==
    /\ Goes(Desktop, "run", to) /\ Counted
    /\ UNCHANGED <<threadVars, loaderVars, desktopVars, queue, stop_event, crashed>>

loader_start_detached_with_gui_error ==
    \E name \in Names : PutAndGo(Named("Detached", Desktop, name), "detach", "run")

loader_show_menu == PutAndGo(Plain("ShowMenu", Desktop), "menu", "run")

desktop_custom_event_callback ==
    /\ at[Desktop] = "run" /\ events # <<>>
    /\ events' = Tail(events)
    /\ app_running' = (Head(events) = "BeforeLoad")
    /\ animation_semaphore' = (animation_semaphore \/ Head(events) = "BeforeLoad")
    /\ UNCHANGED <<threadVars, loaderVars, queue, at, stop_event, crashed, calls>>

-----------------------------------------------------------------------------
(* The loader's thread                                                     *)

Handles(type) == loader_at = "get" /\ queue # <<>> /\ Head(queue).type = type

Take == queue' = Tail(queue)

Answer(p) == at' = [at EXCEPT ![p] = "run"]

Idle == loader_at' = "get" /\ handling' = NoMessage

(* loader_do_start_by_name publishes BeforeLoad first; the desktop's       *)
(* callback sends the event on and waits for the semaphore.                *)
BeginStart(m) ==
    /\ loader_at' = "acknowledge" /\ handling' = m
    /\ events' = Append(events, "BeforeLoad")

Emit ==
    /\ events' = Append(events, "NoMoreAppsInQueue")
    /\ stop_event' = (stop_event \/ Subscribed)

loader_do_is_locked_by_app == slot = App

loader_do_is_locked == slot # Null

loader_do_emit_queue_empty_event_always == Emit

loader_do_emit_queue_empty_event ==
    IF loader_do_is_locked THEN UNCHANGED <<events, stop_event>> ELSE Emit

loader_do_next_deferred_launch_if_available_never == Emit /\ Idle /\ UNCHANGED launch_queue

loader_do_next_deferred_launch_if_available_quiet ==
    \/ /\ launch_queue # <<>>
       /\ BeginStart(Head(launch_queue))
       /\ launch_queue' = Tail(launch_queue)
       /\ UNCHANGED stop_event
    \/ launch_queue = <<>> /\ Idle /\ UNCHANGED <<launch_queue, events, stop_event>>

loader_do_next_deferred_launch_if_available ==
    \/ /\ launch_queue # <<>>
       /\ BeginStart(Head(launch_queue))
       /\ launch_queue' = Tail(launch_queue)
       /\ UNCHANGED stop_event
    \/ /\ launch_queue = <<>>
       /\ Emit /\ Idle
       /\ UNCHANGED launch_queue

handle_start ==
    /\ Handles("Start") \/ Handles("Detached")
    /\ Take /\ BeginStart(Head(queue))
    /\ UNCHANGED <<threadVars, slot, launch_queue, at, stop_event, animation_semaphore,
                   app_running, crashed, calls>>

Acknowledged == loader_at = "acknowledge" /\ animation_semaphore /\ animation_semaphore' = FALSE

Answered_success(threads, of_browser) ==
    IF handling.type # "Start" \/ of_browser = "leave" THEN threads
    ELSE [threads EXCEPT ![handling.from] = IF handling.from = Browser THEN of_browser ELSE "run"]

(* The caller of loader_start gets its answer.  The browser, which started *)
(* an application, waits for its end; after a failure it unsubscribes.     *)
Answered(threads, of_browser) ==
    IF handling.type # "Start" THEN threads
    ELSE [threads EXCEPT ![handling.from] = IF handling.from = Browser THEN of_browser ELSE "run"]

start_application ==
    /\ Acknowledged /\ ~loader_do_is_locked /\ handling.name \in Runnable
    /\ StartThread(App) /\ slot' = App
    /\ at' = Answered([at EXCEPT ![App] = "run"], "flag")
    /\ Idle
    /\ UNCHANGED <<queue, launch_queue, stop_event, events, app_running, crashed, calls>>

start_applications ==
    /\ Acknowledged /\ ~loader_do_is_locked /\ handling.name = Applications
    /\ \/ ~Allocated(Browser) /\ StartThread(Browser) /\ stop_event' = FALSE
       \/ Allocated(Browser) /\ UNCHANGED <<threadVars, stop_event>>
    /\ at' = Answered(IF Allocated(Browser) THEN at ELSE [at EXCEPT ![Browser] = "run"], "flag")
    /\ Idle
    /\ UNCHANGED <<queue, slot, launch_queue, events, app_running, crashed, calls>>

(* What follows a start that failed.  Only errors other than AppStarted    *)
(* are shown in a dialog.                                                  *)
fail_start ==
    /\ handling.type = "Start"
    /\ loader_do_emit_queue_empty_event /\ Idle
    /\ at' = Answered(at, "leave")
    /\ UNCHANGED launch_queue

ShowsDialog == handling.type = "Detached" \/ (handling.type = "Deferred" /\ handling.gui)

(* LoaderStatusErrorAppStarted: no queue-empty event, for it is locked.    *)
start_refused ==
    /\ Acknowledged /\ loader_do_is_locked
    /\ \/ fail_start
       \/ /\ handling.type = "Detached" /\ Idle
          /\ UNCHANGED <<launch_queue, at, events, stop_event>>
    /\ UNCHANGED <<threadVars, queue, slot, app_running, crashed, calls>>

(* LoaderStatusErrorUnknownApp and LoaderStatusErrorInternal.              *)
start_failed ==
    /\ Acknowledged /\ ~loader_do_is_locked /\ handling.name \notin Runnable \cup {Applications}
    /\ \/ fail_start
       \/ /\ ShowsDialog /\ loader_at' = "dialog"
          /\ UNCHANGED <<launch_queue, handling, at, events, stop_event>>
       \/ /\ handling.type = "Deferred" /\ ~handling.gui
          /\ loader_do_next_deferred_launch_if_available
          /\ UNCHANGED at
    /\ UNCHANGED <<threadVars, queue, slot, app_running, crashed, calls>>

(* The user has closed the error's dialog.                                 *)
dialog_closed ==
    /\ loader_at = "dialog"
    /\ \/ /\ handling.type = "Detached"
          /\ loader_do_emit_queue_empty_event /\ Idle
          /\ UNCHANGED launch_queue
       \/ /\ handling.type = "Deferred"
          /\ loader_do_next_deferred_launch_if_available
    /\ UNCHANGED <<threadVars, queue, slot, at, animation_semaphore, app_running, crashed,
                   calls>>

(* The desktop is in a put of its own, which only the loader could end.    *)
animation_timeout ==
    /\ loader_at = "acknowledge" /\ ~animation_semaphore
    /\ at[Desktop] # "run" /\ Len(queue) = QueueSize
    /\ crashed' = "animation"
    /\ UNCHANGED <<threadVars, loaderVars, desktopVars, queue, at, stop_event, calls>>

CanLock_always == TRUE

CanLock == slot = Null

loader_do_lock ==
    /\ Handles("Lock") /\ Take
    /\ IF CanLock
       THEN slot' = Locked /\ at' = [at EXCEPT ![Head(queue).from] = "locked"]
       ELSE UNCHANGED slot /\ Answer(Head(queue).from)
    /\ UNCHANGED <<threadVars, launch_queue, loader_at, handling, desktopVars, stop_event,
                   crashed, calls>>

loader_do_unlock ==
    /\ Handles("Unlock") /\ Take
    /\ IF slot = Locked THEN slot' = Null /\ UNCHANGED crashed
                        ELSE UNCHANGED slot /\ crashed' = "loader"
    /\ UNCHANGED <<threadVars, launch_queue, loader_at, handling, at, desktopVars, stop_event,
                   calls>>

loader_do_query ==
    /\ Handles("Query") /\ Take /\ Answer(Head(queue).from)
    /\ UNCHANGED <<threadVars, loaderVars, desktopVars, stop_event, crashed, calls>>

handle_enqueue_launch ==
    /\ Handles("EnqueueLaunch") /\ Take /\ Answer(Head(queue).from)
    /\ IF Len(launch_queue) < LaunchSize
       THEN /\ launch_queue' = Append(launch_queue,
                   [Head(queue) EXCEPT !.type = "Deferred", !.from = Null])
            /\ UNCHANGED crashed
       ELSE crashed' = "loader" /\ UNCHANGED launch_queue
    /\ UNCHANGED <<threadVars, slot, loader_at, handling, desktopVars, stop_event, calls>>

handle_clear_launch_queue ==
    /\ Handles("ClearLaunchQueue") /\ Take /\ Answer(Head(queue).from)
    /\ launch_queue' = <<>>
    /\ UNCHANGED <<threadVars, slot, loader_at, handling, desktopVars, stop_event, crashed,
                   calls>>

(* A menu that is open, or about to be closed, is not opened again.        *)
loader_do_menu_show ==
    /\ Handles("ShowMenu") /\ Take
    /\ \/ ~Allocated(Menu) /\ StartThread(Menu) /\ Answer(Menu)
       \/ Allocated(Menu) /\ UNCHANGED <<threadVars, at>>
    /\ UNCHANGED <<loaderVars, desktopVars, stop_event, crashed, calls>>

(* The three messages that tell of the end of a thread: it is joined.      *)
Ends == [MenuClosed |-> Menu, ApplicationsClosed |-> Browser, AppClosed |-> App]

handle_closed ==
    /\ \E type \in DOMAIN Ends : Handles(type)
    /\ Take /\ handling' = Head(queue) /\ loader_at' = "join"
    /\ crashed' = IF Head(queue).type = "AppClosed" /\ slot # App THEN "loader" ELSE crashed
    /\ UNCHANGED <<threadVars, slot, launch_queue, at, desktopVars, stop_event, calls>>

Joins(type) == loader_at = "join" /\ handling.type = type

loader_do_menu_closed ==
    /\ Joins("MenuClosed") \/ Joins("ApplicationsClosed")
    /\ JoinAndFree(Ends[handling.type])
    /\ Idle
    /\ UNCHANGED <<queue, slot, launch_queue, at, desktopVars, stop_event, crashed, calls>>

loader_do_app_closed ==
    /\ Joins("AppClosed")
    /\ JoinAndFree(App)
    /\ slot' = Null
    /\ loader_do_next_deferred_launch_if_available
    /\ UNCHANGED <<queue, at, animation_semaphore, app_running, crashed, calls>>

-----------------------------------------------------------------------------
loader_thread_state_callback_nowait ==
    /\ InCallback(App) /\ Delivered
    /\ queue' = IF Len(queue) < QueueSize THEN Append(queue, Plain("AppClosed", App)) ELSE queue
    /\ UNCHANGED <<loaderVars, desktopVars, at, stop_event, crashed, calls>>

(* The init thread calls loader_thread_state_callback, which puts a        *)
(* message and waits for room.                                             *)
loader_thread_state_callback ==
    /\ InCallback(App) /\ Put(Plain("AppClosed", App)) /\ Delivered
    /\ UNCHANGED <<loaderVars, desktopVars, at, stop_event, crashed, calls>>

Scrub == ScrubStep /\ UNCHANGED <<loaderVars, desktopVars, queue, at, stop_event, crashed, calls>>

ThreadBegins(t) ==
    /\ furi_thread_body(t)
    /\ UNCHANGED <<loaderVars, desktopVars, queue, at, stop_event, crashed, calls>>

MayReturn(t) == at[t] = IF t = App THEN "run" ELSE "end"

ThreadReturns(t) ==
    /\ MayReturn(t) /\ furi_thread_body_returns(t)
    /\ UNCHANGED <<loaderVars, desktopVars, queue, at, stop_event, crashed, calls>>

-----------------------------------------------------------------------------
LoaderStep ==
    \/ handle_start \/ start_application \/ start_applications \/ start_refused
    \/ start_failed \/ loader_do_lock \/ loader_do_unlock \/ loader_do_query
    \/ handle_enqueue_launch \/ handle_clear_launch_queue \/ loader_do_menu_show
    \/ handle_closed \/ loader_do_menu_closed \/ loader_do_app_closed

ScrubberStep == Scrub \/ loader_thread_state_callback

DesktopStep ==
    \/ loader_start_detached_with_gui_error \/ loader_show_menu
    \/ desktop_custom_event_callback

BrowserStep == browser_start \/ browser_flags_wait \/ browser_unsubscribe

UserStep ==
    \/ \E p \in Clients \cup {Menu} : loader_start(p)
    \/ \E c \in Clients : loader_lock(c) \/ loader_query(c)
    \/ loader_enqueue_launch \/ loader_clear_launch_queue
    \/ loader_menu_closed_callback \/ loader_applications_closed_callback
    \/ browser_subscribe
    \/ desktop_press("detach") \/ desktop_press("menu")

Next ==
    /\ crashed = "none"
    /\ \/ LoaderStep \/ dialog_closed \/ animation_timeout \/ ScrubberStep \/ DesktopStep
       \/ BrowserStep \/ UserStep
       \/ \E c \in Clients : loader_unlock(c)
       \/ \E t \in Threads : ThreadBegins(t) \/ ThreadReturns(t)

Spec == Init /\ [][Next]_vars

(* Threads are scheduled; the user closes error dialogs; a command that    *)
(* holds the lock ends.  Nothing is assumed of applications.               *)
Ongoing == crashed = "none"
Fairness ==
    /\ WF_vars(Ongoing /\ LoaderStep) /\ WF_vars(Ongoing /\ dialog_closed)
    /\ WF_vars(Ongoing /\ ScrubberStep) /\ WF_vars(Ongoing /\ DesktopStep)
    /\ WF_vars(Ongoing /\ BrowserStep) /\ WF_vars(Ongoing /\ animation_timeout)
    /\ \A c \in Clients : WF_vars(Ongoing /\ loader_unlock(c))
    /\ \A t \in Threads : WF_vars(Ongoing /\ ThreadBegins(t))
    /\ \A t \in {Menu, Browser} : WF_vars(Ongoing /\ ThreadReturns(t))

FairSpec == Spec /\ Fairness

-----------------------------------------------------------------------------
(* Who has the slot: the application, or the client whose lock was granted *)
(* and whose unlock has not been handled.                                  *)
HasLock(c) == at[c] = "locked" \/ Plain("Unlock", c) \in {queue[i] : i \in DOMAIN queue}

Owner == CASE slot = App -> App
           [] slot = Locked -> CHOOSE c \in Clients : HasLock(c)
           [] OTHER -> Null

Slot == INSTANCE AppSlot WITH Nobody <- Null, owner <- Owner

(* The loader implements AppSlot: no application starts under a client's   *)
(* lock or beside another application, no lock is granted before the last  *)
(* thread is gone, and an unlock frees the lock of its caller only.        *)
ImplementsAppSlot == Slot!Spec

(* One lock at a time, as the callers see it.                              *)
LocksExclude ==
    /\ \A c, d \in Clients : HasLock(c) /\ HasLock(d) => c = d
    /\ \A c \in Clients : HasLock(c) => slot = Locked /\ ~Allocated(App)

(* The loader's own checks hold, but for the room in the launch queue:     *)
(* unlocking finds the lock, and the end of an application finds it.       *)
ChecksHold == crashed = "loader" => Len(launch_queue) = LaunchSize

(* When the loader learns of the application's end the thread has stopped, *)
(* so that joining it takes no time; and the init thread is done with the  *)
(* thread before its memory is freed.                                      *)
AppClosedIsSafe ==
    /\ scrubber.of = App => Allocated(App)
    /\ \A m \in {queue[i] : i \in DOMAIN queue} \cup {handling} :
           m.type = "AppClosed" => Joinable(App)

(* While an application has its thread the desktop knows of it: it has     *)
(* unloaded its animation, and nothing that would load it is on its way.   *)
DesktopStalledWhileAppRuns ==
    slot = App /\ loader_at # "acknowledge" => app_running /\ events = <<>>

(* The launch queue is left alone only while an application is there: its  *)
(* end launches the next one, whatever fails in between.                   *)
NoLaunchLeftBehind ==
    launch_queue # <<>> => slot = App \/ handling.type = "Deferred" \/ crashed # "none"

(* A browser that waits for the end of the application it has started is   *)
(* told of it: after the end, and the launches that follow, the event is   *)
(* there.                                                                  *)
BrowserIsTold ==
    at[Browser] = "flag" /\ Alive(Browser) /\ slot # App /\ loader_at = "get" => stop_event

(* The one way for the loader to stop for good: it waits for the thread of *)
(* the menu or the browser, which the init thread would stop, which waits  *)
(* to tell of the application's end, in a queue that the loader would      *)
(* empty.                                                                  *)
JoinCycle == loader_at = "join" /\ InCallback(App) /\ Len(queue) = QueueSize

Halted == JoinCycle \/ crashed # "none"

(* An application that has returned is reaped, and what a thread asks of   *)
(* the loader is answered, unless the loader has stopped for good.         *)
AppIsReaped == thread[App] = "Stopping" ~> (thread[App] = "None" \/ Halted)

CallsAreAnswered ==
    \A p \in Clients \cup Threads : at[p] = "wait" ~> (at[p] # "wait" \/ Halted)

-----------------------------------------------------------------------------
(* What the comments say                                                   *)

(* thread.h says that a stopped thread is safe to release.                 *)
StoppedIsSafeToRelease == scrubber.at = "read" => Allocated(scrubber.of)

(* thread.h says that a join waits forever only when the CPU is busy.      *)
JoinReturns == loader_at = "join" ~> loader_at # "join"

(* The desktop's callback checks that the acknowledgement comes in time.   *)
AnimationAcknowledged == crashed # "animation"
=============================================================================
