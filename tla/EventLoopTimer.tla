--------------------------- MODULE EventLoopTimer ---------------------------
(***************************************************************************)
(* The timers and the tick of FuriEventLoop (furi/core/event_loop_timer.c  *)
(* and furi/core/event_loop_tick.c).  The tick count wraps around; Modulus *)
(* stands for 2^32.  All timer functions are called in the loop's thread;  *)
(* a start, stop, restart or free only queues a request, which the loop    *)
(* processes before it sleeps again.                                       *)
(***************************************************************************)
EXTENDS Integers, Sequences, FiniteSets

CONSTANTS
    Timers,         \* addresses a FuriEventLoopTimer can be allocated at
    Modulus,        \* number of values of the tick count
    Intervals,      \* intervals that clients ask for
    TickInterval,   \* instance->tick.interval; 0 when no callback is set
    MaxLate         \* bound: ticks the loop's thread can be held up for

ASSUME ModulusAssumption == Modulus \in Nat \ {0}
ASSUME MaxLateAssumption == MaxLate \in Nat
ASSUME IntervalsAssumption ==
    /\ Intervals \subseteq Nat
    /\ TickInterval \in Nat
    /\ \A n \in Intervals \cup {TickInterval} : n + MaxLate < Modulus

VARIABLES
    now,            \* xTaskGetTickCount()
    timer,          \* the timers
    timer_list,     \* instance->timer_list, the next to expire first
    timer_queue,    \* instance->timer_queue
    notified,       \* FuriEventLoopFlagTimer
    prev_time,      \* instance->tick.prev_time
    sleep,          \* ticks until the current wait times out
    pc,             \* where the loop thread is
    due             \* history: ticks until an active timer is really due

vars == <<now, timer, timer_list, timer_queue, notified, prev_time, sleep, pc, due>>

Forever == Modulus      \* FuriWaitForever, longer than any wait
Times == 0..(Modulus - 1)
Requests == {"None", "Start", "Stop", "Free"}
TimerRecords ==
    [allocated : BOOLEAN, periodic : BOOLEAN, active : BOOLEAN, request : Requests,
     interval : Intervals \cup {0}, next_interval : Intervals \cup {0},
     start_time : Times]
Freed == [allocated |-> FALSE, periodic |-> FALSE, active |-> FALSE,
          request |-> "None", interval |-> 0, next_interval |-> 0, start_time |-> 0]

ClientPCs == {"stopped", "callback"}

TypeOK ==
    /\ now \in Times /\ prev_time \in Times
    /\ timer \in [Timers -> TimerRecords]
    /\ timer_list \in Seq(Timers) /\ timer_queue \in Seq(Timers)
    /\ notified \in BOOLEAN
    /\ sleep \in 0..Forever
    /\ pc \in ClientPCs \cup {"top", "wait", "queue", "expired"}
    /\ due \in [Timers -> (-MaxLate)..(Modulus - 1)]

-----------------------------------------------------------------------------
Minimum(a, b) == IF a <= b THEN a ELSE b
Biggest(S) == CHOOSE n \in S : \A k \in S : k <= n

InSeq(s, t) == \E k \in DOMAIN s : s[k] = t

Unlinked(s, t) ==
    LET at == CHOOSE k \in DOMAIN s : s[k] = t
    IN  IF InSeq(s, t)
        THEN [k \in 1..(Len(s) - 1) |-> IF k < at THEN s[k] ELSE s[k + 1]]
        ELSE s

(* furi_event_loop_timer_get_elapsed_time: an unsigned subtraction.         *)
Elapsed_signed(start) == now - start

Elapsed(start) == (now - start) % Modulus

Remaining(start, interval) ==
    IF Elapsed(start) < interval THEN interval - Elapsed(start) ELSE 0

Expired(start, interval) == Elapsed(start) >= interval

RemainingOf(r) == Remaining(r.start_time, r.interval)
ExpiredTimer(t) == Expired(timer[t].start_time, timer[t].interval)

Scheduled_back(list, t, r) == Append(list, t)

Scheduled_before(list, t, r) ==
    LET at == Biggest({0} \cup {k \in DOMAIN list :
                                  RemainingOf(timer[list[k]]) < RemainingOf(r)})
    IN  SubSeq(list, 1, at) \o <<t>> \o SubSeq(list, at + 1, Len(list))

(* furi_event_loop_schedule_timer: t, whose state is r, goes behind the     *)
(* last timer that has no more time left than t.                            *)
Scheduled(list, t, r) ==
    LET at == Biggest({0} \cup {k \in DOMAIN list :
                                  RemainingOf(timer[list[k]]) <= RemainingOf(r)})
    IN  SubSeq(list, 1, at) \o <<t>> \o SubSeq(list, at + 1, Len(list))

-----------------------------------------------------------------------------
(* Time passes.  The thread is not held up for more than MaxLate ticks once *)
(* a timer is due; a timer of interval 0 is always due and sets no bound.   *)
(* Stopping the loop and running it again is EventLoop's subject.           *)

Aged(n) == IF n = Forever \/ n = 0 THEN n ELSE n - 1

tick_count_increment ==
    /\ pc # "stopped"
    /\ \A t \in Timers : timer[t].active /\ timer[t].interval > 0 => due[t] > -MaxLate
    /\ TickInterval > 0 => Elapsed(prev_time) < TickInterval + MaxLate
    /\ now' = (now + 1) % Modulus
    /\ due' = [t \in Timers |-> IF timer[t].active /\ due[t] > -MaxLate
                               THEN due[t] - 1 ELSE due[t]]
    /\ sleep' = IF pc = "wait" THEN Aged(sleep) ELSE sleep
    /\ UNCHANGED <<timer, timer_list, timer_queue, notified, prev_time, pc>>

-----------------------------------------------------------------------------
(* The loop                                                                *)

furi_event_loop_run ==
    /\ pc = "stopped" /\ \A t \in Timers : ~timer[t].active
    /\ pc' = "top"
    /\ prev_time' = IF TickInterval > 0 THEN now ELSE prev_time
    /\ UNCHANGED <<now, timer, timer_list, timer_queue, notified, sleep, due>>

(* furi_event_loop_get_timer_wait_time and furi_event_loop_get_tick_wait_time. *)
TimerWaitTime == IF timer_list = <<>> THEN Forever
                 ELSE RemainingOf(timer[Head(timer_list)])
TickWaitTime == IF TickInterval = 0 THEN Forever ELSE Remaining(prev_time, TickInterval)

SleepTime_tick == TickWaitTime

SleepTime == Minimum(TimerWaitTime, TickWaitTime)

begin_wait ==
    /\ pc = "top"
    /\ sleep' = SleepTime
    /\ pc' = "wait"
    /\ UNCHANGED <<now, timer, timer_list, timer_queue, notified, prev_time, due>>

(* Another branch of the loop runs a callback of the client.               *)
wait_event ==
    /\ pc = "wait"
    /\ pc' = "callback"
    /\ sleep' = 0
    /\ UNCHANGED <<now, timer, timer_list, timer_queue, notified, prev_time, due>>

wait_timer ==
    /\ pc = "wait" /\ notified
    /\ notified' = FALSE
    /\ pc' = "queue"
    /\ sleep' = 0
    /\ UNCHANGED <<now, timer, timer_list, timer_queue, prev_time, due>>

(* A turn of furi_event_loop_process_timer_queue.                          *)
Started(t) == [timer[t] EXCEPT !.active = TRUE, !.interval = timer[t].next_interval,
                               !.start_time = now, !.request = "None",
                               !.next_interval = 0]

(* A stopped timer keeps its interval, for a restart.  Values that no code  *)
(* reads again (start_time of a stopped timer, next_interval outside a      *)
(* start request) are set to 0.                                             *)
Inactive(t) == [timer[t] EXCEPT !.active = FALSE, !.start_time = 0]

(* The active list without the timer whose request is processed.           *)
Processed(t) == IF timer[t].active THEN Unlinked(timer_list, t) ELSE timer_list

process_timer_queue ==
    /\ pc = "queue" /\ timer_queue # <<>>
    /\ LET t == Head(timer_queue)
       IN  /\ timer_queue' = Tail(timer_queue)
           /\ \/ /\ timer[t].request = "Start"
                 /\ timer' = [timer EXCEPT ![t] = Started(t)]
                 /\ timer_list' = Scheduled(Processed(t), t, Started(t))
                 /\ due' = [due EXCEPT ![t] = timer[t].next_interval]
              \/ /\ timer[t].request = "Stop"
                 /\ timer' = [timer EXCEPT ![t] = [Inactive(t) EXCEPT !.request = "None"]]
                 /\ timer_list' = Processed(t)
                 /\ due' = [due EXCEPT ![t] = 0]
              \/ /\ timer[t].request = "Free"
                 /\ timer' = [timer EXCEPT ![t] = Freed]
                 /\ timer_list' = Processed(t)
                 /\ due' = [due EXCEPT ![t] = 0]
    /\ UNCHANGED <<now, notified, prev_time, sleep, pc>>

process_timer_queue_done ==
    /\ pc = "queue" /\ timer_queue = <<>>
    /\ pc' = "top"
    /\ UNCHANGED <<now, timer, timer_list, timer_queue, notified, prev_time,
                   sleep, due>>

TimedOut == pc = "wait" /\ ~notified /\ sleep = 0

wait_timeout ==
    /\ TimedOut
    /\ pc' = "expired"
    /\ UNCHANGED <<now, timer, timer_list, timer_queue, notified, prev_time,
                   sleep, due>>

(* A division by zero yields 0 on this core, which does not trap it.        *)
Quotient(a, b) == IF b = 0 THEN 0 ELSE a \div b

(* Where a periodic timer is set to after it expired: as many intervals on  *)
(* as have passed, so that it keeps its phase.                              *)
NextStart(r) ==
    (r.start_time + r.interval * Quotient(Elapsed(r.start_time), r.interval)) % Modulus

HeadExpired_any == timer_list # <<>>

HeadExpired == timer_list # <<>> /\ ExpiredTimer(Head(timer_list))

process_expired_timers ==
    /\ pc = "expired" /\ HeadExpired
    /\ LET t == Head(timer_list)
           next == [timer[t] EXCEPT !.start_time = NextStart(timer[t])]
       IN  IF timer[t].periodic
           THEN /\ timer' = [timer EXCEPT ![t] = next]
                /\ timer_list' = Scheduled(Tail(timer_list), t, next)
                /\ due' = [due EXCEPT ![t] =
                      @ + timer[t].interval * Quotient(timer[t].interval - @, timer[t].interval)]
           ELSE /\ timer' = [timer EXCEPT ![t] = Inactive(t)]
                /\ timer_list' = Tail(timer_list)
                /\ due' = [due EXCEPT ![t] = 0]
    /\ pc' = "callback"
    /\ UNCHANGED <<now, timer_queue, notified, prev_time, sleep>>

TickExpired == TickInterval > 0 /\ Expired(prev_time, TickInterval)

process_tick ==
    /\ pc = "expired" /\ ~HeadExpired
    /\ IF TickExpired
       THEN prev_time' = (prev_time + TickInterval) % Modulus /\ pc' = "callback"
       ELSE pc' = "top" /\ UNCHANGED prev_time
    /\ UNCHANGED <<now, timer, timer_list, timer_queue, notified, sleep, due>>

callback_return ==
    /\ pc = "callback"
    /\ pc' = "top"
    /\ UNCHANGED <<now, timer, timer_list, timer_queue, notified, prev_time,
                   sleep, due>>

-----------------------------------------------------------------------------
(* The public timer functions, from client code                            *)

furi_event_loop_timer_alloc(t, periodic) ==
    /\ pc \in ClientPCs
    /\ ~timer[t].allocated
    /\ timer' = [timer EXCEPT ![t] = [Freed EXCEPT !.allocated = TRUE, !.periodic = periodic]]
    /\ UNCHANGED <<now, timer_list, timer_queue, notified, prev_time, sleep, pc, due>>

(* A newer request takes the place of one that has not been processed.     *)
Queued(t) == Append(Unlinked(timer_queue, t), t)

(* furi_event_loop_timer_enqueue_request.                                  *)
EnqueueRequest(t, request, next_interval) ==
    /\ pc \in ClientPCs
    /\ timer[t].allocated
    /\ timer[t].request # "Free"
    /\ timer' = [timer EXCEPT ![t].request = request, ![t].next_interval = next_interval]
    /\ timer_queue' = Queued(t)
    /\ notified' = TRUE
    /\ UNCHANGED <<now, timer_list, prev_time, sleep, pc, due>>

furi_event_loop_timer_start(t, interval) == EnqueueRequest(t, "Start", interval)
furi_event_loop_timer_restart(t) == EnqueueRequest(t, "Start", timer[t].interval)
furi_event_loop_timer_stop(t) == EnqueueRequest(t, "Stop", 0)
furi_event_loop_timer_free(t) == EnqueueRequest(t, "Free", 0)

-----------------------------------------------------------------------------
Init ==
    /\ now \in Times
    /\ timer = [t \in Timers |-> Freed]
    /\ timer_list = <<>> /\ timer_queue = <<>>
    /\ notified = FALSE
    /\ prev_time = 0
    /\ sleep = 0
    /\ pc = "stopped"
    /\ due = [t \in Timers |-> 0]

LoopStep ==
    \/ begin_wait
    \/ wait_timer
    \/ process_timer_queue
    \/ process_timer_queue_done
    \/ wait_timeout
    \/ process_expired_timers
    \/ process_tick

ClientStep ==
    \E t \in Timers :
        \/ \E periodic \in BOOLEAN : furi_event_loop_timer_alloc(t, periodic)
        \/ \E interval \in Intervals : furi_event_loop_timer_start(t, interval)
        \/ furi_event_loop_timer_restart(t)
        \/ furi_event_loop_timer_stop(t)
        \/ furi_event_loop_timer_free(t)

Next ==
    \/ furi_event_loop_run
    \/ tick_count_increment
    \/ LoopStep
    \/ wait_event
    \/ callback_return
    \/ ClientStep

Spec == Init /\ [][Next]_vars

(* The loop's thread is scheduled, callbacks return and time passes.       *)
FairSpec ==
    /\ Spec
    /\ WF_vars(LoopStep) /\ WF_vars(callback_return) /\ WF_vars(tick_count_increment)

-----------------------------------------------------------------------------
(* Properties                                                              *)

(* The list that decides how long the loop sleeps holds each running timer  *)
(* exactly once and no other, the queue each timer with a request; a freed  *)
(* timer is in neither.                                                     *)
TimersAccounted ==
    /\ \A t \in Timers :
        /\ InSeq(timer_list, t) <=> timer[t].active
        /\ InSeq(timer_queue, t) <=> timer[t].request # "None"
    /\ \A j, k \in DOMAIN timer_list : timer_list[j] = timer_list[k] => j = k
    /\ \A j, k \in DOMAIN timer_queue : timer_queue[j] = timer_queue[k] => j = k

(* "TimerList_front() points to the first timer to expire", through ticks,  *)
(* wrap-around, restarts and late expiries: the list is sorted by the time  *)
(* each timer really has left.                                              *)
ExpiryOrder ==
    \A j, k \in DOMAIN timer_list :
        j < k => \/ due[timer_list[j]] <= due[timer_list[k]]
                 \/ due[timer_list[j]] <= 0

(* The 32-bit arithmetic agrees with real time: a running timer has as much *)
(* left as an unbounded clock would say, also when the count wraps.         *)
WrapSafe ==
    \A t \in Timers : timer[t].active =>
        RemainingOf(timer[t]) = (IF due[t] > 0 THEN due[t] ELSE 0)

(* The loop does not sleep past the expiry of a timer, nor over a request.  *)
NoOversleep ==
    pc = "wait" =>
        /\ \A t \in Timers : timer[t].active =>
              sleep <= (IF due[t] > 0 THEN due[t] ELSE 0) \/ notified
        /\ timer_queue # <<>> => notified

(* No timer fires early, and none fires that its client has asked to stop   *)
(* or to free, or whose restart has not been processed.                     *)
NeverEarlyNorStopped ==
    [][process_expired_timers =>
          due[Head(timer_list)] <= 0 /\ timer[Head(timer_list)].request = "None"]_vars

(* Unless other events keep the loop busy for ever, a timer that is due     *)
(* fires, however many others are due with it, or is stopped.               *)
DueTimersFire ==
    <>[][~wait_event]_vars =>
        \A t \in Timers :
            (timer[t].active /\ timer[t].interval > 0 /\ due[t] <= 0)
                ~> (~timer[t].active \/ due[t] > 0 \/ timer[t].request # "None")
=============================================================================
