------------------------------ MODULE Threads -------------------------------
(***************************************************************************)
(* The life of a FuriThread (thread.c): its owner allocates and starts it, *)
(* it runs, it returns and puts itself into a queue, and the init thread   *)
(* takes it from there, deletes the task, marks the thread stopped and     *)
(* calls its state callback.  The owner waits for the mark by polling and  *)
(* frees the memory.                                                       *)
(*                                                                         *)
(* The module that uses this one owns the threads: it says who starts and  *)
(* frees them, and completes a state callback with Delivered.              *)
(***************************************************************************)
EXTENDS Naturals, Sequences

CONSTANTS
    Threads,        \* the threads, each with memory of its own
    Watched,        \* the threads that have a state callback
    ScrubSize,      \* capacity of furi_thread_scrub_message_queue
    NoThread

ASSUME ThreadsAssumption ==
    /\ Watched \subseteq Threads /\ NoThread \notin Threads
    /\ ScrubSize \in Nat \ {0}

VARIABLES
    thread,         \* FuriThread.state, None while the memory is not allocated
    scrub_queue,    \* furi_thread_scrub_message_queue
    scrubber        \* the init thread, in furi_thread_scrub

threadVars == <<thread, scrub_queue, scrubber>>

ThreadStates == {"None", "Stopped", "Starting", "Running", "Stopping"}

(* What the init thread does next, and to which thread: get one from the   *)
(* queue, mark it stopped, read its state callback, be in that callback.   *)
Scrubbing == [at : {"mark", "read", "callback"}, of : Threads]
ScrubberIdle == [at |-> "get", of |-> NoThread]

ThreadsTypeOK ==
    /\ thread \in [Threads -> ThreadStates]
    /\ scrub_queue \in Seq(Threads) /\ Len(scrub_queue) <= ScrubSize
    /\ scrubber \in Scrubbing \cup {ScrubberIdle}

ThreadsInit ==
    /\ thread = [t \in Threads |-> "None"]
    /\ scrub_queue = <<>>
    /\ scrubber = ScrubberIdle

Allocated(t) == thread[t] # "None"

(* furi_thread_alloc_ex and furi_thread_start, by the owner.               *)
StartThread(t) ==
    /\ ~Allocated(t)
    /\ thread' = [thread EXCEPT ![t] = "Starting"]
    /\ UNCHANGED <<scrub_queue, scrubber>>

furi_thread_body(t) ==
    /\ thread[t] = "Starting"
    /\ thread' = [thread EXCEPT ![t] = "Running"]
    /\ UNCHANGED <<scrub_queue, scrubber>>

(* The thread's function has returned; the put waits for room.             *)
furi_thread_body_returns(t) ==
    /\ thread[t] = "Running" /\ Len(scrub_queue) < ScrubSize
    /\ thread' = [thread EXCEPT ![t] = "Stopping"]
    /\ scrub_queue' = Append(scrub_queue, t)
    /\ UNCHANGED scrubber

scrub_get ==
    /\ scrubber = ScrubberIdle /\ scrub_queue # <<>>
    /\ scrubber' = [at |-> "mark", of |-> Head(scrub_queue)]
    /\ scrub_queue' = Tail(scrub_queue)
    /\ UNCHANGED thread

(* furi_thread_set_state writes the state, then reads the callback: these  *)
(* are two steps, the init thread having the lowest priority of all.       *)
scrub_mark ==
    /\ scrubber.at = "mark"
    /\ thread' = [thread EXCEPT ![scrubber.of] = "Stopped"]
    /\ scrubber' = [scrubber EXCEPT !.at = "read"]
    /\ UNCHANGED scrub_queue

(* Freed memory is zeroed (memmgr_heap.c) and reads as no callback.        *)
scrub_read ==
    /\ scrubber.at = "read"
    /\ scrubber' = IF scrubber.of \in Watched /\ Allocated(scrubber.of)
                   THEN [scrubber EXCEPT !.at = "callback"]
                   ELSE ScrubberIdle
    /\ UNCHANGED <<thread, scrub_queue>>

InCallback_early(t) == scrubber = [at |-> "mark", of |-> t]

InCallback(t) == scrubber = [at |-> "callback", of |-> t]

Delivered == scrubber' = ScrubberIdle /\ UNCHANGED <<thread, scrub_queue>>

Joinable(t) == thread[t] = "Stopped"

(* furi_thread_join and furi_thread_free, by the owner.                    *)
JoinAndFree(t) ==
    /\ Joinable(t)
    /\ thread' = [thread EXCEPT ![t] = "None"]
    /\ UNCHANGED <<scrub_queue, scrubber>>

ScrubStep == scrub_get \/ scrub_mark \/ scrub_read
=============================================================================
