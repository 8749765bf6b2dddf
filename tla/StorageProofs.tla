--------------------------- MODULE StorageProofs ----------------------------
(* Proofs about Storage: for any clients, paths and addresses it keeps one  *)
(* holder per path, and its list and its clients agree, but for those whom   *)
(* the close of a stale File has robbed.                                   *)
EXTENDS Storage, TLAPS

USE DEF cardVars, fileVars, callVars, Opens, Closes, CardCommands

-----------------------------------------------------------------------------
(* The type invariant, the queue apart.                                    *)
QueueOK == message_queue \in Seq(Clients) /\ Len(message_queue) <= QueueSize

CardOK ==
    /\ status \in Statuses
    /\ sd_was_present \in BOOLEAN /\ present \in BOOLEAN
    /\ mounting \in {"none", "tick", "command"}

FilesOK ==
    /\ files \in [Nodes -> FileRecords]
    /\ file_id \in [Clients -> Nodes \cup {NoNode}]
    /\ held \in [Clients -> Paths \cup {NoPath}]
    /\ robbed \subseteq Clients

CallsOK ==
    /\ request \in [Clients -> Requests \cup {NoRequest}]
    /\ pc \in [Clients -> {"ready", "put", "reply", "return", "wait"}]
    /\ event \in [Clients -> {"none", "clear", "set"}]
    /\ type \in [Clients -> {"None", "Closed", "OpenFile", "OpenDir"}]

LEMMA TypeParts == TypeOK <=> QueueOK /\ CardOK /\ FilesOK /\ CallsOK
BY DEF TypeOK, QueueOK, CardOK, FilesOK, CallsOK

LEMMA InitType == Init => TypeOK
<1> SUFFICES ASSUME Init PROVE TypeOK
  OBVIOUS
<1>1. QueueOK
  BY QueueAssumption DEF Init, QueueOK
<1>2. CardOK
  BY DEF Init, CardOK, Statuses
<1>3. FilesOK
  BY DEF Init, FilesOK, FileRecords
<1>4. CallsOK
  BY DEF Init, CallsOK
<1> QED
  BY <1>1, <1>2, <1>3, <1>4, TypeParts

(* What a step may do to the queue: nothing, let a client in that stands    *)
(* before it, or answer its first.                                          *)
QueueKept ==
    /\ message_queue' = message_queue
    /\ \A c \in Clients : pc[c] = "reply" => pc'[c] = "reply"

QueuePut ==
    \E c \in Clients :
        /\ pc[c] = "put" /\ Len(message_queue) < QueueSize
        /\ message_queue' = Append(message_queue, c)
        /\ pc' = [pc EXCEPT ![c] = "reply"]

QueueServed ==
    /\ message_queue # <<>> /\ message_queue' = Tail(message_queue)
    /\ \E x \in {"ready", "return", "wait"} : pc' = [pc EXCEPT ![Head(message_queue)] = x]

QueueStep == QueueKept \/ QueuePut \/ QueueServed

LEMMA HeadIsClient == QueueOK /\ message_queue # <<>> => Head(message_queue) \in Clients
BY DEF QueueOK

LEMMA QueueOKNext == QueueOK /\ QueueStep => QueueOK'
<1> SUFFICES ASSUME QueueOK, QueueStep PROVE QueueOK'
  OBVIOUS
<1> USE QueueAssumption DEF QueueOK
<1>1. CASE QueueKept
  BY <1>1 DEF QueueKept
<1>2. CASE QueuePut
  BY <1>2 DEF QueuePut
<1>3. CASE QueueServed
  BY <1>3 DEF QueueServed
<1> QED
  BY <1>1, <1>2, <1>3 DEF QueueStep

(* A mount that a command asked for has its request at the head.           *)
MountInv ==
    mounting = "command" =>
        /\ message_queue # <<>> /\ request[Head(message_queue)].command = "SDMount"
        /\ status = "NotReady"

LEMMA QueueSteps == TypeOK /\ MountInv /\ [Next]_vars => QueueStep
<1> SUFFICES ASSUME TypeOK, MountInv, [Next]_vars PROVE QueueStep
  OBVIOUS
<1> USE DEF QueueStep
<1>1. ASSUME NEW c \in Clients, Process(c) PROVE QueueStep
  <2> USE DEF Serves, QueueServed, QueueKept
  <2>1. CASE storage_process_open(c) \/ storage_process_open_refused(c)
    BY <2>1 DEF storage_process_open, storage_process_open_refused, AnswerOpen
  <2>2. CASE storage_process_close(c) \/ storage_process_close_unknown(c)
    BY <2>2 DEF storage_process_close, storage_process_close_unknown, AnswerClose, Answer
  <2>3. CASE storage_process_common_remove(c) \/ storage_process_sd_format(c)
    BY <2>3 DEF storage_process_common_remove, storage_process_sd_format, Answer
  <2>4. CASE storage_process_sd_unmount(c) \/ storage_process_sd_mount_refused(c)
    BY <2>4 DEF storage_process_sd_unmount, storage_process_sd_mount_refused, Answer
  <2>5. CASE storage_process_sd_mount(c)
    BY <2>5 DEF storage_process_sd_mount
  <2>6. CASE sd_mount_command_done(c)
    BY <2>6 DEF sd_mount_command_done, Answer, MountInv
  <2> QED
    BY <1>1, <2>1, <2>2, <2>3, <2>4, <2>5, <2>6 DEF Process
<1>2. CASE Tick \/ card_moved
  BY <1>2 DEF Tick, card_moved, tick_card_detected, tick_mount_done, tick_card_removed,
              tick_removed_while_mounting, Unmounted, QueueKept
<1>3. ASSUME NEW c \in Clients, Start(c) PROVE QueueStep
  BY <1>3 DEF Start, storage_file_alloc, storage_file_free, storage_file_open, storage_file_close,
              storage_common_remove, storage_sd_command, Call, QueueKept, TypeOK
<1>4. ASSUME NEW c \in Clients, furi_message_queue_put(c) PROVE QueueStep
  BY <1>4 DEF furi_message_queue_put, HasRoom, QueuePut
<1>5. ASSUME NEW c \in Clients, Return(c) PROVE QueueStep
  BY <1>5 DEF Return, open_waited, open_returns, QueueKept, TypeOK
<1>6. CASE UNCHANGED vars
  BY <1>6 DEF vars, QueueKept
<1> QED
  BY <1>1, <1>2, <1>3, <1>4, <1>5, <1>6 DEF Next, ServiceStep

LEMMA CardOKNext == CardOK /\ [Next]_vars => CardOK'
<1> SUFFICES ASSUME CardOK, [Next]_vars PROVE CardOK'
  OBVIOUS
<1> USE DEF CardOK, Statuses
<1>1. ASSUME NEW c \in Clients, Process(c) PROVE CardOK'
  BY <1>1 DEF Process, storage_process_open, storage_process_open_refused, storage_process_close,
     storage_process_close_unknown, storage_process_common_remove, storage_process_sd_format,
     storage_process_sd_unmount, storage_process_sd_mount, storage_process_sd_mount_refused,
     sd_mount_command_done, Mounts
<1>2. CASE Tick \/ card_moved
  BY <1>2 DEF Tick, card_moved, tick_card_detected, tick_mount_done, tick_card_removed,
              tick_removed_while_mounting, Unmounted, Mounts
<1>3. ASSUME NEW c \in Clients, Start(c) \/ furi_message_queue_put(c) \/ Return(c) PROVE CardOK'
  BY <1>3 DEF Start, storage_file_alloc, storage_file_free, storage_file_open, storage_file_close,
              storage_common_remove, storage_sd_command, furi_message_queue_put, Return,
              open_waited, open_returns
<1>4. CASE UNCHANGED vars
  BY <1>4 DEF vars
<1> QED
  BY <1>1, <1>2, <1>3, <1>4 DEF Next, ServiceStep

(* What a listed entry looks like.                                         *)
LEMMA ListedEntry ==
    ASSUME NamesAssumption, FilesOK, NEW n \in Listed
    PROVE  /\ n \in Nodes
           /\ files[n] \in [file : Clients, path : Paths, valid : BOOLEAN]
BY DEF Listed, FilesOK, FileRecords, NoFile

LEMMA InvalidRecord == ASSUME NEW r \in FileRecords PROVE Invalid(r) \in FileRecords
<1>1. CASE r = NoFile
  BY <1>1 DEF NoFile, FileRecords, Invalid
<1>2. CASE r \in [file : Clients, path : Paths, valid : BOOLEAN]
  BY <1>2 DEF FileRecords, Invalid
<1> QED
  BY <1>1, <1>2 DEF FileRecords

LEMMA InvalidatedOK ==
    FilesOK => Invalidated \in [Nodes -> FileRecords]
<1> SUFFICES ASSUME FilesOK, NEW n \in Nodes PROVE Invalid(files[n]) \in FileRecords
  BY DEF Invalidated
<1> QED
  BY InvalidRecord DEF FilesOK

LEMMA RemovedOK ==
    ASSUME FilesOK, NEW p PROVE Removed(p) \in [Nodes -> FileRecords]
<1> SUFFICES ASSUME NEW n \in Nodes
             PROVE  /\ files[n] \in FileRecords
                    /\ Invalid(files[n]) \in FileRecords
  BY DEF Removed
<1> QED
  BY InvalidRecord DEF FilesOK

(* An open that is granted is for a path on the card.                      *)
LEMMA GrantedPath ==
    ASSUME CallsOK, NEW c \in Clients, Serves(c, Opens), AccessError(request[c].path) = "OK"
    PROVE  request[c].path \in Paths /\ status = "OK" /\ ~storage_path_already_open(request[c].path)
BY DEF CallsOK, Serves, Requests, NoRequest, AccessError, PathError

LEMMA FilesOKNext == TypeOK /\ [Next]_vars => FilesOK'
<1> SUFFICES ASSUME TypeOK, [Next]_vars PROVE FilesOK'
  OBVIOUS
<1>0. FilesOK /\ CallsOK
  BY TypeParts
<1> USE <1>0 DEF FilesOK
<1>1. ASSUME NEW c \in Clients, Process(c) PROVE FilesOK'
  <2>1. CASE storage_process_open(c)
    <3>1. request[c].path \in Paths
      BY <2>1, GrantedPath DEF storage_process_open
    <3>2. PICK n \in Nodes, ok \in BOOLEAN :
             /\ files' = [files EXCEPT ![n] = [file |-> c, path |-> request[c].path, valid |-> ok]]
             /\ file_id' = [file_id EXCEPT ![c] = n]
      BY <2>1 DEF storage_process_open
    <3>3. files' \in [Nodes -> FileRecords]
      BY <3>1, <3>2 DEF FileRecords
    <3> QED
      BY <2>1, <3>1, <3>2, <3>3 DEF storage_process_open
  <2>2. CASE storage_process_close(c)
    <3>1. PICK n \in Nodes :
             /\ files[n].file # NoClient /\ files' = [files EXCEPT ![n] = NoFile]
             /\ robbed' = (robbed \cup {files[n].file}) \ {c}
      BY <2>2 DEF storage_process_close, Popped, Found, Listed
    <3>2. files[n].file \in Clients
      BY <3>1, ListedEntry, NamesAssumption DEF Listed
    <3>3. held' = [held EXCEPT ![c] = NoPath] /\ file_id' = file_id
      BY <2>2 DEF storage_process_close, AnswerClose
    <3> QED
      BY <3>1, <3>2, <3>3 DEF FileRecords
  <2>3. CASE storage_process_close_unknown(c)
    BY <2>3 DEF storage_process_close_unknown, AnswerClose
  <2>4. CASE storage_process_common_remove(c)
    BY <2>4, RemovedOK DEF storage_process_common_remove
  <2>5. CASE storage_process_sd_format(c) \/ storage_process_sd_unmount(c)
    BY <2>5, InvalidatedOK DEF storage_process_sd_format, storage_process_sd_unmount
  <2>6. CASE sd_mount_command_done(c)
    BY <2>6, InvalidatedOK DEF sd_mount_command_done, Mounts
  <2>7. CASE storage_process_open_refused(c) \/ storage_process_sd_mount(c)
               \/ storage_process_sd_mount_refused(c)
    BY <2>7 DEF storage_process_open_refused, storage_process_sd_mount,
                storage_process_sd_mount_refused
  <2> QED
    BY <1>1, <2>1, <2>2, <2>3, <2>4, <2>5, <2>6, <2>7 DEF Process
<1>2. CASE Tick \/ card_moved
  BY <1>2, InvalidatedOK DEF Tick, card_moved, tick_card_detected, tick_mount_done, Mounts,
              tick_card_removed, tick_removed_while_mounting, Unmounted
<1>3. ASSUME NEW c \in Clients, Start(c) \/ furi_message_queue_put(c) \/ Return(c) PROVE FilesOK'
  BY <1>3 DEF Start, storage_file_alloc, storage_file_free, storage_file_open, storage_file_close,
              storage_common_remove, storage_sd_command, furi_message_queue_put, Return,
              open_waited, open_returns
<1>4. CASE UNCHANGED vars
  BY <1>4 DEF vars
<1> QED
  BY <1>1, <1>2, <1>3, <1>4 DEF Next, ServiceStep

LEMMA CallsOKNext == TypeOK /\ MountInv /\ [Next]_vars => CallsOK'
<1> SUFFICES ASSUME TypeOK, MountInv, [Next]_vars PROVE CallsOK'
  OBVIOUS
<1>0. CallsOK
  BY TypeParts
<1> USE <1>0 DEF CallsOK
<1>1. ASSUME NEW c \in Clients, Process(c) PROVE CallsOK'
  <2>1. CASE storage_process_open(c) \/ storage_process_open_refused(c)
    BY <2>1 DEF storage_process_open, storage_process_open_refused, AnswerOpen
  <2>2. CASE storage_process_close(c) \/ storage_process_close_unknown(c)
    BY <2>2 DEF storage_process_close, storage_process_close_unknown, AnswerClose, Answer,
                Published
  <2>3. CASE storage_process_common_remove(c) \/ storage_process_sd_format(c)
    BY <2>3 DEF storage_process_common_remove, storage_process_sd_format, Answer
  <2>4. CASE storage_process_sd_unmount(c) \/ storage_process_sd_mount_refused(c)
    BY <2>4 DEF storage_process_sd_unmount, storage_process_sd_mount_refused, Answer
  <2>5. CASE storage_process_sd_mount(c)
    BY <2>5 DEF storage_process_sd_mount
  <2>6. CASE sd_mount_command_done(c)
    BY <2>6 DEF sd_mount_command_done, Answer
  <2> QED
    BY <1>1, <2>1, <2>2, <2>3, <2>4, <2>5, <2>6 DEF Process
<1>2. CASE Tick \/ card_moved
  BY <1>2 DEF Tick, card_moved, tick_card_detected, tick_mount_done, tick_card_removed,
              tick_removed_while_mounting, Unmounted
<1>3. ASSUME NEW c \in Clients, Start(c) PROVE CallsOK'
  <2>1. CASE storage_file_alloc(c) \/ storage_file_free(c)
    BY <2>1 DEF storage_file_alloc, storage_file_free
  <2>2. ASSUME NEW command \in Opens, NEW p \in Paths \cup InvalidPaths,
               storage_file_open(c, command, p)
        PROVE  CallsOK'
    <3>1. [command |-> command, path |-> p] \in Requests
      BY DEF Requests
    <3> QED
      BY <2>2, <3>1 DEF storage_file_open, Call
  <2>3. CASE storage_file_close(c)
    <3>1. \A command \in Closes : [command |-> command, path |-> NoPath] \in Requests
      BY DEF Requests
    <3> QED
      BY <2>3, <3>1 DEF storage_file_close, Call
  <2>4. ASSUME NEW p \in Paths \cup InvalidPaths, storage_common_remove(c, p) PROVE CallsOK'
    <3>1. [command |-> "Remove", path |-> p] \in Requests
      BY DEF Requests
    <3> QED
      BY <2>4, <3>1 DEF storage_common_remove, Call
  <2>5. ASSUME NEW command \in CardCommands, storage_sd_command(c, command) PROVE CallsOK'
    <3>1. [command |-> command, path |-> NoPath] \in Requests
      BY DEF Requests
    <3> QED
      BY <2>5, <3>1 DEF storage_sd_command, Call
  <2> QED
    BY <1>3, <2>1, <2>2, <2>3, <2>4, <2>5 DEF Start
<1>4. ASSUME NEW c \in Clients, furi_message_queue_put(c) \/ Return(c) PROVE CallsOK'
  BY <1>4 DEF furi_message_queue_put, Return, open_waited, open_returns
<1>5. CASE UNCHANGED vars
  BY <1>5 DEF vars
<1> QED
  BY <1>1, <1>2, <1>3, <1>4, <1>5 DEF Next, ServiceStep

-----------------------------------------------------------------------------
(* A client is in the queue once, and waits for the reply.                 *)
QueueInv ==
    /\ \A i \in 1 .. Len(message_queue) : pc[message_queue[i]] = "reply"
    /\ \A i, j \in 1 .. Len(message_queue) : message_queue[i] = message_queue[j] => i = j

LEMMA HeadReplies ==
    QueueOK /\ QueueInv /\ message_queue # <<>> => pc[Head(message_queue)] = "reply"
BY DEF QueueOK, QueueInv

LEMMA QueueInvNext == TypeOK /\ QueueInv /\ QueueStep => QueueInv'
<1> SUFFICES ASSUME TypeOK, QueueInv, QueueStep PROVE QueueInv'
  OBVIOUS
<1>0. QueueOK /\ CallsOK
  BY TypeParts
<1> USE <1>0 DEF QueueOK, QueueInv, CallsOK
<1>1. CASE QueueKept
  <2>1. \A i \in 1 .. Len(message_queue) : message_queue[i] \in Clients
    OBVIOUS
  <2> QED
    BY <1>1, <2>1 DEF QueueKept
<1>2. CASE QueuePut
  <2>1. PICK c \in Clients :
           /\ pc[c] = "put"
           /\ message_queue' = Append(message_queue, c)
           /\ pc' = [pc EXCEPT ![c] = "reply"]
    BY <1>2 DEF QueuePut
  <2>2. /\ Len(message_queue') = Len(message_queue) + 1
        /\ message_queue'[Len(message_queue) + 1] = c
        /\ \A i \in 1 .. Len(message_queue) :
              message_queue'[i] = message_queue[i] /\ message_queue[i] # c
    BY <2>1
  <2>3. \A i \in 1 .. Len(message_queue') : pc'[message_queue'[i]] = "reply"
    BY <2>1, <2>2
  <2> QED
    BY <2>2, <2>3
<1>3. CASE QueueServed
  <2>1. PICK x \in {"ready", "return", "wait"} : pc' = [pc EXCEPT ![Head(message_queue)] = x]
    BY <1>3 DEF QueueServed
  <2>2. /\ Len(message_queue') = Len(message_queue) - 1
        /\ \A i \in 1 .. Len(message_queue') :
              /\ message_queue'[i] = message_queue[i + 1]
              /\ message_queue[i + 1] \in Clients /\ message_queue[i + 1] # Head(message_queue)
    BY <1>3 DEF QueueServed
  <2>3. \A i \in 1 .. Len(message_queue') : pc'[message_queue'[i]] = "reply"
    BY <2>1, <2>2
  <2> QED
    BY <2>2, <2>3
<1> QED
  BY <1>1, <1>2, <1>3 DEF QueueStep

LEMMA MountInvNext == TypeOK /\ QueueInv /\ MountInv /\ [Next]_vars => MountInv'
<1> SUFFICES ASSUME TypeOK, QueueInv, MountInv, [Next]_vars PROVE MountInv'
  OBVIOUS
<1>0. QueueOK /\ CallsOK
  BY TypeParts
<1> USE DEF MountInv
<1>1. ASSUME NEW c \in Clients, Process(c) PROVE MountInv'
  BY <1>1 DEF Process, Serves, storage_process_open, storage_process_open_refused,
     storage_process_close, storage_process_close_unknown, storage_process_common_remove,
     storage_process_sd_format, storage_process_sd_unmount, storage_process_sd_mount,
     storage_process_sd_mount_refused, sd_mount_command_done
<1>2. CASE Tick \/ card_moved
  BY <1>2 DEF Tick, card_moved, tick_card_detected, tick_mount_done, tick_card_removed,
              tick_removed_while_mounting, Unmounted
<1>3. ASSUME NEW c \in Clients, Start(c) \/ Return(c) PROVE MountInv'
  <2>1. message_queue # <<>> => c # Head(message_queue)
    BY <1>0, <1>3, HeadReplies DEF Start, Return, storage_file_alloc, storage_file_free,
       storage_file_open, storage_file_close, storage_common_remove, storage_sd_command, Call,
       open_waited, open_returns
  <2>2. /\ UNCHANGED <<mounting, message_queue, status>>
        /\ \A d \in Clients : d # c => request'[d] = request[d]
    BY <1>0, <1>3 DEF CallsOK, Start, Return, storage_file_alloc, storage_file_free,
       storage_file_open, storage_file_close, storage_common_remove, storage_sd_command, Call,
       open_waited, open_returns
  <2> QED
    BY <1>0, <2>1, <2>2, HeadIsClient
<1>4. ASSUME NEW c \in Clients, furi_message_queue_put(c) PROVE MountInv'
  BY <1>0, <1>4 DEF furi_message_queue_put, QueueOK
<1>5. CASE UNCHANGED vars
  BY <1>5 DEF vars
<1> QED
  BY <1>1, <1>2, <1>3, <1>4, <1>5 DEF Next, ServiceStep

TypeInv == TypeOK /\ MountInv /\ QueueInv

LEMMA TypeInvInductive ==
    /\ Init => TypeInv
    /\ TypeInv /\ [Next]_vars => TypeInv'
<1>1. Init => TypeInv
  BY InitType DEF Init, TypeInv, MountInv, QueueInv
<1>2. TypeInv /\ [Next]_vars => TypeInv'
  <2> SUFFICES ASSUME TypeInv, [Next]_vars PROVE TypeInv'
    OBVIOUS
  <2>1. TypeOK /\ MountInv /\ QueueInv /\ QueueStep
    BY QueueSteps DEF TypeInv
  <2>2. QueueOK' /\ CardOK' /\ FilesOK' /\ CallsOK'
    BY <2>1, TypeParts, QueueOKNext, CardOKNext, FilesOKNext, CallsOKNext
  <2>3. TypeOK'
    BY <2>2 DEF TypeOK, QueueOK, CardOK, FilesOK, CallsOK
  <2> QED
    BY <2>1, <2>3, MountInvNext, QueueInvNext DEF TypeInv
<1> QED
  BY <1>1, <1>2

(* For any clients, paths and addresses: the requests, the list and the     *)
(* clients keep their types, the service answers only who is in its queue   *)
(* (storage_process_message_internal), and the queue keeps its capacity.    *)
THEOREM TypeCorrect == Spec => []TypeOK
<1>1. TypeInv => TypeOK
  BY DEF TypeInv
<1> QED
  BY <1>1, TypeInvInductive, PTL DEF Spec
-----------------------------------------------------------------------------
(* Without a card mounted no handle is valid.                              *)
ValidInv == status = "NotReady" => \A n \in Nodes : ~files[n].valid

LEMMA InvalidatedEntries ==
    /\ \A n \in Nodes : Invalidated[n].file = files[n].file /\ Invalidated[n].path = files[n].path
    /\ \A n \in Nodes : ~Invalidated[n].valid
BY DEF Invalidated, Invalid

LEMMA RemovedEntries ==
    ASSUME NEW p
    PROVE  \A n \in Nodes :
              /\ Removed(p)[n].file = files[n].file /\ Removed(p)[n].path = files[n].path
              /\ Removed(p)[n].valid => files[n].valid
              /\ files[n].path # p => Removed(p)[n] = files[n]
BY DEF Removed, Invalid

(* The steps that give or take an entry; all others leave the files or make *)
(* handles invalid.                                                        *)
Granted(c) ==
    \E n \in Nodes \ Listed, ok \in BOOLEAN :
        /\ status = "OK" /\ request[c].path \in Paths /\ ~storage_path_already_open(request[c].path)
        /\ files' = [files EXCEPT ![n] = [file |-> c, path |-> request[c].path, valid |-> ok]]
        /\ file_id' = [file_id EXCEPT ![c] = n]
        /\ held' = [held EXCEPT ![c] = request[c].path]
        /\ robbed' = robbed

Forgotten(c) ==
    \E n \in Found(c) :
        /\ files' = [files EXCEPT ![n] = NoFile]
        /\ robbed' = (robbed \cup {files[n].file}) \ {c}

FilesKept ==
    \A n \in Nodes : files'[n].file = files[n].file /\ files'[n].path = files[n].path

LEMMA GrantedEntry ==
    ASSUME TypeOK, NEW c \in Clients, storage_process_open(c)
    PROVE  /\ Granted(c) /\ UNCHANGED <<cardVars, request, event, type>>
           /\ pc' = [pc EXCEPT ![c] = "return"]
<1>1. CallsOK
  BY TypeParts
<1>2. status = "OK" /\ request[c].path \in Paths /\ ~storage_path_already_open(request[c].path)
  BY <1>1, GrantedPath DEF storage_process_open
<1> QED
  BY <1>2 DEF Granted, storage_process_open, AnswerOpen

LEMMA ForgottenEntry ==
    ASSUME NEW c \in Clients, storage_process_close(c)
    PROVE  /\ Forgotten(c) /\ Serves(c, Closes) /\ UNCHANGED <<cardVars, file_id>>
           /\ held' = [held EXCEPT ![c] = NoPath] /\ type' = [type EXCEPT ![c] = "Closed"]
BY DEF Forgotten, Popped, AnswerClose, storage_process_close

LEMMA FoundIsListed == ASSUME NEW c \in Clients, NEW n \in Found(c) PROVE n \in Listed /\ n \in Nodes
BY DEF Found, Listed

LEMMA ValidInvNext == TypeInv /\ ValidInv /\ [Next]_vars => ValidInv'
<1> SUFFICES ASSUME TypeInv, ValidInv, [Next]_vars PROVE ValidInv'
  OBVIOUS
<1>0. TypeOK /\ FilesOK /\ MountInv
  BY TypeParts DEF TypeInv
<1> USE DEF ValidInv
<1>1. ASSUME NEW c \in Clients, Process(c) PROVE ValidInv'
  <2>1. CASE storage_process_open(c)
    BY <1>0, <2>1, GrantedEntry DEF Granted
  <2>2. CASE storage_process_close(c)
    <3>1. PICK n \in Nodes : files' = [files EXCEPT ![n] = NoFile]
      BY <2>2, ForgottenEntry, FoundIsListed DEF Forgotten
    <3>2. status' = status /\ ~NoFile.valid
      BY <2>2, ForgottenEntry DEF NoFile
    <3> QED
      BY <1>0, <3>1, <3>2 DEF FilesOK
  <2>3. CASE storage_process_common_remove(c)
    <3>1. files' = files \/ files' = Removed(request[c].path)
      BY <2>3 DEF storage_process_common_remove
    <3> QED
      BY <2>3, <3>1, RemovedEntries DEF storage_process_common_remove
  <2>4. CASE storage_process_sd_format(c) \/ storage_process_sd_unmount(c) \/ sd_mount_command_done(c)
    BY <2>4, InvalidatedEntries
       DEF storage_process_sd_format, storage_process_sd_unmount, sd_mount_command_done, Mounts
  <2>5. CASE storage_process_open_refused(c) \/ storage_process_close_unknown(c)
               \/ storage_process_sd_mount(c) \/ storage_process_sd_mount_refused(c)
    BY <2>5 DEF storage_process_open_refused, storage_process_close_unknown,
                storage_process_sd_mount, storage_process_sd_mount_refused
  <2> QED
    BY <1>1, <2>1, <2>2, <2>3, <2>4, <2>5 DEF Process
<1>2. CASE Tick \/ card_moved
  BY <1>2, InvalidatedEntries DEF Tick, card_moved, tick_card_detected, tick_mount_done, Mounts,
              tick_card_removed, tick_removed_while_mounting, Unmounted
<1>3. ASSUME NEW c \in Clients, Start(c) \/ furi_message_queue_put(c) \/ Return(c) PROVE ValidInv'
  BY <1>3 DEF Start, storage_file_alloc, storage_file_free, storage_file_open, storage_file_close,
              storage_common_remove, storage_sd_command, furi_message_queue_put, Return,
              open_waited, open_returns
<1>4. CASE UNCHANGED vars
  BY <1>4 DEF vars
<1> QED
  BY <1>1, <1>2, <1>3, <1>4 DEF Next, ServiceStep

(* The body of HoldersUndisturbed.                                         *)
Undisturbed ==
    \A n \in Listed :
        files[n].valid /\ files'[n].file = files[n].file /\ ~files'[n].valid =>
            ~present \/ mounting = "tick" \/ request[Head(message_queue)].command = "SDFormat"

LEMMA StepsUndisturbed == TypeInv /\ ValidInv /\ [Next]_vars => Undisturbed
<1> SUFFICES ASSUME TypeInv, ValidInv, [Next]_vars PROVE Undisturbed
  OBVIOUS
<1>0. TypeOK /\ FilesOK /\ MountInv
  BY TypeParts DEF TypeInv
<1>1. \A n \in Listed : n \in Nodes
  BY DEF Listed
<1> USE DEF Undisturbed
<1>2. ASSUME NEW c \in Clients, Process(c) PROVE Undisturbed
  <2>1. CASE storage_process_open(c)
    BY <1>0, <1>1, <2>1, GrantedEntry DEF Granted, FilesOK
  <2>2. CASE storage_process_close(c)
    <3>1. PICK n \in Listed : files' = [files EXCEPT ![n] = NoFile]
      BY <2>2, ForgottenEntry, FoundIsListed DEF Forgotten
    <3>2. files'[n].file # files[n].file
      BY <1>0, <1>1, <3>1 DEF FilesOK, Listed, NoFile
    <3> QED
      BY <1>0, <1>1, <3>1, <3>2 DEF FilesOK
  <2>3. CASE storage_process_common_remove(c)
    <3>1. CASE files' = files
      BY <3>1
    <3>2. CASE AccessError(request[c].path) = "OK" /\ files' = Removed(request[c].path)
      <4>1. \A n \in Listed : files[n].path # request[c].path
        BY <3>2 DEF AccessError, storage_path_already_open
      <4> QED
        BY <1>1, <3>2, <4>1, RemovedEntries
    <3> QED
      BY <2>3, <3>1, <3>2 DEF storage_process_common_remove
  <2>4. CASE storage_process_sd_format(c)
    BY <2>4 DEF storage_process_sd_format, Serves
  <2>5. CASE storage_process_sd_unmount(c)
    BY <2>5 DEF storage_process_sd_unmount, UnmountError
  <2>6. CASE sd_mount_command_done(c)
    BY <1>0, <1>1, <2>6 DEF sd_mount_command_done, MountInv, ValidInv
  <2>7. CASE storage_process_open_refused(c) \/ storage_process_close_unknown(c)
               \/ storage_process_sd_mount(c) \/ storage_process_sd_mount_refused(c)
    BY <2>7 DEF storage_process_open_refused, storage_process_close_unknown,
                storage_process_sd_mount, storage_process_sd_mount_refused
  <2> QED
    BY <1>2, <2>1, <2>2, <2>3, <2>4, <2>5, <2>6, <2>7 DEF Process
<1>3. CASE Tick \/ card_moved
  BY <1>3 DEF Tick, card_moved, tick_card_detected, tick_mount_done, tick_card_removed,
              tick_removed_while_mounting
<1>4. ASSUME NEW c \in Clients, Start(c) \/ furi_message_queue_put(c) \/ Return(c) PROVE Undisturbed
  BY <1>4 DEF Start, storage_file_alloc, storage_file_free, storage_file_open, storage_file_close,
              storage_common_remove, storage_sd_command, furi_message_queue_put, Return,
              open_waited, open_returns
<1>5. CASE UNCHANGED vars
  BY <1>5 DEF vars
<1> QED
  BY <1>2, <1>3, <1>4, <1>5 DEF Next, ServiceStep

(* What others may do to an open file, for any clients: no command of theirs *)
(* but a format makes its handle invalid while its card is in the slot and  *)
(* mounted (storage_process_sd_unmount, storage_process_common_remove).     *)
THEOREM HoldersAreUndisturbed == Spec => HoldersUndisturbed
<1>1. Init => TypeInv /\ ValidInv
  BY TypeInvInductive DEF Init, ValidInv, NoFile
<1>2. TypeInv /\ ValidInv /\ [Next]_vars => (TypeInv /\ ValidInv)'
  BY TypeInvInductive, ValidInvNext
<1>3. TypeInv /\ ValidInv /\ [Next]_vars => [Undisturbed]_vars
  BY StepsUndisturbed
<1> QED
  BY <1>1, <1>2, <1>3, PTL DEF Spec, HoldersUndisturbed, Undisturbed
-----------------------------------------------------------------------------
(* The list and the clients.  TypeIsOpen is storage_file_is_open or          *)
(* storage_file_is_dir: the client has still to close.                     *)
TypeIsOpen(c) == type[c] \in {"OpenFile", "OpenDir"}

InCall(c) == pc[c] \in {"put", "reply", "wait"}

CallInv ==
    \A c \in Clients : InCall(c) =>
        /\ request[c].command \in Opens => TypeIsOpen(c) /\ held[c] = NoPath
        /\ request[c].command \in Closes => TypeIsOpen(c)

HolderInv ==
    /\ \A c \in Clients : held[c] # NoPath => TypeIsOpen(c)
    /\ \A c \in Clients \ robbed : held[c] # NoPath =>
          /\ file_id[c] \in Listed
          /\ files[file_id[c]].file = c /\ files[file_id[c]].path = held[c]
    /\ \A c \in robbed : held[c] # NoPath /\ \A n \in Listed : files[n].file # c

ListInv ==
    \A n \in Listed : file_id[files[n].file] = n /\ held[files[n].file] = files[n].path

LockInv == CallInv /\ HolderInv /\ ListInv

LEMMA ListedOwner ==
    ASSUME FilesOK, NEW n \in Listed
    PROVE  n \in Nodes /\ files[n].file \in Clients /\ files[n].path \in Paths
BY DEF Listed, FilesOK, FileRecords, NoFile

(* A close finds its caller's entry if it has one, and finds one at most.  *)
LEMMA FoundIsOne ==
    ASSUME ListInv, NEW c \in Clients, NEW n \in Found(c)
    PROVE  n \in Listed /\ n = file_id[c] /\ \A m \in Listed : files[m].file = c => m = n
BY DEF Found, ListInv

(* Steps that move no entry, no file_id and no type.                       *)
EntriesKept == FilesKept /\ UNCHANGED <<file_id, held, robbed, type>>

LEMMA EntriesKeptLock == HolderInv /\ ListInv /\ EntriesKept => HolderInv' /\ ListInv'
BY DEF HolderInv, ListInv, EntriesKept, FilesKept, Listed, TypeIsOpen

LEMMA HeadInCall ==
    ASSUME TypeInv, NEW c \in Clients, message_queue # <<>>, c = Head(message_queue)
    PROVE  InCall(c)
BY HeadReplies, TypeParts DEF TypeInv, InCall

(* A client that is served has its request, its type and no path as CallInv *)
(* says.                                                                   *)
LEMMA ServedCall ==
    ASSUME TypeInv, CallInv, NEW c \in Clients
    PROVE  /\ Serves(c, Opens) => TypeIsOpen(c) /\ held[c] = NoPath
           /\ Serves(c, Closes) => TypeIsOpen(c)
BY HeadInCall DEF Serves, CallInv

LEMMA GrantedLock ==
    ASSUME TypeInv, LockInv, NEW c \in Clients, storage_process_open(c)
    PROVE  HolderInv' /\ ListInv'
<1>0. TypeOK /\ FilesOK /\ CallInv /\ HolderInv /\ ListInv
  BY TypeParts DEF TypeInv, LockInv
<1>1. PICK n \in Nodes \ Listed, ok \in BOOLEAN :
         /\ files' = [files EXCEPT ![n] = [file |-> c, path |-> request[c].path, valid |-> ok]]
         /\ file_id' = [file_id EXCEPT ![c] = n]
         /\ held' = [held EXCEPT ![c] = request[c].path]
         /\ robbed' = robbed
         /\ request[c].path \in Paths
  BY <1>0, GrantedEntry DEF Granted
<1>2. UNCHANGED type /\ TypeIsOpen(c) /\ held[c] = NoPath
  BY <1>0, GrantedEntry, ServedCall DEF storage_process_open
<1>3. files'[n].file = c /\ files'[n].path = request[c].path /\ c # NoClient
  BY <1>0, <1>1, NamesAssumption DEF FilesOK
<1>4. \A m \in Nodes : m # n => files'[m] = files[m]
  BY <1>0, <1>1 DEF FilesOK
<1>5. Listed' = Listed \cup {n}
  BY <1>1, <1>3, <1>4 DEF Listed
<1>6. \A m \in Listed : files[m].file # c /\ files'[m] = files[m]
  BY <1>0, <1>1, <1>2, <1>4, ListedOwner, NamesAssumption DEF ListInv
<1>7. /\ held'[c] = request[c].path /\ file_id'[c] = n /\ c \notin robbed
      /\ \A d \in Clients : d # c => held'[d] = held[d] /\ file_id'[d] = file_id[d]
  BY <1>0, <1>1, <1>2 DEF FilesOK, HolderInv
<1>8. \A d \in Clients : held'[d] # NoPath => TypeIsOpen(d)'
  BY <1>0, <1>2, <1>7 DEF HolderInv, TypeIsOpen
<1>9. ASSUME NEW d \in Clients \ robbed', held'[d] # NoPath
      PROVE  /\ file_id'[d] \in Listed'
             /\ files'[file_id'[d]].file = d /\ files'[file_id'[d]].path = held'[d]
  <2>1. CASE d = c
    BY <1>3, <1>5, <1>7, <2>1
  <2>2. CASE d # c
    BY <1>0, <1>1, <1>5, <1>6, <1>7, <1>9, <2>2 DEF HolderInv
  <2> QED
    BY <2>1, <2>2
<1>10. ASSUME NEW d \in robbed'
       PROVE  held'[d] # NoPath /\ \A m \in Listed' : files'[m].file # d
  <2>1. d \in robbed /\ d \in Clients /\ d # c
    BY <1>0, <1>1, <1>7 DEF FilesOK
  <2> QED
    BY <1>0, <1>3, <1>5, <1>6, <1>7, <2>1 DEF HolderInv
<1>11. HolderInv'
  BY <1>8, <1>9, <1>10 DEF HolderInv
<1>12. ListInv'
  <2> SUFFICES ASSUME NEW m \in Listed'
               PROVE  /\ file_id'[files'[m].file] = m
                      /\ held'[files'[m].file] = files'[m].path
    BY DEF ListInv
  <2>1. CASE m = n
    BY <1>3, <1>7, <2>1
  <2>2. CASE m # n
    <3>1. m \in Listed /\ files'[m] = files[m] /\ files[m].file \in Clients \ {c}
      BY <1>0, <1>5, <1>6, <2>2, ListedOwner
    <3> QED
      BY <1>0, <1>7, <3>1 DEF ListInv
  <2> QED
    BY <2>1, <2>2
<1> QED
  BY <1>11, <1>12

(* After a close, of an entry or of none, the client has no path and no     *)
(* entry; when the entry was another's, that other is robbed.              *)
Closed(c) ==
    /\ Forgotten(c) \/ (Found(c) = {} /\ files' = files /\ robbed' = robbed \ {c})
    /\ UNCHANGED file_id
    /\ held' = [held EXCEPT ![c] = NoPath] /\ type' = [type EXCEPT ![c] = "Closed"]

(* What is left of the list: the caller's entries are gone, and one of      *)
(* another's at most.                                                      *)
LEMMA ClosedEntries ==
    ASSUME TypeInv, LockInv, NEW c \in Clients, Closed(c)
    PROVE  /\ Listed' = {n \in Listed : files[n].file \notin robbed' \cup {c}}
           /\ \A n \in Listed' : files'[n] = files[n]
           /\ c \notin robbed'
           /\ \A d \in robbed' : d \in Clients /\ held[d] # NoPath
           /\ robbed \ {c} \subseteq robbed'
<1>0. TypeOK /\ FilesOK /\ HolderInv /\ ListInv
  BY TypeParts DEF TypeInv, LockInv
<1>1. CASE Found(c) = {} /\ files' = files /\ robbed' = robbed \ {c}
  <2>1. \A n \in Listed : files[n].file # c
    BY <1>1 DEF Found
  <2>2. \A n \in Listed : files[n].file \notin robbed
    BY <1>0 DEF HolderInv
  <2>3. Listed' = Listed
    BY <1>1 DEF Listed
  <2> QED
    BY <1>0, <1>1, <2>1, <2>2, <2>3 DEF HolderInv, FilesOK
<1>2. CASE Forgotten(c)
  <2>1. PICK n \in Found(c) :
           files' = [files EXCEPT ![n] = NoFile] /\ robbed' = (robbed \cup {files[n].file}) \ {c}
    BY <1>2 DEF Forgotten
  <2>2. n \in Listed /\ n \in Nodes /\ files[n].file \in Clients /\ held[files[n].file] # NoPath
    BY <1>0, FoundIsListed, ListedOwner, NamesAssumption DEF ListInv
  <2>3. \A m \in Listed : m # n => files[m].file # c /\ files[m].file # files[n].file
    BY <1>0, <2>2, FoundIsOne DEF ListInv
  <2>4. \A m \in Listed : files[m].file \notin robbed
    BY <1>0 DEF HolderInv
  <2>5. files'[n] = NoFile /\ \A m \in Nodes : m # n => files'[m] = files[m]
    BY <1>0, <2>1, <2>2 DEF FilesOK
  <2>6. Listed' = Listed \ {n}
    BY <2>2, <2>5 DEF Listed, NoFile
  <2>7. Listed' = {m \in Listed : files[m].file \notin robbed' \cup {c}}
    <3>1. \A m \in Listed \ {n} : files[m].file \notin robbed' \cup {c}
      BY <2>1, <2>3, <2>4
    <3>2. files[n].file \in robbed' \cup {c}
      BY <2>1
    <3> QED
      BY <2>6, <3>1, <3>2
  <2>8. \A m \in Listed' : files'[m] = files[m]
    BY <2>5, <2>6 DEF Listed
  <2> QED
    BY <1>0, <2>1, <2>2, <2>7, <2>8 DEF HolderInv, FilesOK
<1> QED
  BY <1>1, <1>2 DEF Closed

LEMMA ClosedLock ==
    ASSUME TypeInv, LockInv, NEW c \in Clients, Closed(c)
    PROVE  HolderInv' /\ ListInv'
<1>0. TypeOK /\ FilesOK /\ CallsOK /\ HolderInv /\ ListInv
  BY TypeParts DEF TypeInv, LockInv
<1>1. /\ Listed' = {n \in Listed : files[n].file \notin robbed' \cup {c}}
      /\ \A n \in Listed' : files'[n] = files[n]
      /\ c \notin robbed' /\ robbed \ {c} \subseteq robbed'
      /\ \A d \in robbed' : d \in Clients /\ held[d] # NoPath
  BY ClosedEntries
<1>2. held' = [held EXCEPT ![c] = NoPath] /\ type' = [type EXCEPT ![c] = "Closed"] /\ file_id' = file_id
  BY DEF Closed
<1>3. ASSUME NEW d \in Clients, d # c PROVE held'[d] = held[d] /\ type'[d] = type[d]
  BY <1>0, <1>2, <1>3 DEF FilesOK, CallsOK
<1>4. held'[c] = NoPath
  BY <1>0, <1>2 DEF FilesOK
<1>5. \A d \in Clients : held'[d] # NoPath => TypeIsOpen(d)'
  BY <1>0, <1>3, <1>4 DEF HolderInv, TypeIsOpen
<1>6. ASSUME NEW d \in Clients \ robbed', held'[d] # NoPath
      PROVE  /\ file_id'[d] \in Listed'
             /\ files'[file_id'[d]].file = d /\ files'[file_id'[d]].path = held'[d]
  <2>1. d # c /\ d \notin robbed /\ held'[d] = held[d] /\ file_id'[d] = file_id[d]
    BY <1>1, <1>2, <1>3, <1>4, <1>6
  <2> QED
    BY <1>0, <1>1, <1>6, <2>1 DEF HolderInv
<1>7. ASSUME NEW d \in robbed'
      PROVE  held'[d] # NoPath /\ \A n \in Listed' : files'[n].file # d
  BY <1>1, <1>3, <1>7
<1>8. HolderInv'
  BY <1>5, <1>6, <1>7 DEF HolderInv
<1>9. ListInv'
  BY <1>0, <1>1, <1>2, <1>3, ListedOwner DEF ListInv
<1> QED
  BY <1>8, <1>9

(* A close takes a path from one holder at most: the caller has none when   *)
(* the entry was another's.                                                *)
LEMMA ClosedOne ==
    ASSUME TypeInv, LockInv, NEW c \in Clients, Closed(c), NEW d \in Clients, NEW e \in Clients,
           Holds'[d] # Holds[d], Holds'[e] # Holds[e]
    PROVE  d = e
<1>0. TypeOK /\ FilesOK /\ HolderInv /\ ListInv
  BY TypeParts DEF TypeInv, LockInv
<1>1. held' = [held EXCEPT ![c] = NoPath]
  BY DEF Closed
<1>2. CASE Found(c) = {} /\ robbed' = robbed \ {c}
  BY <1>0, <1>1, <1>2 DEF FilesOK, Holds
<1>3. CASE Forgotten(c)
  <2>1. PICK n \in Found(c) : robbed' = (robbed \cup {files[n].file}) \ {c}
    BY <1>3 DEF Forgotten
  <2>2. n = file_id[c] /\ n \in Listed
    BY <1>0, FoundIsOne
  <2>3. \A x \in Clients : x # c /\ x # files[n].file => Holds'[x] = Holds[x]
    BY <1>0, <1>1, <2>1 DEF FilesOK, Holds
  <2>4. files[n].file # c => Holds[c] = NoPath /\ Holds'[c] = NoPath
    BY <1>0, <1>1, <2>2 DEF HolderInv, FilesOK, Holds
  <2> QED
    BY <2>3, <2>4
<1> QED
  BY <1>2, <1>3 DEF Closed

LEMMA InvalidatedKeeps == (files' = files \/ files' = Invalidated) => FilesKept
BY InvalidatedEntries DEF FilesKept

LEMMA HolderListNext == TypeInv /\ LockInv /\ [Next]_vars => HolderInv' /\ ListInv'
<1> SUFFICES ASSUME TypeInv, LockInv, [Next]_vars PROVE HolderInv' /\ ListInv'
  OBVIOUS
<1>0. TypeOK /\ FilesOK /\ CallsOK /\ CallInv /\ HolderInv /\ ListInv
  BY TypeParts DEF TypeInv, LockInv
<1>a. EntriesKept => HolderInv' /\ ListInv'
  BY <1>0, EntriesKeptLock
<1> USE DEF EntriesKept
<1>1. ASSUME NEW c \in Clients, Process(c) PROVE HolderInv' /\ ListInv'
  <2>1. CASE storage_process_open(c)
    BY <2>1, GrantedLock
  <2>2. CASE storage_process_close(c)
    BY <2>2, ForgottenEntry, ClosedLock DEF Closed
  <2>3. CASE storage_process_close_unknown(c)
    BY <2>3, ClosedLock DEF Closed, storage_process_close_unknown, AnswerClose
  <2>4. CASE storage_process_common_remove(c)
    <3>1. files' = files \/ files' = Removed(request[c].path)
      BY <2>4 DEF storage_process_common_remove
    <3>2. FilesKept
      BY <3>1, RemovedEntries DEF FilesKept
    <3> QED
      BY <1>a, <2>4, <3>2 DEF storage_process_common_remove
  <2>5. CASE storage_process_sd_format(c) \/ storage_process_sd_unmount(c) \/ sd_mount_command_done(c)
    BY <1>a, <2>5, InvalidatedKeeps
       DEF storage_process_sd_format, storage_process_sd_unmount, sd_mount_command_done, Mounts
  <2>6. CASE storage_process_open_refused(c) \/ storage_process_sd_mount(c)
               \/ storage_process_sd_mount_refused(c)
    BY <1>a, <2>6, InvalidatedKeeps
       DEF storage_process_open_refused, AnswerOpen, storage_process_sd_mount,
           storage_process_sd_mount_refused
  <2> QED
    BY <1>1, <2>1, <2>2, <2>3, <2>4, <2>5, <2>6 DEF Process
<1>2. CASE Tick \/ card_moved
  BY <1>2, <1>a, InvalidatedKeeps DEF Tick, card_moved, tick_card_detected, tick_mount_done,
     Mounts, tick_card_removed, tick_removed_while_mounting, Unmounted
<1>3. ASSUME NEW c \in Clients, Start(c) PROVE HolderInv' /\ ListInv'
  <2>1. CASE storage_file_alloc(c) \/ storage_file_free(c)
    <3>1. held[c] = NoPath /\ \A n \in Listed : files[n].file # c
      BY <1>0, <2>1, ListedOwner, NamesAssumption
         DEF HolderInv, ListInv, TypeIsOpen, storage_file_alloc, storage_file_free
    <3>2. /\ files' = files /\ held' = held /\ robbed' = robbed /\ Listed' = Listed
          /\ \A d \in Clients : d # c => type'[d] = type[d] /\ file_id'[d] = file_id[d]
      BY <1>0, <2>1 DEF CallsOK, FilesOK, Listed, storage_file_alloc, storage_file_free
    <3>3. HolderInv'
      BY <1>0, <3>1, <3>2 DEF HolderInv, TypeIsOpen, FilesOK
    <3>4. ListInv'
      BY <1>0, <3>1, <3>2, ListedOwner DEF ListInv
    <3> QED
      BY <3>3, <3>4
  <2>2. ASSUME NEW command \in Opens, NEW p \in Paths \cup InvalidPaths,
               storage_file_open(c, command, p)
        PROVE  HolderInv' /\ ListInv'
    <3>1. /\ type[c] = "Closed"
          /\ files' = files /\ held' = held /\ robbed' = robbed
          /\ file_id' = file_id /\ Listed' = Listed
          /\ \A d \in Clients : d # c => type'[d] = type[d]
      BY <1>0, <2>2 DEF CallsOK, Listed, storage_file_open
    <3>2. held[c] = NoPath
      BY <1>0, <3>1 DEF HolderInv, TypeIsOpen
    <3>3. HolderInv'
      BY <1>0, <3>1, <3>2 DEF HolderInv, TypeIsOpen
    <3> QED
      BY <1>0, <3>1, <3>3 DEF ListInv
  <2>3. CASE storage_file_close(c)
    BY <1>a, <2>3 DEF storage_file_close, FilesKept
  <2>4. ASSUME NEW p, storage_common_remove(c, p) PROVE HolderInv' /\ ListInv'
    BY <1>a, <2>4 DEF storage_common_remove, FilesKept
  <2>5. ASSUME NEW command, storage_sd_command(c, command) PROVE HolderInv' /\ ListInv'
    BY <1>a, <2>5 DEF storage_sd_command, FilesKept
  <2> QED
    BY <1>3, <2>1, <2>2, <2>3, <2>4, <2>5 DEF Start
<1>4. ASSUME NEW c \in Clients, furi_message_queue_put(c) \/ Return(c) PROVE HolderInv' /\ ListInv'
  BY <1>a, <1>4 DEF furi_message_queue_put, Return, open_waited, open_returns, FilesKept
<1>5. CASE UNCHANGED vars
  BY <1>a, <1>5 DEF vars, FilesKept
<1> QED
  BY <1>1, <1>2, <1>3, <1>4, <1>5 DEF Next, ServiceStep

(* Only the client itself moves its request, its type and its path.        *)
OnlyOwn(c) ==
    \A d \in Clients : d # c =>
        pc'[d] = pc[d] /\ request'[d] = request[d] /\ type'[d] = type[d] /\ held'[d] = held[d]

LEMMA OnlyOwnCall ==
    ASSUME CallInv, NEW c \in Clients, OnlyOwn(c),
           InCall(c)' => /\ request'[c].command \in Opens => TypeIsOpen(c)' /\ held'[c] = NoPath
                         /\ request'[c].command \in Closes => TypeIsOpen(c)'
    PROVE  CallInv'
BY DEF CallInv, OnlyOwn, InCall, TypeIsOpen

LEMMA CallInvNext == TypeInv /\ LockInv /\ [Next]_vars => CallInv'
<1> SUFFICES ASSUME TypeInv, LockInv, [Next]_vars PROVE CallInv'
  OBVIOUS
<1>0. TypeOK /\ FilesOK /\ CallsOK /\ CallInv /\ HolderInv
  BY TypeParts DEF TypeInv, LockInv
<1>1. ASSUME NEW c \in Clients, Process(c) PROVE CallInv'
  <2>1. CASE storage_process_open(c)
    <3>1. OnlyOwn(c) /\ ~InCall(c)'
      BY <1>0, <2>1, GrantedEntry DEF Granted, OnlyOwn, InCall, CallsOK, FilesOK
    <3> QED
      BY <1>0, <3>1, OnlyOwnCall
  <2>2. CASE storage_process_open_refused(c)
    <3>1. OnlyOwn(c) /\ UNCHANGED <<request, type, held>>
      BY <1>0, <2>2 DEF storage_process_open_refused, AnswerOpen, OnlyOwn, CallsOK
    <3>2. InCall(c) /\ Serves(c, Opens)
      BY <1>0, <2>2, HeadInCall DEF storage_process_open_refused, Serves
    <3> QED
      BY <1>0, <3>1, <3>2, OnlyOwnCall DEF CallInv, TypeIsOpen
  <2>3. CASE storage_process_close(c) \/ storage_process_close_unknown(c)
    <3>1. OnlyOwn(c) /\ ~InCall(c)'
      BY <1>0, <2>3 DEF storage_process_close, storage_process_close_unknown, AnswerClose, Answer,
                        OnlyOwn, InCall, CallsOK, FilesOK
    <3> QED
      BY <1>0, <3>1, OnlyOwnCall
  <2>4. CASE storage_process_common_remove(c) \/ storage_process_sd_format(c)
               \/ storage_process_sd_unmount(c) \/ storage_process_sd_mount_refused(c)
               \/ sd_mount_command_done(c)
    <3>1. OnlyOwn(c) /\ ~InCall(c)'
      BY <1>0, <2>4 DEF storage_process_common_remove, storage_process_sd_format,
         storage_process_sd_unmount, storage_process_sd_mount_refused, sd_mount_command_done,
         Answer, OnlyOwn, InCall, CallsOK
    <3> QED
      BY <1>0, <3>1, OnlyOwnCall
  <2>5. CASE storage_process_sd_mount(c)
    BY <1>0, <2>5 DEF storage_process_sd_mount, CallInv, InCall, TypeIsOpen
  <2> QED
    BY <1>1, <2>1, <2>2, <2>3, <2>4, <2>5 DEF Process
<1>2. CASE Tick \/ card_moved
  BY <1>0, <1>2 DEF CallInv, InCall, TypeIsOpen, Tick, card_moved, tick_card_detected,
     tick_mount_done, tick_card_removed, tick_removed_while_mounting, Unmounted
<1>3. ASSUME NEW c \in Clients, Start(c) PROVE CallInv'
  <2>1. CASE storage_file_alloc(c) \/ storage_file_free(c)
    <3>1. OnlyOwn(c) /\ ~InCall(c)'
      BY <1>0, <2>1 DEF storage_file_alloc, storage_file_free, OnlyOwn, InCall, CallsOK, FilesOK
    <3> QED
      BY <1>0, <3>1, OnlyOwnCall
  <2>2. ASSUME NEW command \in Opens, NEW p \in Paths \cup InvalidPaths,
               storage_file_open(c, command, p)
        PROVE  CallInv'
    <3>1. OnlyOwn(c) /\ TypeIsOpen(c)' /\ held'[c] = NoPath
      BY <1>0, <2>2 DEF storage_file_open, Call, OnlyOwn, TypeIsOpen, CallsOK, HolderInv
    <3> QED
      BY <1>0, <3>1, OnlyOwnCall
  <2>3. CASE storage_file_close(c)
    <3>1. OnlyOwn(c) /\ TypeIsOpen(c)' /\ request'[c].command \in Closes
      BY <1>0, <2>3 DEF storage_file_close, Call, OnlyOwn, TypeIsOpen, CallsOK
    <3> QED
      BY <1>0, <3>1, OnlyOwnCall
  <2>4. ASSUME NEW p \in Paths \cup InvalidPaths, storage_common_remove(c, p) PROVE CallInv'
    <3>1. OnlyOwn(c) /\ request'[c].command = "Remove"
      BY <1>0, <2>4 DEF storage_common_remove, Call, OnlyOwn, CallsOK
    <3> QED
      BY <1>0, <3>1, OnlyOwnCall
  <2>5. ASSUME NEW command \in CardCommands, storage_sd_command(c, command) PROVE CallInv'
    <3>1. OnlyOwn(c) /\ request'[c].command = command
      BY <1>0, <2>5 DEF storage_sd_command, Call, OnlyOwn, CallsOK
    <3> QED
      BY <1>0, <3>1, OnlyOwnCall
  <2> QED
    BY <1>3, <2>1, <2>2, <2>3, <2>4, <2>5 DEF Start
<1>4. ASSUME NEW c \in Clients, furi_message_queue_put(c) PROVE CallInv'
  <2>1. OnlyOwn(c) /\ InCall(c) /\ UNCHANGED <<request, type, held>>
    BY <1>0, <1>4 DEF furi_message_queue_put, OnlyOwn, InCall, CallsOK
  <2> QED
    BY <1>0, <2>1, OnlyOwnCall DEF CallInv, TypeIsOpen
<1>5. ASSUME NEW c \in Clients, Return(c) PROVE CallInv'
  <2>1. CASE open_waited(c)
    <3>1. OnlyOwn(c) /\ InCall(c) /\ UNCHANGED <<request, type, held>>
      BY <1>0, <2>1 DEF open_waited, OnlyOwn, InCall, CallsOK
    <3> QED
      BY <1>0, <3>1, OnlyOwnCall DEF CallInv, TypeIsOpen
  <2>2. CASE open_returns(c)
    <3>1. OnlyOwn(c) /\ ~InCall(c)'
      BY <1>0, <2>2 DEF open_returns, OnlyOwn, InCall, CallsOK
    <3> QED
      BY <1>0, <3>1, OnlyOwnCall
  <2> QED
    BY <1>5, <2>1, <2>2 DEF Return
<1>6. CASE UNCHANGED vars
  BY <1>0, <1>6 DEF vars, CallInv, InCall, TypeIsOpen
<1> QED
  BY <1>1, <1>2, <1>3, <1>4, <1>5, <1>6 DEF Next, ServiceStep

StorageInv == TypeInv /\ LockInv

LEMMA StorageInvInductive ==
    /\ Init => StorageInv
    /\ StorageInv /\ [Next]_vars => StorageInv'
<1>1. Init => LockInv
  BY NamesAssumption DEF Init, LockInv, CallInv, HolderInv, ListInv, Listed, NoFile, InCall, TypeIsOpen
<1>2. StorageInv /\ [Next]_vars => LockInv'
  BY HolderListNext, CallInvNext DEF StorageInv, LockInv
<1> QED
  BY <1>1, <1>2, TypeInvInductive DEF StorageInv

LEMMA LockInvListed == LockInv => HoldersAreListed
BY DEF LockInv, HolderInv, ListInv, HoldersAreListed

LEMMA StorageAlways == Spec => []StorageInv
<1>1. Init => StorageInv
  BY StorageInvInductive
<1>2. StorageInv /\ [Next]_vars => StorageInv'
  BY StorageInvInductive
<1> QED
  BY <1>1, <1>2, PTL DEF Spec

(* For any clients, paths and list: the entry of each open file is found by *)
(* its client, unless the close of a stale File has taken it, and goes with *)
(* the client's close (storage_glue.c, storage_process_*_open and _close),   *)
(* whatever happens to the card.                                           *)
THEOREM HoldersListed == Spec => []HoldersAreListed
<1>1. StorageInv => HoldersAreListed
  BY LockInvListed DEF StorageInv
<1> QED
  BY <1>1, StorageAlways, PTL

(* A step of the storage is a step of the locks, or none.                  *)
LEMMA StepsLock == StorageInv /\ [Next]_vars => [Locks!Next]_Holds
<1> SUFFICES ASSUME StorageInv, [Next]_vars, Holds' # Holds PROVE Locks!Next
  OBVIOUS
<1>0. TypeInv /\ TypeOK /\ FilesOK /\ LockInv /\ CallInv /\ HolderInv /\ ListInv
  BY TypeParts DEF StorageInv, TypeInv, LockInv
<1>1. \E c \in Clients : storage_process_open(c) \/ storage_process_close(c)
                              \/ storage_process_close_unknown(c)
  <2>1. ASSUME NEW c \in Clients, Process(c)
        PROVE  storage_process_open(c) \/ storage_process_close(c)
                  \/ storage_process_close_unknown(c)
    BY <2>1 DEF Holds, Process, storage_process_open_refused, storage_process_common_remove,
       storage_process_sd_format, storage_process_sd_unmount, storage_process_sd_mount,
       storage_process_sd_mount_refused, sd_mount_command_done
  <2>2. ~(Tick \/ card_moved \/ UNCHANGED vars)
    BY DEF Holds, vars, Tick, card_moved, tick_card_detected, tick_mount_done, tick_card_removed,
           tick_removed_while_mounting, Unmounted
  <2>3. ASSUME NEW c \in Clients
        PROVE  ~(Start(c) \/ furi_message_queue_put(c) \/ Return(c))
    BY DEF Holds, Start, storage_file_alloc, storage_file_free, storage_file_open,
           storage_file_close, storage_common_remove, storage_sd_command,
           furi_message_queue_put, Return, open_waited, open_returns
  <2> QED
    BY <2>1, <2>2, <2>3 DEF Next, ServiceStep
<1>2. PICK c \in Clients : storage_process_open(c) \/ storage_process_close(c)
                              \/ storage_process_close_unknown(c)
  BY <1>1
<1>3. CASE storage_process_open(c)
  <2>1. PICK p \in Paths :
           /\ held' = [held EXCEPT ![c] = p] /\ robbed' = robbed /\ ~storage_path_already_open(p)
    BY <1>0, <1>3, GrantedEntry DEF Granted
  <2>2. held[c] = NoPath /\ c \notin robbed
    BY <1>0, <1>3, ServedCall DEF storage_process_open, HolderInv
  <2>3. Holds[c] = NoPath /\ Holds' = [Holds EXCEPT ![c] = p]
    BY <1>0, <2>1, <2>2 DEF Holds, FilesOK
  <2>4. ASSUME NEW d \in Clients PROVE Holds[d] # p
    <3>1. CASE d \in robbed
      BY <3>1, NamesAssumption DEF Holds
    <3>2. CASE d \notin robbed
      BY <1>0, <2>1, <3>2, NamesAssumption DEF Holds, HolderInv, storage_path_already_open
    <3> QED
      BY <3>1, <3>2
  <2> QED
    BY <2>3, <2>4 DEF Locks!Next, Locks!Acquire
<1>4. CASE storage_process_close(c) \/ storage_process_close_unknown(c)
  <2>1. Closed(c)
    BY <1>4, ForgottenEntry DEF Closed, storage_process_close_unknown, AnswerClose
  <2>2. /\ c \notin robbed' /\ robbed \ {c} \subseteq robbed'
        /\ \A d \in robbed' : d \in Clients /\ held[d] # NoPath
    BY <2>1, ClosedEntries, <1>0
  <2>3. /\ held'[c] = NoPath
        /\ \A d \in Clients : d # c => held'[d] = held[d]
    BY <1>0, <2>1 DEF Closed, FilesOK
  <2>4. Holds'[c] = NoPath /\ \A d \in Clients : Holds'[d] \in {Holds[d], NoPath}
    BY <2>2, <2>3 DEF Holds
  <2>5. ASSUME NEW d \in Clients, NEW e \in Clients, d # e,
               Holds'[d] # Holds[d], Holds'[e] # Holds[e]
        PROVE  FALSE
    BY <1>0, <2>1, <2>5, ClosedOne
  <2>6. PICK d \in Clients : Holds'[d] # Holds[d]
    BY DEF Holds
  <2>7. Holds[d] # NoPath /\ Holds' = [Holds EXCEPT ![d] = NoPath]
    BY <2>4, <2>5, <2>6 DEF Holds
  <2> QED
    BY <2>7 DEF Locks!Next, Locks!Release
<1> QED
  BY <1>2, <1>3, <1>4

(* For any clients, paths and list: the storage service implements          *)
(* FileLocks, whatever happens to the card: an open that                    *)
(* storage_process_file_open grants excludes all others from the path until *)
(* the holder's own close, or until the close of a stale File takes the     *)
(* holder's entry.                                                         *)
THEOREM StorageImplementsFileLocks == Spec => ImplementsFileLocks
<1>1. Init => Locks!Init
  BY DEF Init, Locks!Init, Holds
<1>2. StorageInv /\ [Next]_vars => [Locks!Next]_Holds
  BY StepsLock
<1> QED
  BY <1>1, <1>2, StorageAlways, PTL DEF Spec, ImplementsFileLocks, Locks!Spec
=============================================================================
