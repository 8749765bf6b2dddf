------------------------------ MODULE Storage -------------------------------
(***************************************************************************)
(* The storage service: one thread that takes requests from a queue and    *)
(* keeps the list of open files (storage_processing.c, storage_glue.c), the *)
(* card that comes and goes (storage_ext.c), and the clients' side of an   *)
(* open, which waits for a file that somebody else has (storage_external_  *)
(* api.c).                                                                 *)
(*                                                                         *)
(* The service handles a request in one step: nobody else touches the      *)
(* list.  Mounting a card takes seconds and is two steps.  Files and       *)
(* directories are opened alike.  Reading and writing look files up as     *)
(* closing does and change neither the list nor the status.  The contents  *)
(* of the card are left out, and so are the icon and the events that tell  *)
(* of cards.                                                               *)
(***************************************************************************)
EXTENDS Naturals, Sequences

CONSTANTS
    Clients,        \* threads, with one File each
    Uses,           \* the commands of the service that a client uses
    Paths,          \* paths on the card
    InvalidPaths,   \* paths that belong to no storage
    Nodes,          \* addresses of the entries of the list of open files
    QueueSize,      \* capacity of the message queue
    NoClient, NoPath, NoNode

ASSUME NamesAssumption ==
    /\ NoClient \notin Clients /\ NoNode \notin Nodes
    /\ NoPath \notin Paths \cup InvalidPaths /\ Paths \cap InvalidPaths = {}
Opens == {"FileOpen", "DirOpen"}
Closes == {"FileClose", "DirClose"}
CardCommands == {"SDFormat", "SDUnmount", "SDMount"}

ASSUME UsesAssumption == Uses \in [Clients -> SUBSET (Opens \cup CardCommands \cup {"Remove"})]
ASSUME QueueAssumption == QueueSize \in Nat \ {0}

VARIABLES
    status,         \* StorageData.status; Error is any of the four errors
    files,          \* StorageData.files
    sd_was_present, \* SDData.sd_was_present: waits for a card to appear
    present,        \* furi_hal_sd_is_present
    mounting,       \* who has sd_mount_card called: none, tick, command
    message_queue,  \* the clients whose requests wait, the one being served first
    request,        \* what a client asks for
    pc,             \* where a client is in its call
    event,          \* the FuriEventFlag of an open: none, clear, set
    type,           \* File.type, None without a File
    file_id,        \* File.file_id
    held,           \* a client's view: the path it was granted and has not closed
    robbed          \* history: holders whose entry another client's close has taken

cardVars == <<status, sd_was_present, present, mounting>>
fileVars == <<files, file_id, held, robbed>>
callVars == <<request, pc, event, type>>
vars == <<status, files, sd_was_present, present, mounting, message_queue, request, pc,
          event, type, file_id, held, robbed>>

NoFile == [file |-> NoClient, path |-> NoPath, valid |-> FALSE]
FileRecords == [file : Clients, path : Paths, valid : BOOLEAN] \cup {NoFile}

Requests ==
    [command : Opens \cup {"Remove"}, path : Paths \cup InvalidPaths]
        \cup [command : Closes \cup CardCommands, path : {NoPath}]
NoRequest == [command |-> "None", path |-> NoPath]

Statuses == {"OK", "NotReady", "Error"}

TypeOK ==
    /\ status \in Statuses
    /\ files \in [Nodes -> FileRecords]
    /\ sd_was_present \in BOOLEAN /\ present \in BOOLEAN
    /\ mounting \in {"none", "tick", "command"}
    /\ message_queue \in Seq(Clients) /\ Len(message_queue) <= QueueSize
    /\ request \in [Clients -> Requests \cup {NoRequest}]
    /\ pc \in [Clients -> {"ready", "put", "reply", "return", "wait"}]
    /\ event \in [Clients -> {"none", "clear", "set"}]
    /\ type \in [Clients -> {"None", "Closed", "OpenFile", "OpenDir"}]
    /\ file_id \in [Clients -> Nodes \cup {NoNode}]
    /\ held \in [Clients -> Paths \cup {NoPath}]
    /\ robbed \subseteq Clients

-----------------------------------------------------------------------------
(* The list of open files                                                  *)

Listed == {n \in Nodes : files[n].file # NoClient}

storage_path_already_open_valid(p) == \E n \in Listed : files[n].path = p /\ files[n].valid

storage_path_already_open(p) == \E n \in Listed : files[n].path = p

(* The entry is found by comparing its File's file_id with the caller's.   *)
Found(c) == {n \in Listed : file_id[files[n].file] = file_id[c]}

(* FatFs refuses the objects that were opened before the last mount.       *)
Invalid(r) == [file |-> r.file, path |-> r.path, valid |-> FALSE]

Invalidated == [n \in Nodes |-> Invalid(files[n])]

-----------------------------------------------------------------------------
(* Clients                                                                 *)

(* The heap hands out zeroed memory; NoNode is file_id 0.                  *)
storage_file_alloc(c) ==
    /\ pc[c] = "ready" /\ type[c] = "None" /\ Uses[c] \cap Opens # {}
    /\ type' = [type EXCEPT ![c] = "Closed"]
    /\ UNCHANGED <<cardVars, fileVars, message_queue, request, pc, event>>

storage_file_free(c) ==
    /\ pc[c] = "ready" /\ type[c] = "Closed"
    /\ type' = [type EXCEPT ![c] = "None"]
    /\ file_id' = [file_id EXCEPT ![c] = NoNode]
    /\ UNCHANGED <<cardVars, files, held, robbed, message_queue, request, pc, event>>

Call(c, command, p) ==
    /\ pc[c] = "ready"
    /\ pc' = [pc EXCEPT ![c] = "put"]
    /\ request' = [request EXCEPT ![c] = [command |-> command, path |-> p]]

(* storage_file_open and storage_dir_open subscribe before they ask.  A      *)
(* File that was closed may be opened again, as DirWalk does with its own,  *)
(* and has its old file_id until the open is granted.                      *)
storage_file_open(c, command, p) ==
    /\ command \in Uses[c]
    /\ type[c] = "Closed"
    /\ Call(c, command, p)
    /\ type' = [type EXCEPT ![c] = IF command = "FileOpen" THEN "OpenFile" ELSE "OpenDir"]
    /\ event' = [event EXCEPT ![c] = "clear"]
    /\ UNCHANGED <<cardVars, fileVars, message_queue>>

(* Clients close what they opened, also after an open that failed.         *)
storage_file_close(c) ==
    /\ type[c] \in {"OpenFile", "OpenDir"}
    /\ Call(c, IF type[c] = "OpenFile" THEN "FileClose" ELSE "DirClose", NoPath)
    /\ UNCHANGED <<cardVars, fileVars, message_queue, event, type>>

storage_common_remove(c, p) ==
    /\ "Remove" \in Uses[c]
    /\ Call(c, "Remove", p)
    /\ UNCHANGED <<cardVars, fileVars, message_queue, event, type>>

storage_sd_command(c, command) ==
    /\ command \in Uses[c]
    /\ Call(c, command, NoPath)
    /\ UNCHANGED <<cardVars, fileVars, message_queue, event, type>>

HasRoom == Len(message_queue) < QueueSize

furi_message_queue_put(c) ==
    /\ pc[c] = "put" /\ HasRoom
    /\ message_queue' = Append(message_queue, c)
    /\ pc' = [pc EXCEPT ![c] = "reply"]
    /\ UNCHANGED <<cardVars, fileVars, request, event, type>>

open_waited(c) ==
    /\ pc[c] = "wait" /\ event[c] = "set"
    /\ event' = [event EXCEPT ![c] = "clear"]
    /\ pc' = [pc EXCEPT ![c] = "put"]
    /\ UNCHANGED <<cardVars, fileVars, message_queue, request, type>>

open_returns(c) ==
    /\ pc[c] = "return"
    /\ event' = [event EXCEPT ![c] = "none"]
    /\ pc' = [pc EXCEPT ![c] = "ready"]
    /\ request' = [request EXCEPT ![c] = NoRequest]
    /\ UNCHANGED <<cardVars, fileVars, message_queue, type>>

-----------------------------------------------------------------------------
(* The service: requests                                                   *)

Serves(c, commands) ==
    /\ mounting = "none"
    /\ message_queue # <<>> /\ c = Head(message_queue)
    /\ request[c].command \in commands

(* api_lock_unlock: the call returns.  An open has still to unsubscribe,    *)
(* or waits for a file that somebody has.                                  *)
Answer(c) ==
    /\ message_queue' = Tail(message_queue)
    /\ pc' = [pc EXCEPT ![c] = "ready"]
    /\ request' = [request EXCEPT ![c] = NoRequest]

AnswerOpen(c, error) ==
    /\ message_queue' = Tail(message_queue)
    /\ pc' = [pc EXCEPT ![c] = IF error = "AlreadyOpen" THEN "wait" ELSE "return"]
    /\ UNCHANGED <<request, event, type>>

(* storage_get_data                                                        *)
PathError(p) ==
    IF p \in InvalidPaths THEN "InvalidName" ELSE IF status = "OK" THEN "OK" ELSE "NotReady"

(* The error of a request for path p before it reaches the file system.    *)
AccessError(p) ==
    IF PathError(p) = "OK" /\ storage_path_already_open(p) THEN "AlreadyOpen" ELSE PathError(p)

storage_process_open_refused(c) ==
    /\ Serves(c, Opens)
    /\ AccessError(request[c].path) # "OK"
    /\ AnswerOpen(c, AccessError(request[c].path))
    /\ UNCHANGED <<cardVars, fileVars>>

(* The entry is there before the file system is asked, and stays when that *)
(* fails.                                                                  *)
storage_process_open(c) ==
    /\ Serves(c, Opens)
    /\ AccessError(request[c].path) = "OK"
    /\ \E n \in Nodes \ Listed, ok \in BOOLEAN :
          /\ files' = [files EXCEPT ![n] =
                [file |-> c, path |-> request[c].path, valid |-> ok]]
          /\ file_id' = [file_id EXCEPT ![c] = n]
    /\ AnswerOpen(c, "OK")
    /\ held' = [held EXCEPT ![c] = request[c].path]
    /\ UNCHANGED <<cardVars, robbed>>

Published_file(command) ==
    [c \in Clients |-> IF event[c] # "none" /\ command = "FileClose" THEN "set" ELSE event[c]]

(* storage_file_close_callback, in every open that waits or may wait.      *)
Published(command) ==
    [c \in Clients |-> IF event[c] # "none" THEN "set" ELSE event[c]]

Popped_valid(n) == IF files[n].valid THEN [files EXCEPT ![n] = NoFile] ELSE files

Popped(n) == [files EXCEPT ![n] = NoFile]

AnswerClose(c) ==
    /\ Answer(c)
    /\ type' = [type EXCEPT ![c] = "Closed"]
    /\ held' = [held EXCEPT ![c] = NoPath]

(* The entry goes, whatever the file system says, and whoever's it is: the  *)
(* file_id of a refused open is that of an entry that went before, whose    *)
(* address somebody else's entry may have by now.                          *)
storage_process_close(c) ==
    /\ Serves(c, Closes)
    /\ \E n \in Found(c) :
          /\ files' = Popped(n)
          /\ robbed' = (robbed \cup {files[n].file}) \ {c}
    /\ event' = Published(request[c].command)
    /\ AnswerClose(c)
    /\ UNCHANGED <<cardVars, file_id>>

storage_process_close_unknown(c) ==
    /\ Serves(c, Closes)
    /\ Found(c) = {}
    /\ robbed' = robbed \ {c}
    /\ AnswerClose(c)
    /\ UNCHANGED <<cardVars, files, file_id, event>>

(* What is removed from the card is no file any more.                      *)
Removed(p) ==
    [n \in Nodes |-> IF files[n].path = p THEN Invalid(files[n]) ELSE files[n]]

storage_process_common_remove(c) ==
    /\ Serves(c, {"Remove"})
    /\ files' \in IF AccessError(request[c].path) = "OK"
                  THEN {Removed(request[c].path), files} ELSE {files}
    /\ Answer(c)
    /\ UNCHANGED <<cardVars, file_id, held, robbed, event, type>>

(* An f_mkfs, whether or not files are open.                               *)
storage_process_sd_format(c) ==
    /\ Serves(c, {"SDFormat"})
    /\ IF status = "NotReady"
       THEN UNCHANGED <<status, files>>
       ELSE status' \in {"OK", "Error"} /\ files' = Invalidated
    /\ Answer(c)
    /\ UNCHANGED <<sd_was_present, present, mounting, file_id, held, robbed, event, type>>

UnmountError_unguarded == IF status = "NotReady" THEN "NotReady" ELSE "OK"

UnmountError ==
    IF status = "NotReady" THEN "NotReady" ELSE IF Listed # {} THEN "Denied" ELSE "OK"

storage_process_sd_unmount(c) ==
    /\ Serves(c, {"SDUnmount"})
    /\ Answer(c)
    /\ IF UnmountError = "OK"
       THEN status' = "NotReady" /\ files' = Invalidated
       ELSE UNCHANGED <<status, files>>
    /\ UNCHANGED <<sd_was_present, present, mounting, file_id, held, robbed, event, type>>

storage_process_sd_mount_refused(c) ==
    /\ Serves(c, {"SDMount"}) /\ status # "NotReady"
    /\ Answer(c)
    /\ UNCHANGED <<cardVars, fileVars, event, type>>

storage_process_sd_mount(c) ==
    /\ Serves(c, {"SDMount"}) /\ status = "NotReady"
    /\ mounting' = "command"
    /\ UNCHANGED <<status, sd_was_present, present, fileVars, message_queue, callVars>>

-----------------------------------------------------------------------------
(* The service: the card                                                   *)

(* sd_mount_card_internal: the card is in its slot and can be mounted, or   *)
(* not, in which case FatFs may not have been reached; or the card was out  *)
(* of its slot when the loop looked.                                       *)
Mounts ==
    \/ status' = "OK" /\ files' = Invalidated
    \/ status' = "Error" /\ files' \in {files, Invalidated}
    \/ UNCHANGED <<status, files>>

sd_mount_command_done(c) ==
    /\ mounting = "command" /\ c = Head(message_queue)
    /\ mounting' = "none"
    /\ Mounts
    /\ Answer(c)
    /\ UNCHANGED <<sd_was_present, present, file_id, held, robbed, event, type>>

(* The service waits for a message for a second, and ticks when none came. *)
Idle == mounting = "none" /\ message_queue = <<>>

tick_card_detected ==
    /\ Idle /\ sd_was_present /\ present
    /\ sd_was_present' = FALSE
    /\ mounting' = "tick"
    /\ UNCHANGED <<status, present, fileVars, message_queue, callVars>>

tick_mount_done ==
    /\ mounting = "tick" /\ present
    /\ mounting' = "none"
    /\ Mounts
    /\ UNCHANGED <<sd_was_present, present, file_id, held, robbed, message_queue, callVars>>

(* The card was removed while it was mounted, or before.                   *)
Unmounted ==
    /\ sd_was_present' = TRUE
    /\ status' = "NotReady"
    /\ files' = Invalidated
    /\ mounting' = "none"
    /\ UNCHANGED <<present, file_id, held, robbed, message_queue, callVars>>

tick_removed_while_mounting == mounting = "tick" /\ ~present /\ Unmounted

tick_card_removed == Idle /\ ~sd_was_present /\ ~present /\ Unmounted

card_moved ==
    /\ present' = ~present
    /\ UNCHANGED <<status, sd_was_present, mounting, fileVars, message_queue, callVars>>

-----------------------------------------------------------------------------
(* storage_ext_init has looked for a card before there are requests.       *)
Init ==
    /\ present \in BOOLEAN /\ sd_was_present = ~present
    /\ status \in IF present THEN {"OK", "Error"} ELSE {"NotReady"}
    /\ mounting = "none"
    /\ files = [n \in Nodes |-> NoFile]
    /\ message_queue = <<>>
    /\ request = [c \in Clients |-> NoRequest]
    /\ pc = [c \in Clients |-> "ready"]
    /\ event = [c \in Clients |-> "none"]
    /\ type = [c \in Clients |-> "None"]
    /\ file_id = [c \in Clients |-> NoNode]
    /\ held = [c \in Clients |-> NoPath]
    /\ robbed = {}

Process(c) ==
    \/ storage_process_open(c)
    \/ storage_process_open_refused(c)
    \/ storage_process_close(c)
    \/ storage_process_close_unknown(c)
    \/ storage_process_common_remove(c)
    \/ storage_process_sd_format(c)
    \/ storage_process_sd_unmount(c)
    \/ storage_process_sd_mount(c)
    \/ storage_process_sd_mount_refused(c)
    \/ sd_mount_command_done(c)

Tick ==
    \/ tick_card_detected
    \/ tick_mount_done
    \/ tick_removed_while_mounting
    \/ tick_card_removed

ServiceStep == Tick \/ \E c \in Clients : Process(c)

Return(c) ==
    \/ open_waited(c)
    \/ open_returns(c)

Start(c) ==
    \/ storage_file_alloc(c)
    \/ storage_file_free(c)
    \/ \E command \in Opens, p \in Paths \cup InvalidPaths : storage_file_open(c, command, p)
    \/ storage_file_close(c)
    \/ \E p \in Paths \cup InvalidPaths : storage_common_remove(c, p)
    \/ \E command \in CardCommands : storage_sd_command(c, command)

Next ==
    \/ ServiceStep
    \/ card_moved
    \/ \E c \in Clients : Start(c) \/ furi_message_queue_put(c) \/ Return(c)

Spec == Init /\ [][Next]_vars

(* The threads are scheduled; a full queue lets its senders in in turn.    *)
Fairness ==
    /\ WF_vars(ServiceStep)
    /\ \A c \in Clients : WF_vars(Return(c)) /\ SF_vars(furi_message_queue_put(c))

FairSpec == Spec /\ Fairness

-----------------------------------------------------------------------------
(* Properties                                                              *)

(* A path has one holder, in the view of the clients: who was granted an    *)
(* open excludes the others until it closes, whatever fails in between, or  *)
(* until the close of a stale File robs it of its entry.                   *)
Holds == [c \in Clients |-> IF c \in robbed THEN NoPath ELSE held[c]]

Locks == INSTANCE FileLocks WITH held <- Holds

ImplementsFileLocks == Locks!Spec

(* The list and the clients agree: the file_id of a client that holds a     *)
(* path leads to its own entry, unless it was robbed of it, and no entry    *)
(* stays behind when its client has closed, also when the open or the close *)
(* failed or the card is gone.                                             *)
HoldersAreListed ==
    /\ \A c \in Clients \ robbed : held[c] # NoPath =>
          /\ file_id[c] \in Listed
          /\ files[file_id[c]].file = c /\ files[file_id[c]].path = held[c]
    /\ \A n \in Listed : held[files[n].file] = files[n].path

(* What others may do to an open file: its handle becomes invalid only when *)
(* the card is out, is formatted, or is mounted by the tick that has not    *)
(* seen it yet; it is neither removed nor unmounted by a command.           *)
HoldersUndisturbed ==
    [][\A n \in Listed :
          files[n].valid /\ files'[n].file = files[n].file /\ ~files'[n].valid =>
              ~present \/ mounting = "tick"
                \/ request[Head(message_queue)].command = "SDFormat"]_vars

Openers == {c \in Clients : Uses[c] \cap Opens # {}}

(* An open that waits for a path goes on when the path is free.             *)
WaitersGoOn ==
    \A c \in Openers :
        pc[c] = "wait" /\ ~storage_path_already_open(request[c].path) ~> pc[c] # "wait"

(* storage_file_close: "pointer to the file instance to be closed".  A      *)
(* close takes the caller's own file from the list, never another one.      *)
ClosesOwnFile ==
    [][\A n \in Listed : files'[n] = NoFile => files[n].file = Head(message_queue)]_vars
=============================================================================
