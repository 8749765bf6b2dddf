----------------------------- MODULE MCStorage ------------------------------
(* Instances of Storage for TLC.                                           *)
EXTENDS Storage, TLC

CONSTANTS file_user, dir_user, settings, path, other_path, bad_path, n1, n2, none

(* One client opens files, removes them, and formats and mounts the card;   *)
(* one opens directories; one unmounts the card while they have both open.  *)
AllClients == {file_user, dir_user, settings}
AllUses ==
    file_user :> (Opens \cup CardCommands \cup {"Remove"}) \ {"DirOpen", "SDUnmount"}
        @@ dir_user :> {"DirOpen"} @@ settings :> {"SDUnmount"}

(* Two clients that open files, one after the other or at a time.          *)
FileUsers == {file_user, dir_user}
FileUses == [c \in FileUsers |-> {"FileOpen"}]

OnePath == {path}
TwoPaths == {path, other_path}
BadPaths == {bad_path}
TwoNodes == {n1, n2}
=============================================================================
