------------------------------ MODULE MCLoader ------------------------------
(* Instances of Loader for TLC.                                            *)
EXTENDS Loader

CONSTANTS cli, rpc, app, menu, browser, good, bad, apps

AllThreads == {app, menu, browser}
OnlyApp == {app}
AllNames == {good, bad, apps}
Loadable == {good}
=============================================================================
