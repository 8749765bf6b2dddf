---------------------------- MODULE MCRpcSession ----------------------------
(* Instances of RpcSession for TLC.                                        *)
EXTENDS RpcSession, TLC

AllOwners == {"Usb", "Uart", "Ble"}
=============================================================================
