------------------------------ MODULE MCIarBus ------------------------------
(***************************************************************************)
(* Constants for model checking IarBus: the descriptors 4 and 5 give the   *)
(* dynamic addresses 0x404 and 0x405, which 0xc05 reaches both.            *)
(***************************************************************************)
EXTENDS IarBus

CONSTANTS c1, c2

MCFixed     == {0}                          \* base 0, sub-address 1
MCTo        == {BroadcastAddr, {MulticastFlag}, {DynFlag, MulticastFlag, 0, 2}}
MCNewAddr   == {MCFixed, {MulticastFlag, 0}}
MCNewStatus == {{"READ", "WRITE", "CON_MSG"}}
MCMcastList == {<<MCFixed, DynAddr[4]>>}
MCMaxSend   == (c1 :> 2) @@ (c2 :> 1)
=============================================================================
