------------------------------ MODULE MCRpcPool ------------------------------
(***************************************************************************)
(* Two bots with a main coroutine each, one of them with a pair.           *)
(***************************************************************************)
EXTENDS RpcPool, TLC

CONSTANTS a, b, aMain, aPair, bMain

MCBots == {a, b}
MCCallers == {aMain, aPair, bMain}
MCMains == {aMain, bMain}
MCBotOf == (aMain :> a) @@ (aPair :> a) @@ (bMain :> b)
=============================================================================
