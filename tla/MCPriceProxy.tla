---------------------------- MODULE MCPriceProxy ----------------------------
(***************************************************************************)
(* Two symbols of different market types; one bot asks for both, another   *)
(* for one of them.                                                        *)
(***************************************************************************)
EXTENDS PriceProxy, TLC

CONSTANTS btc, block, maker, seller

MCSymbols == {btc, block}
MCTypeOf == (btc :> "spot") @@ (block :> "swap")
MCClients == {maker, seller}
MCWanted == (maker :> MCSymbols) @@ (seller :> {block})
=============================================================================
