---------------------------- MODULE MCSealExchange ----------------------------
(* Values for SealExchange's constants. *)
EXTENDS SealExchange

CONSTANTS p1, p2

m1 == <<"m1">>
m2 == <<"m2">>
MCMpcs == {m1, m2}
MCLeafHash == <<"leaf">>
MCJunk == <<"junk">>

MCPqScripts == {<<"pq", p1>>, <<"pq", p2>>}
MCOversized == {<<"pq", p2>>}
MCScripts == {CommitmentLeafScript("regtest", m1), CommitmentLeafScript("testnet", m1),
              MultiProtocolLeaf("regtest", m1, 0),
              TrailedLeafScript("testnet", m2)}
MCTxids == {<<1, 2>>}
MCOthers == {[chain |-> "regtest", txid |-> <<1, 2>>, vout |-> 2],
             [chain |-> "regtest", txid |-> <<1, 3>>, vout |-> 1],
             [chain |-> "testnet", txid |-> <<1, 2>>, vout |-> 1]}
=============================================================================
