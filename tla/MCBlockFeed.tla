---------------------------- MODULE MCBlockFeed -----------------------------
(***************************************************************************)
(* Instances of BlockFeed for TLC: height 3 is skipped by the chain, two   *)
(* heights are caught up per round, and a block has one chunk more than are*)
(* fetched at a time.                                                      *)
(***************************************************************************)
EXTENDS BlockFeed

CONSTANTS k1, k2, k3

MCChain  == {1, 2, 4, 5}
MCChunks == <<k1, k2, k3>>

RpcNative == [source |-> "rpc", native |-> TRUE]
MCNative  == {RpcNative}
MCConfs   == {RpcNative, [source |-> "rpc", native |-> FALSE],
              [source |-> "ws", fetchBlocks |-> TRUE],
              [source |-> "ws", fetchBlocks |-> FALSE]}
=============================================================================
