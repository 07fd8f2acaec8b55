---------------------------- MODULE MCAnchoring ----------------------------
(***************************************************************************)
(* Instances of the analytics chain for TLC: three accounts, two roots, and *)
(* payloads that pass and that fail each check.                            *)
(***************************************************************************)
EXTENDS AnchoringProperties

Payload(merkleRoot, startBlock, endBlock, eventCount, timestamp) ==
    [merkleRoot |-> merkleRoot, startBlock |-> startBlock,
     endBlock |-> endBlock, eventCount |-> eventCount,
     timestamp |-> timestamp, chainId |-> "substrate-operational-01"]

CONSTANTS RootA, RootB

\* Two windows under RootA that differ, one under RootB older than both, and
\* one payload for each check that refuses it.
MCPayloads ==
    {Payload(RootA, 1, 2, 3, 20), Payload(RootA, 1, 3, 4, 30),
     Payload(RootB, 0, 0, 1, 10),
     Payload(ZeroRoot, 1, 2, 3, 20), Payload(RootB, 1, 2, 0, 20),
     Payload(RootB, 2, 1, 1, 20)}
=============================================================================
