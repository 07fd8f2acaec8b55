-------------------------- MODULE WriteOnceRegistry --------------------------
(***************************************************************************)
(* What both chains promise of their registers: an entry is written once,  *)
(* under a key that had none, and stays as it was written.  The device     *)
(* registry of the operational chain (key: device id) and the anchoring    *)
(* records of the analytics chain (key: Merkle root) implement it.         *)
(***************************************************************************)
EXTENDS StorageMap

VARIABLE registry

Init == registry = EmptyMap

\* One fresh key is registered; every other entry stays as it is.
Register ==
    \E key \in DOMAIN registry' \ DOMAIN registry :
        registry' = Put(registry, key, registry'[key])

Spec == Init /\ [][Register]_registry
=============================================================================
