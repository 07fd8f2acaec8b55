----------------------------- MODULE StorageMap -----------------------------
(***************************************************************************)
(* A key-value map held in chain storage, as a function whose domain is    *)
(* the set of keys present.  A key that was never written is outside the   *)
(* domain: the code's contains_key(k) is k \in DOMAIN map.                 *)
(***************************************************************************)

\* The map with no key, every StorageMap before its first write.
EmptyMap == [k \in {} |-> k]

\* map after insert(key, value): the value replaces an earlier one, if any.
Put(map, key, value) ==
    [k \in DOMAIN map \cup {key} |-> IF k = key THEN value ELSE map[k]]

\* A map from some of the keys in Keys to Values.
IsMap(map, Keys, Values) ==
    /\ DOMAIN map \subseteq Keys
    /\ map \in [DOMAIN map -> Values]
=============================================================================
