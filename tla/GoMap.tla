------------------------------- MODULE GoMap --------------------------------
(***************************************************************************)
(* Go's built-in maps, as the limiters of WiseGuard use them: a map from   *)
(* keys to values is a function whose domain is the set of keys present.   *)
(***************************************************************************)

EmptyMap == [k \in {} |-> k]

\* m[key] = value
Put(m, key, value) ==
    [k \in DOMAIN m \cup {key} |-> IF k = key THEN value ELSE m[k]]

\* for k := range m { if !keep(k) { delete(m, k) } }
Retain(m, Keep) == [k \in DOMAIN m \cap Keep |-> m[k]]

\* delete(m, key), which does nothing when the key is absent
Delete(m, key) == [k \in DOMAIN m \ {key} |-> m[k]]

\* All maps with keys in Keys and values in Values.
MapsOf(Keys, Values) == UNION {[Present -> Values] : Present \in SUBSET Keys}
=============================================================================
