------------------------------ MODULE RedisOps ------------------------------
(***************************************************************************)
(* The Redis commands the components issue, on the values of the keys:    *)
(* a sorted set is a function from member to score, a hash a function      *)
(* from field to value, a list a sequence whose head is index 0 of LRANGE. *)
(***************************************************************************)
EXTENDS Naturals, Sequences, SequencesExt

Zadd(z, e, score) == (e :> score) @@ z
Zrem(z, e) == Restrict(z, DOMAIN z \ {e})
Hset(h, k, v) == (k :> v) @@ h
Hdel(h, k) == Restrict(h, DOMAIN h \ {k})

(* LPUSH and RPUSH of one element. *)
Lpush(l, v) == <<v>> \o l
Rpush(l, v) == Append(l, v)

(* LREM l 1 v: the first occurrence of v, counted from the head, removed. *)
Lrem1(l, v) == RemoveFirst(l, v)

(* LRANGE l 0 n-1. *)
Lrange(l, n) == SubSeq(l, 1, IF Len(l) < n THEN Len(l) ELSE n)
=============================================================================
