----------------------------- MODULE LockManager -----------------------------
(***************************************************************************)
(* The Lock Manager of spec 4.3 (its class is not under src/): one key     *)
(* holding the owner's random token with an expiry.  acquireLock is an     *)
(* atomic "set if absent" with a TTL; the blocking form retries until it   *)
(* succeeds, the non-blocking form (lockFN) answers LockContention.       *)
(* releaseLock is an atomic compare-and-delete on the token.  There is no *)
(* renewal.  A token is unique per acquisition; since each caller holds   *)
(* at most one acquisition at a time, the caller stands for its token.    *)
(* The operators take the key's value and the clock, so each component    *)
(* keeps its own lock variable.                                            *)
(***************************************************************************)
EXTENDS Naturals

CONSTANTS
    NoOwner,  \* the key is absent
    LockTTL   \* the ttl argument of acquireLock

ASSUME LockTTL \in Nat \ {0}

FreeLock == [owner |-> NoOwner, expiry |-> 0]

(* SET key token NX PX ttl succeeds: the key is absent or has expired. *)
LockFree(lk, t) == lk.owner = NoOwner \/ t >= lk.expiry

(* The key after a successful acquisition by c at time t. *)
Acquired(c, t) == [owner |-> c, expiry |-> t + LockTTL]

(* releaseLock: delete the key only if it still holds c's token. *)
Released(lk, c) == IF lk.owner = c THEN FreeLock ELSE lk
=============================================================================
