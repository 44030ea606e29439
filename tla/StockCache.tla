------------------------------ MODULE StockCache ------------------------------
(***************************************************************************)
(* The Redis side (internal/repository/redis/redis_repository.go): the     *)
(* stock counter of the product and the per-user purchase lock.  Each      *)
(* operation is one Redis command, or one Lua script, and so atomic; what  *)
(* the caller learns of it is the business of OrderPipeline.               *)
(*                                                                         *)
(* A missing stock key reads as 0 in the script, in GetStock and in        *)
(* INCRBY, so it is not told apart from 0.                                 *)
(***************************************************************************)
EXTENDS Orders

CONSTANT NoToken

ASSUME NoTokenAssumption == NoToken \notin OrderIDs

VARIABLES cacheStock,      \* product:<id>:stock
          lock             \* lock:user:<u>:product:<id>:lock, or NoToken

cacheVars == <<cacheStock, lock>>

CacheTypeOK ==
    /\ cacheStock \in Nat
    /\ lock \in [Users -> OrderIDs \cup {NoToken}]

CacheInit ==
    /\ cacheStock = 0
    /\ lock = [u \in Users |-> NoToken]

-----------------------------------------------------------------------------
PrewarmStock(n) ==
    /\ cacheStock' = n
    /\ UNCHANGED lock

(* Mutant: DECRBY without the comparison.                                   *)
AfterBlindDecrement(stock, q) == stock - q

(* What one run of atomicDecrementLuaScript leaves of the counter.          *)
AfterDecrement(stock, q) == IF stock >= q THEN stock - q ELSE stock

(* Mutant: the comparison is with nothing left, not with the quantity.      *)
DecrementWhileAny(q, ok) ==
    /\ ok = (cacheStock > 0)
    /\ cacheStock' = IF cacheStock >= q THEN cacheStock - q ELSE 0
    /\ UNCHANGED lock

(* EVAL of the script; ok is its integer reply.                             *)
DecrementStockAtomic(q, ok) ==
    /\ ok = (cacheStock >= q)
    /\ cacheStock' = AfterDecrement(cacheStock, q)
    /\ UNCHANGED lock

(* The client lost the first reply and sent EVAL again: ok is the second    *)
(* reply.  One repetition is the bound on the client's retries.             *)
DecrementStockTwice(q, ok) ==
    LET once == AfterDecrement(cacheStock, q)
    IN  /\ ok = (once >= q)
        /\ cacheStock' = AfterDecrement(once, q)
        /\ UNCHANGED lock

(* INCRBY, applied times times.                                             *)
IncrementStock(q, times) ==
    /\ cacheStock' = cacheStock + times * q
    /\ UNCHANGED lock

(* Mutant: SET instead of SETNX.                                            *)
OverwriteLock(u, token, ok) ==
    /\ ok = TRUE
    /\ lock' = [lock EXCEPT ![u] = token]
    /\ UNCHANGED cacheStock

(* SETNX with a time to live; ok is its reply.                              *)
AcquireLock(u, token, ok) ==
    /\ ok = (lock[u] = NoToken)
    /\ lock' = IF ok THEN [lock EXCEPT ![u] = token] ELSE lock
    /\ UNCHANGED cacheStock

(* Mutant: a plain DEL.                                                     *)
ReleaseAnyLock(u, token) ==
    /\ lock' = [lock EXCEPT ![u] = NoToken]
    /\ UNCHANGED cacheStock

(* releaseLockLuaScript: the key goes only if it holds the caller's token.  *)
ReleaseLock(u, token) ==
    /\ lock' = IF lock[u] = token THEN [lock EXCEPT ![u] = NoToken] ELSE lock
    /\ UNCHANGED cacheStock

(* The time to live of the lock key ends.                                   *)
ExpireLock(u) ==
    /\ lock[u] # NoToken
    /\ lock' = [lock EXCEPT ![u] = NoToken]
    /\ UNCHANGED cacheStock

(* Redis restarts without its data.                                         *)
FlushCache ==
    /\ cacheStock' = 0
    /\ lock' = [u \in Users |-> NoToken]
=============================================================================
