----------------------------- MODULE RateLimit -----------------------------
(***************************************************************************)
(* Throttling of the sign-in routes: every event against a key, an account  *)
(* or a client address, is counted in Redis or, when Redis does not answer, *)
(* in the memory of the instance that serves the request.                   *)
(*                                                                         *)
(* INCR and EXPIRE are one Redis transaction, and the memory is under a     *)
(* mutex: counting an event is one step.                                    *)
(***************************************************************************)
EXTENDS Integers, Sequences

CONSTANTS
  Instances,    \* bound: API instances
  Keys,
  Limit,        \* events a window allows, by key
  Window,       \* its length, by key
  MaxClock,     \* bound: the last instant
  MaxCount      \* bound: events a counter counts

ASSUME RateLimitAssumption ==
  /\ Limit \in [Keys -> Nat]
  /\ Window \in [Keys -> Nat]
  /\ MaxClock \in Nat /\ MaxCount \in Nat

VARIABLES
  clock,
  redis,      \* the counters in Redis
  limiter,    \* what each instance counts in; "none" while it is not running
  memory,     \* its counters in memory
  allowed,    \* history: the instants of the events Redis allowed, by key
  local,      \* history: those of the events each running instance allowed itself
  tried       \* history: the last instant each key was tried

vars == <<clock, redis, limiter, memory, allowed, local, tried>>

NoCounter == [count |-> 0, until |-> 0]
NoEvents == [k \in Keys |-> <<>>]

(* A counter is good up to and including its last instant. *)
Expired(counter) == clock > counter.until

(* The expiry is set on every call.  Mutants: only on the first, and by a *)
(* second call that may not come. *)
UntilOfFirst(k, counter) == IF Expired(counter) THEN clock + Window[k] ELSE counter.until
NeverOnFirst(k, counter) == IF Expired(counter) THEN MaxClock ELSE clock + Window[k]
Until(k, counter) == clock + Window[k]

Incr(k) == [count |-> IF Expired(redis[k]) THEN 1 ELSE redis[k].count + 1,
            until |-> Until(k, redis[k])]

(* In memory the window is fixed by its first event. *)
Entry(p, k) ==
  LET entry == memory[p][k]
  IN  IF Expired(entry) THEN [count |-> 1, until |-> clock + Window[k]]
      ELSE [entry EXCEPT !.count = @ + 1]

(* Within the limit. *)
Within(k, counter) == counter.count <= Limit[k]

Note(history, k) == [history EXCEPT ![k] = Append(@, clock)]

-----------------------------------------------------------------------------
(* An instance starts with an empty memory, and counts in Redis if it is *)
(* configured and answers then. *)
NewLimiter(p) ==
  /\ limiter[p] = "none"
  /\ \E choice \in {"redis", "memory"} : limiter' = [limiter EXCEPT ![p] = choice]
  /\ memory' = [memory EXCEPT ![p] = [k \in Keys |-> NoCounter]]
  /\ local' = [local EXCEPT ![p] = NoEvents]
  /\ UNCHANGED <<clock, redis, allowed, tried>>

Stop(p) ==
  /\ limiter[p] # "none"
  /\ limiter' = [limiter EXCEPT ![p] = "none"]
  /\ UNCHANGED <<clock, redis, memory, allowed, local, tried>>

CountInRedis(k) ==
  /\ redis[k].count < MaxCount \/ Expired(redis[k])
  /\ redis' = [redis EXCEPT ![k] = Incr(k)]

CountInMemory(p, k) ==
  /\ memory[p][k].count < MaxCount \/ Expired(memory[p][k])
  /\ memory' = [memory EXCEPT ![p][k] = Entry(p, k)]
  /\ local' = [local EXCEPT ![p] = IF Within(k, Entry(p, k)) THEN Note(@, k) ELSE @]

Try(k) == tried' = [tried EXCEPT ![k] = clock]

(* Redis answers. *)
Allow(p, k) ==
  /\ limiter[p] = "redis"
  /\ CountInRedis(k)
  /\ allowed' = IF Within(k, Incr(k)) THEN Note(allowed, k) ELSE allowed
  /\ Try(k)
  /\ UNCHANGED <<clock, limiter, memory, local>>

(* Redis fails, after the transaction or before it, and the instance counts *)
(* for itself; without Redis it always does. *)
Fallback(p, k) ==
  /\ limiter[p] # "none"
  /\ \/ limiter[p] = "redis" /\ CountInRedis(k)
     \/ UNCHANGED redis
  /\ CountInMemory(p, k)
  /\ Try(k)
  /\ UNCHANGED <<clock, limiter, allowed>>

(* Mutant: every window is discarded. *)
Everything(p) == Keys
Stale(p) == {k \in Keys : Expired(memory[p][k])}

Sweep(p) ==
  /\ limiter[p] # "none"
  /\ memory' = [memory EXCEPT ![p] =
                  [k \in Keys |-> IF k \in Stale(p) THEN NoCounter ELSE @[k]]]
  /\ UNCHANGED <<clock, redis, limiter, allowed, local, tried>>

Tick ==
  /\ clock < MaxClock
  /\ clock' = clock + 1
  /\ UNCHANGED <<redis, limiter, memory, allowed, local, tried>>

-----------------------------------------------------------------------------
Init ==
  /\ clock = 1
  /\ redis = [k \in Keys |-> NoCounter]
  /\ limiter = [p \in Instances |-> "none"]
  /\ memory = [p \in Instances |-> [k \in Keys |-> NoCounter]]
  /\ allowed = NoEvents
  /\ local = [p \in Instances |-> NoEvents]
  /\ tried = [k \in Keys |-> 0]

Next ==
  \/ \E p \in Instances : NewLimiter(p) \/ Stop(p) \/ Sweep(p)
  \/ \E p \in Instances, k \in Keys : Allow(p, k) \/ Fallback(p, k)
  \/ Tick

Spec == Init /\ [][Next]_vars

-----------------------------------------------------------------------------
(* What the limits promise. *)

(* No stretch of time of the given length has more than n of the events: the *)
(* one that comes n after another comes later than that.                    *)
AtMost(n, events, length) ==
  \A i \in 1 .. Len(events) - n : events[i + n] > events[i] + length

(* "The limit holds across a restart and across instances": whichever of them *)
(* ask, start and stop, Redis allows a key no more than the limit in any      *)
(* stretch of time as long as the window.                                    *)
RedisLimitHolds == \A k \in Keys : AtMost(Limit[k], allowed[k], Window[k])

(* "Degraded beats disabled": an instance that counts for itself allows the *)
(* limit in each of its windows, so no more than twice the limit in any      *)
(* stretch of time as long as one.                                          *)
MemoryLimitHolds ==
  \A p \in Instances, k \in Keys :
    LET events == local[p][k]
        begun == memory[p][k].until - Window[k]
    IN  /\ ~ Expired(memory[p][k]) =>
             \A i \in 1 .. Len(events) - Limit[k] : events[i] < begun
        /\ AtMost(2 * Limit[k], events, Window[k])

(* "A key with no TTL ... would ban the account permanently": a key nobody has *)
(* tried for a window starts afresh, wherever it is counted.                  *)
NobodyIsBanned ==
  \A k \in Keys :
    clock > tried[k] + Window[k] =>
      /\ Expired(redis[k])
      /\ \A p \in Instances : Expired(memory[p][k])
=============================================================================
