-------------------------- MODULE RateLimitProofs --------------------------
(***************************************************************************)
(* The limits hold for any number of instances and keys, any limits and      *)
(* windows, however long the service runs.                                  *)
(*                                                                         *)
(* A counter has a current run of events, those it has counted since it last *)
(* began at one.  RedisInv says that the events before the run are more than *)
(* a window older than anything in it; MemoryInv, whose windows follow each  *)
(* other, that those before the run and the last full window are.           *)
(***************************************************************************)
EXTENDS RateLimit, SequenceTheorems, TLAPS

Counter == [count : Nat, until : Nat]

TypeOK ==
  /\ clock \in Nat \ {0}
  /\ redis \in [Keys -> Counter]
  /\ memory \in [Instances -> [Keys -> Counter]]
  /\ allowed \in [Keys -> Seq(Nat)]
  /\ local \in [Instances -> [Keys -> Seq(Nat)]]
  /\ tried \in [Keys -> Nat]

(* All but the last m of the events are more than a length older than now, *)
(* and than each of the last m.                                            *)
Apart(events, m, length, now) ==
  /\ m \in 0 .. Len(events)
  /\ \A i \in 1 .. Len(events) - m :
       /\ events[i] + length < now
       /\ \A j \in Len(events) - m + 1 .. Len(events) : events[j] > events[i] + length

(* All but the last m of the events came before an instant, and all but the *)
(* last m and n before them more than a length before it.                   *)
Behind(events, m, n, length, instant) ==
  /\ m \in 0 .. Len(events)
  /\ \A i \in 1 .. Len(events) - m : events[i] < instant
  /\ \A i \in 1 .. Len(events) - m - n : events[i] + length < instant

RedisInv(k) ==
  /\ AtMost(Limit[k], allowed[k], Window[k])
  /\ \A i \in DOMAIN allowed[k] :
       allowed[k][i] <= clock /\ allowed[k][i] + Window[k] <= redis[k].until
  /\ \E m \in 0 .. Limit[k] :
       m <= redis[k].count /\ Apart(allowed[k], m, Window[k], clock)

MemoryInv(p, k) ==
  LET events == local[p][k]
      entry == memory[p][k]
      begun == entry.until - Window[k]
  IN  /\ AtMost(2 * Limit[k], events, Window[k])
      /\ \A i \in DOMAIN events : events[i] <= clock
      /\ IF Expired(entry)
           THEN Behind(events, 0, Limit[k], Window[k], clock)
           ELSE /\ begun <= clock
                /\ \E m \in 0 .. Limit[k] :
                     m <= entry.count /\ Behind(events, m, Limit[k], Window[k], begun)

(* No counter outlives the last attempt by more than a window. *)
ExpiresInTime ==
  \A k \in Keys : /\ tried[k] <= clock
                  /\ redis[k].until <= tried[k] + Window[k]
                  /\ \A p \in Instances : memory[p][k].until <= tried[k] + Window[k]

LimiterInv ==
  /\ TypeOK /\ ExpiresInTime
  /\ \A k \in Keys : RedisInv(k) /\ \A p \in Instances : MemoryInv(p, k)

-----------------------------------------------------------------------------
(* Lemmas about histories. *)

(* One more event joins the current run. *)
LEMMA ApartAppend ==
  ASSUME NEW a \in Seq(Nat), NEW m \in Nat, NEW w \in Nat, NEW t \in Nat, Apart(a, m, w, t)
  PROVE  Apart(Append(a, t), m + 1, w, t)
<1> DEFINE b == Append(a, t)
<1>1. /\ Len(a) \in Nat /\ Len(b) = Len(a) + 1
      /\ \A i \in 1 .. Len(a) : b[i] = a[i] /\ a[i] \in Nat
      /\ b[Len(a) + 1] = t
  BY AppendProperties
<1>2. /\ m \in 0 .. Len(a)
      /\ \A i \in 1 .. Len(a) - m :
           /\ a[i] + w < t
           /\ \A j \in Len(a) - m + 1 .. Len(a) : a[j] > a[i] + w
  BY DEF Apart
<1>3. m + 1 \in 0 .. Len(b) /\ Len(b) - (m + 1) = Len(a) - m
  BY <1>1, <1>2
<1>4. ASSUME NEW i \in 1 .. Len(a) - m
      PROVE  /\ b[i] + w < t
             /\ \A j \in Len(a) - m + 1 .. Len(b) : b[j] > b[i] + w
  <2>1. i \in 1 .. Len(a) /\ b[i] = a[i] /\ a[i] + w < t
    BY <1>1, <1>2
  <2>2. ASSUME NEW j \in Len(a) - m + 1 .. Len(b)
        PROVE  b[j] > b[i] + w
    <3>1. CASE j = Len(a) + 1
      BY <3>1, <2>1, <1>1
    <3>2. CASE j # Len(a) + 1
      <4>1. /\ m \in Nat /\ m <= Len(a) /\ Len(a) \in Nat
            /\ j \in Int /\ j >= Len(a) - m + 1 /\ j <= Len(a) + 1
        BY <1>1, <1>2
      <4>2. j \in Len(a) - m + 1 .. Len(a) /\ j \in 1 .. Len(a)
        BY <3>2, <4>1
      <4> QED BY <4>2, <2>1, <1>1, <1>2
    <3> QED BY <3>1, <3>2
  <2> QED BY <2>1, <2>2
<1> HIDE DEF b
<1>5. Apart(b, m + 1, w, t)
  BY <1>1, <1>3, <1>4 DEF Apart
<1> QED BY <1>5 DEF b

(* A run that is apart stays so as time goes on. *)
LEMMA ApartLater ==
  ASSUME NEW a \in Seq(Nat), NEW m \in Nat, NEW w \in Nat, NEW t \in Nat, NEW u \in Nat,
         u >= t, Apart(a, m, w, t)
  PROVE  Apart(a, m, w, u)
BY DEF Apart

(* A run that begins now is apart from events whose window is over. *)
LEMMA ApartAfresh ==
  ASSUME NEW a \in Seq(Nat), NEW w \in Nat, NEW t \in Nat, NEW u \in Nat, t > u,
         \A i \in DOMAIN a : a[i] + w <= u
  PROVE  Apart(a, 0, w, t)
<1>1. Len(a) \in Nat /\ \A i \in 1 .. Len(a) : a[i] \in Nat /\ a[i] + w <= u
  OBVIOUS
<1>2. 0 \in 0 .. Len(a) /\ Len(a) - 0 = Len(a) /\ Len(a) + 1 .. Len(a) = {}
  BY <1>1
<1>3. \A i \in 1 .. Len(a) : a[i] + w < t
  BY <1>1
<1> QED BY <1>2, <1>3 DEF Apart

(* One more event leaves no stretch with too many, if the event n before it *)
(* is more than the length older.                                          *)
LEMMA AtMostAppend ==
  ASSUME NEW a \in Seq(Nat), NEW n \in Nat, NEW w \in Nat, NEW t \in Nat, n > 0,
         AtMost(n, a, w), \A i \in 1 .. Len(a) + 1 - n : a[i] + w < t
  PROVE  AtMost(n, Append(a, t), w)
<1> DEFINE b == Append(a, t)
<1>1. /\ Len(a) \in Nat /\ Len(b) = Len(a) + 1
      /\ \A i \in 1 .. Len(a) : b[i] = a[i] /\ a[i] \in Nat
      /\ b[Len(a) + 1] = t
  BY AppendProperties
<1>2. \A i \in 1 .. Len(a) - n : a[i + n] > a[i] + w
  BY DEF AtMost
<1>3. ASSUME NEW i \in 1 .. Len(b) - n
      PROVE  b[i + n] > b[i] + w
  <2>1. i \in 1 .. Len(a) /\ b[i] = a[i] /\ a[i] \in Nat
    BY <1>1
  <2>2. CASE i + n = Len(a) + 1
    <3>1. a[i] + w < t
      BY <1>1, <2>2
    <3> QED BY <1>1, <2>1, <2>2, <3>1
  <2>3. CASE i + n # Len(a) + 1
    <3>1. i \in 1 .. Len(a) - n /\ i + n \in 1 .. Len(a)
      BY <1>1, <2>3
    <3> QED BY <1>1, <1>2, <2>1, <3>1
  <2> QED BY <2>2, <2>3
<1> HIDE DEF b
<1>4. AtMost(n, b, w)
  BY <1>3 DEF AtMost
<1> QED BY <1>4 DEF b

(* One more event joins the window in memory. *)
LEMMA BehindAppend ==
  ASSUME NEW a \in Seq(Nat), NEW m \in Nat, NEW n \in Nat, NEW w \in Nat, NEW t \in Nat,
         NEW begun \in Int, Behind(a, m, n, w, begun)
  PROVE  Behind(Append(a, t), m + 1, n, w, begun)
<1> DEFINE b == Append(a, t)
<1>1. /\ Len(a) \in Nat /\ Len(b) = Len(a) + 1
      /\ \A i \in 1 .. Len(a) : b[i] = a[i]
  BY AppendProperties
<1>2. /\ m \in 0 .. Len(a)
      /\ \A i \in 1 .. Len(a) - m : a[i] < begun
      /\ \A i \in 1 .. Len(a) - m - n : a[i] + w < begun
  BY DEF Behind
<1>3. /\ m + 1 \in 0 .. Len(b)
      /\ Len(b) - (m + 1) = Len(a) - m /\ Len(b) - (m + 1) - n = Len(a) - m - n
  BY <1>1, <1>2
<1>4. \A i \in 1 .. Len(a) - m : b[i] < begun
  BY <1>1, <1>2
<1>5. \A i \in 1 .. Len(a) - m - n : b[i] + w < begun
  BY <1>1, <1>2
<1> HIDE DEF b
<1>6. Behind(b, m + 1, n, w, begun)
  BY <1>3, <1>4, <1>5 DEF Behind
<1> QED BY <1>6 DEF b

(* The windows that have gone by are behind whatever begins now. *)
LEMMA BehindLater ==
  ASSUME NEW a \in Seq(Nat), NEW m \in Nat, NEW n \in Nat, NEW w \in Nat, NEW t \in Int,
         NEW begun \in Int, m <= n, Behind(a, m, n, w, begun), begun + w < t,
         \A i \in DOMAIN a : a[i] < t
  PROVE  Behind(a, 0, n, w, t)
<1>1. Len(a) \in Nat /\ \A i \in 1 .. Len(a) : a[i] \in Nat /\ a[i] < t
  OBVIOUS
<1>2. \A i \in 1 .. Len(a) - n : i \in 1 .. Len(a) - m /\ a[i] < begun
  BY <1>1 DEF Behind
<1>3. \A i \in 1 .. Len(a) - n : a[i] + w < t
  BY <1>1, <1>2
<1> QED BY <1>1, <1>3 DEF Behind

-----------------------------------------------------------------------------
(* Counting an event. *)

(* The sliding window in Redis, counted into: the event is let through. *)
LEMMA RedisAllows ==
  ASSUME NEW k \in Keys, LimiterInv, CountInRedis(k), Within(k, Incr(k)),
         allowed' = Note(allowed, k), clock' = clock
  PROVE  RedisInv(k)'
<1> DEFINE a == allowed[k]
           n == Limit[k]
           w == Window[k]
<1>1. /\ a \in Seq(Nat) /\ n \in Nat /\ w \in Nat /\ clock \in Nat
      /\ redis \in [Keys -> Counter] /\ redis[k].count \in Nat /\ redis[k].until \in Nat
      /\ Len(a) \in Nat /\ \A i \in DOMAIN a : i \in 1 .. Len(a) /\ a[i] \in Nat
  BY RateLimitAssumption DEF LimiterInv, TypeOK, Counter
<1>2. /\ AtMost(n, a, w)
      /\ \A i \in DOMAIN a : a[i] <= clock /\ a[i] + w <= redis[k].until
  BY DEF LimiterInv, RedisInv
<1>3. allowed'[k] = Append(a, clock)
  BY DEF Note, LimiterInv, TypeOK
<1>4. /\ redis'[k].until = clock + w
      /\ redis'[k].count = IF clock > redis[k].until THEN 1 ELSE redis[k].count + 1
      /\ redis'[k].count <= n
  BY <1>1 DEF CountInRedis, Incr, Until, Within, Expired
<1>5. PICK m \in 0 .. n : m + 1 <= redis'[k].count /\ Apart(a, m, w, clock)
  <2>1. CASE clock > redis[k].until
    <3>1. Apart(a, 0, w, clock)
      BY <1>1, <1>2, <2>1, ApartAfresh
    <3> QED BY <1>1, <1>4, <2>1, <3>1
  <2>2. CASE ~ clock > redis[k].until
    <3>1. PICK m \in 0 .. n : m <= redis[k].count /\ Apart(a, m, w, clock)
      BY DEF LimiterInv, RedisInv
    <3> QED BY <1>1, <1>4, <2>2, <3>1
  <2> QED BY <2>1, <2>2
<1>6. m + 1 \in 0 .. n /\ m \in Nat /\ n > 0
  BY <1>1, <1>4, <1>5
<1>7. Apart(Append(a, clock), m + 1, w, clock)
  BY <1>1, <1>5, <1>6, ApartAppend
<1>8. AtMost(n, Append(a, clock), w)
  <2>1. \A i \in 1 .. Len(a) + 1 - n : a[i] + w < clock
    BY <1>1, <1>5, <1>6 DEF Apart
  <2> QED BY <2>1, <1>1, <1>2, <1>6, AtMostAppend
<1>9. \A i \in DOMAIN Append(a, clock) :
         Append(a, clock)[i] <= clock /\ Append(a, clock)[i] + w <= clock + w
  <2>1. /\ Append(a, clock) \in Seq(Nat) /\ Len(Append(a, clock)) = Len(a) + 1
        /\ \A i \in 1 .. Len(a) : Append(a, clock)[i] = a[i]
        /\ Append(a, clock)[Len(a) + 1] = clock
    BY <1>1, AppendProperties
  <2>2. \A i \in DOMAIN Append(a, clock) : i \in 1 .. Len(a) \/ i = Len(a) + 1
    BY <1>1, <2>1
  <2> QED BY <1>1, <1>2, <2>1, <2>2
<1> HIDE DEF a, n, w
<1> QED
  BY <1>3, <1>4, <1>5, <1>6, <1>7, <1>8, <1>9 DEF RedisInv, a, n, w

(* The fixed window in memory, counted into.  It begins with this event or is *)
(* the one under way.                                                        *)
LEMMA MemoryCounts ==
  ASSUME NEW p \in Instances, NEW k \in Keys, LimiterInv, CountInMemory(p, k),
         clock' = clock
  PROVE  MemoryInv(p, k)'
<1> DEFINE a == local[p][k]
           n == Limit[k]
           w == Window[k]
           entry == memory[p][k]
           begun == memory'[p][k].until - w
<1>1. /\ a \in Seq(Nat) /\ n \in Nat /\ w \in Nat /\ clock \in Nat
      /\ memory[p] \in [Keys -> Counter] /\ entry.count \in Nat /\ entry.until \in Nat
      /\ Len(a) \in Nat /\ DOMAIN a = 1 .. Len(a) /\ \A i \in 1 .. Len(a) : a[i] \in Nat
  BY RateLimitAssumption DEF LimiterInv, TypeOK, Counter
<1>2. AtMost(2 * n, a, w) /\ \A i \in DOMAIN a : a[i] <= clock
  BY DEF LimiterInv, MemoryInv
<1>3. memory'[p][k] = Entry(p, k)
  BY <1>1 DEF CountInMemory, LimiterInv, TypeOK
<1>4. local'[p][k] = IF memory'[p][k].count <= n THEN Append(a, clock) ELSE a
  BY <1>1, <1>3 DEF CountInMemory, Within, Note, LimiterInv, TypeOK
<1>5. /\ memory'[p][k].count \in Nat /\ begun \in Int /\ begun <= clock
      /\ memory'[p][k].until \in Nat /\ memory'[p][k].until >= clock
  <2>1. CASE clock > entry.until
    BY <1>1, <1>3, <2>1 DEF Entry, Expired
  <2>2. CASE ~ clock > entry.until
    <3>1. entry.until - w <= clock
      BY <2>2 DEF LimiterInv, MemoryInv, Expired
    <3>2. memory'[p][k] = [entry EXCEPT !.count = @ + 1]
      BY <2>2, <1>3 DEF Entry, Expired
    <3>3. entry \in Counter
      BY <1>1
    <3> QED BY <1>1, <2>2, <3>1, <3>2, <3>3 DEF Counter
  <2> QED BY <2>1, <2>2
<1>6. PICK m \in 0 .. n : /\ Behind(a, m, n, w, begun)
                          /\ m + 1 <= memory'[p][k].count
  <2>1. CASE clock > entry.until
    <3>1. Behind(a, 0, n, w, clock)
      BY <2>1 DEF LimiterInv, MemoryInv, Expired
    <3>2. memory'[p][k] = [count |-> 1, until |-> clock + w]
      BY <2>1, <1>3 DEF Entry, Expired
    <3>3. begun = clock /\ memory'[p][k].count = 1
      BY <1>1, <3>2
    <3> QED BY <1>1, <3>1, <3>3
  <2>2. CASE ~ clock > entry.until
    <3>1. PICK m \in 0 .. n : m <= entry.count /\ Behind(a, m, n, w, entry.until - w)
      BY <2>2 DEF LimiterInv, MemoryInv, Expired
    <3>2. memory'[p][k] = [entry EXCEPT !.count = @ + 1]
      BY <2>2, <1>3 DEF Entry, Expired
    <3>3. entry \in Counter
      BY <1>1
    <3>4. memory'[p][k].count = entry.count + 1 /\ begun = entry.until - w
      BY <3>2, <3>3 DEF Counter
    <3> QED BY <1>1, <3>1, <3>4
  <2> QED BY <2>1, <2>2
<1> DEFINE b == local'[p][k]
           held == memory'[p][k].count
<1>7. /\ b = IF held <= n THEN Append(a, clock) ELSE a
      /\ m \in Nat /\ m <= n /\ m + 1 <= held /\ held \in Nat
  BY <1>1, <1>4, <1>5, <1>6
<1>8. ~ Expired(memory[p][k])'
  BY <1>1, <1>5 DEF Expired
<1>9. SUFFICES /\ AtMost(2 * n, b, w)
               /\ \A i \in DOMAIN b : b[i] <= clock
               /\ \E l \in 0 .. n : l <= held /\ Behind(b, l, n, w, begun)
  <2> HIDE DEF a, b, n, w, begun, held
  <2> QED BY <1>1, <1>5, <1>8 DEF MemoryInv, b, n, w, begun, held
<1> HIDE DEF a, b, n, w, begun, entry, held
<1>10. CASE held <= n
  <2>1. b = Append(a, clock) /\ m + 1 \in 0 .. n /\ n > 0
    BY <1>1, <1>7, <1>10
  <2>2. Behind(b, m + 1, n, w, begun)
    BY <1>1, <1>5, <1>6, <1>7, <2>1, BehindAppend
  <2>3. AtMost(2 * n, b, w)
    <3>1. \A i \in 1 .. Len(a) + 1 - 2 * n : i \in 1 .. Len(a) - m - n /\ i \in 1 .. Len(a)
      BY <1>1, <1>7, <2>1
    <3>2. \A i \in 1 .. Len(a) - m - n : a[i] + w < begun
      BY <1>6 DEF Behind
    <3>3. \A i \in 1 .. Len(a) + 1 - 2 * n : a[i] + w < clock
      BY <1>1, <1>5, <3>1, <3>2
    <3>4. 2 * n \in Nat /\ 2 * n > 0
      BY <1>1, <2>1
    <3> QED BY <1>1, <1>2, <2>1, <3>3, <3>4, AtMostAppend
  <2>4. \A i \in DOMAIN b : b[i] <= clock
    <3>1. /\ b \in Seq(Nat) /\ Len(b) = Len(a) + 1
          /\ \A i \in 1 .. Len(a) : b[i] = a[i]
          /\ b[Len(a) + 1] = clock /\ DOMAIN b = 1 .. Len(a) + 1
      BY <1>1, <2>1, AppendProperties
    <3>2. \A i \in DOMAIN b : i \in 1 .. Len(a) \/ i = Len(a) + 1
      BY <1>1, <3>1
    <3> QED BY <1>1, <1>2, <3>1, <3>2
  <2> QED BY <1>7, <2>1, <2>2, <2>3, <2>4
<1>11. CASE ~ held <= n
  <2>1. b = a /\ m <= held
    BY <1>7, <1>11
  <2> QED BY <1>2, <1>6, <2>1
<1> QED BY <1>10, <1>11

(* An event Redis counts and does not allow, or whose answer is lost. *)
LEMMA RedisRefuses ==
  ASSUME NEW k \in Keys, LimiterInv, CountInRedis(k), allowed'[k] = allowed[k],
         clock' = clock
  PROVE  RedisInv(k)'
<1> DEFINE a == allowed[k]
           n == Limit[k]
           w == Window[k]
<1>1. /\ a \in Seq(Nat) /\ n \in Nat /\ w \in Nat /\ clock \in Nat
      /\ redis \in [Keys -> Counter] /\ redis[k].count \in Nat /\ redis[k].until \in Nat
      /\ DOMAIN a = 1 .. Len(a) /\ Len(a) \in Nat /\ \A i \in 1 .. Len(a) : a[i] \in Nat
  BY RateLimitAssumption DEF LimiterInv, TypeOK, Counter
<1>2. /\ AtMost(n, a, w)
      /\ \A i \in 1 .. Len(a) : a[i] <= clock /\ a[i] + w <= redis[k].until
  BY <1>1 DEF LimiterInv, RedisInv
<1>3. /\ redis'[k].until = clock + w
      /\ redis'[k].count = IF clock > redis[k].until THEN 1 ELSE redis[k].count + 1
  BY <1>1 DEF CountInRedis, Incr, Until, Expired
<1>4. \E m \in 0 .. n : m <= redis'[k].count /\ Apart(a, m, w, clock)
  <2>1. CASE clock > redis[k].until
    <3>1. \A i \in DOMAIN a : a[i] + w <= redis[k].until
      BY <1>1, <1>2
    <3>2. Apart(a, 0, w, clock)
      BY <1>1, <2>1, <3>1, ApartAfresh
    <3> QED BY <1>1, <1>3, <2>1, <3>2
  <2>2. CASE ~ clock > redis[k].until
    <3>1. PICK m \in 0 .. n : m <= redis[k].count /\ Apart(a, m, w, clock)
      BY DEF LimiterInv, RedisInv
    <3> QED BY <1>1, <1>3, <2>2, <3>1
  <2> QED BY <2>1, <2>2
<1>5. \A i \in DOMAIN a : a[i] <= clock /\ a[i] + w <= redis'[k].until
  BY <1>1, <1>2, <1>3
<1> QED BY <1>2, <1>4, <1>5 DEF RedisInv

(* What is not counted into stays as it was. *)
LEMMA RedisSame ==
  ASSUME NEW k \in Keys, RedisInv(k), clock' = clock,
         redis'[k] = redis[k], allowed'[k] = allowed[k]
  PROVE  RedisInv(k)'
BY DEF RedisInv

LEMMA MemorySame ==
  ASSUME NEW p \in Instances, NEW k \in Keys, MemoryInv(p, k), clock' = clock,
         memory'[p][k] = memory[p][k], local'[p][k] = local[p][k]
  PROVE  MemoryInv(p, k)'
BY DEF MemoryInv, Expired

(* A window that is over may be discarded. *)
LEMMA MemorySwept ==
  ASSUME NEW p \in Instances, NEW k \in Keys, LimiterInv, clock' = clock,
         Expired(memory[p][k]), memory'[p][k] = NoCounter, local'[p][k] = local[p][k]
  PROVE  MemoryInv(p, k)'
<1>1. Expired(memory[p][k])'
  BY DEF LimiterInv, TypeOK, Expired, NoCounter
<1> QED BY <1>1 DEF LimiterInv, MemoryInv

(* Time passes over the windows. *)
LEMMA RedisTick ==
  ASSUME NEW k \in Keys, LimiterInv, Tick
  PROVE  RedisInv(k)'
<1> DEFINE a == allowed[k]
           w == Window[k]
<1>1. /\ a \in Seq(Nat) /\ w \in Nat /\ clock \in Nat /\ clock' \in Nat /\ clock' >= clock
      /\ \A i \in DOMAIN a : a[i] \in Nat
      /\ UNCHANGED <<redis, allowed>>
  BY RateLimitAssumption DEF LimiterInv, TypeOK, Tick
<1>2. \A i \in DOMAIN a : a[i] <= clock' /\ a[i] + w <= redis[k].until
  BY <1>1 DEF LimiterInv, RedisInv
<1>3. PICK m \in 0 .. Limit[k] : m <= redis[k].count /\ Apart(a, m, w, clock)
  BY DEF LimiterInv, RedisInv
<1>4. m \in Nat
  BY <1>3, RateLimitAssumption
<1>5. Apart(a, m, w, clock')
  BY <1>1, <1>3, <1>4, ApartLater
<1> QED BY <1>1, <1>2, <1>3, <1>5 DEF LimiterInv, RedisInv

LEMMA MemoryTick ==
  ASSUME NEW p \in Instances, NEW k \in Keys, LimiterInv, Tick
  PROVE  MemoryInv(p, k)'
<1> DEFINE a == local[p][k]
           n == Limit[k]
           w == Window[k]
           entry == memory[p][k]
           begun == entry.until - w
<1>1. /\ a \in Seq(Nat) /\ n \in Nat /\ w \in Nat /\ clock \in Nat /\ clock' = clock + 1
      /\ memory[p] \in [Keys -> Counter] /\ entry.until \in Nat /\ begun \in Int
      /\ DOMAIN a = 1 .. Len(a) /\ Len(a) \in Nat /\ \A i \in 1 .. Len(a) : a[i] \in Nat
      /\ UNCHANGED <<memory, local>>
  BY RateLimitAssumption DEF LimiterInv, TypeOK, Counter, Tick
<1>2. AtMost(2 * n, a, w) /\ \A i \in DOMAIN a : a[i] < clock' /\ a[i] <= clock'
  <2>1. AtMost(2 * n, a, w) /\ \A i \in DOMAIN a : a[i] <= clock
    BY DEF LimiterInv, MemoryInv
  <2> HIDE DEF a, n, w
  <2>2. \A i \in DOMAIN a : a[i] \in Nat
    BY <1>1
  <2>3. \A i \in DOMAIN a : a[i] < clock' /\ a[i] <= clock'
    BY <1>1, <2>1, <2>2
  <2> QED BY <2>1, <2>3
<1>3. CASE clock > entry.until
  <2>1. Behind(a, 0, n, w, clock)
    BY <1>3 DEF LimiterInv, MemoryInv, Expired
  <2>2. /\ 0 \in 0 .. Len(a)
        /\ \A i \in 1 .. Len(a) - 0 : i \in 1 .. Len(a) /\ a[i] < clock
        /\ \A i \in 1 .. Len(a) - 0 - n : i \in 1 .. Len(a) /\ a[i] + w < clock
    BY <1>1, <2>1 DEF Behind
  <2>4. Behind(a, 0, n, w, clock')
    <3> HIDE DEF a, n, w
    <3>1. \A i \in 1 .. Len(a) - 0 : a[i] < clock'
      BY <1>1, <2>2
    <3>2. \A i \in 1 .. Len(a) - 0 - n : a[i] + w < clock'
      BY <1>1, <2>2
    <3> QED BY <2>2, <3>1, <3>2 DEF Behind
  <2>3. Expired(memory[p][k])'
    BY <1>1, <1>3 DEF Expired
  <2> QED BY <1>1, <1>2, <2>3, <2>4 DEF MemoryInv
<1>4. CASE ~ clock > entry.until
  <2>1. begun <= clock
    BY <1>4 DEF LimiterInv, MemoryInv, Expired
  <2>2. PICK m \in 0 .. n : m <= entry.count /\ Behind(a, m, n, w, begun)
    BY <1>4 DEF LimiterInv, MemoryInv, Expired
  <2>3. CASE clock' > entry.until
    <3>1. m \in Nat /\ m <= n /\ begun + w < clock' /\ clock' \in Int
      BY <1>1, <2>2, <2>3
    <3>2. \A i \in DOMAIN a : a[i] < clock'
      BY <1>2
    <3> HIDE DEF a, n, w, begun
    <3>3. Behind(a, 0, n, w, clock')
      BY <1>1, <2>2, <3>1, <3>2, BehindLater
    <3>4. Expired(memory[p][k])'
      BY <1>1, <2>3 DEF Expired
    <3> QED BY <1>1, <1>2, <3>3, <3>4 DEF MemoryInv, a, n, w
  <2>4. CASE ~ clock' > entry.until
    <3>1. ~ Expired(memory[p][k])' /\ begun <= clock'
      BY <1>1, <2>1, <2>4 DEF Expired
    <3> QED BY <1>1, <1>2, <2>2, <3>1 DEF MemoryInv
  <2> QED BY <2>3, <2>4
<1> QED BY <1>3, <1>4

-----------------------------------------------------------------------------
(* The types and the expiries. *)

LEMMA TypesAndExpiries ==
  ASSUME TypeOK, ExpiresInTime, Next
  PROVE  TypeOK' /\ ExpiresInTime'
<1> USE RateLimitAssumption DEF TypeOK, ExpiresInTime, Counter
<1>0. ASSUME NEW l \in Keys
      PROVE  /\ clock \in Nat /\ tried[l] \in Nat /\ Window[l] \in Nat /\ tried[l] <= clock
             /\ redis[l].until \in Nat /\ redis[l].until <= tried[l] + Window[l]
             /\ \A q \in Instances : /\ memory[q][l].until \in Nat
                                    /\ memory[q][l].until <= tried[l] + Window[l]
  <2>1. redis[l] \in Counter /\ \A q \in Instances : memory[q][l] \in Counter
    OBVIOUS
  <2> QED BY <2>1
<1>1. ASSUME NEW k \in Keys, CountInRedis(k)
      PROVE  redis' \in [Keys -> Counter] /\ redis'[k].until = clock + Window[k]
             /\ \A l \in Keys \ {k} : redis'[l] = redis[l]
  BY <1>1 DEF CountInRedis, Incr, Until
<1>2. ASSUME NEW p \in Instances, NEW k \in Keys, CountInMemory(p, k)
      PROVE  /\ memory' \in [Instances -> [Keys -> Counter]]
             /\ local' \in [Instances -> [Keys -> Seq(Nat)]]
             /\ memory'[p][k].until <= clock + Window[k]
             /\ \A q \in Instances, l \in Keys :
                  q # p \/ l # k => memory'[q][l] = memory[q][l]
  <2>1. Entry(p, k) \in Counter
    <3>1. memory[p][k] \in Counter
      OBVIOUS
    <3> QED BY <3>1 DEF Entry
  <2>2. memory' \in [Instances -> [Keys -> Counter]] /\ memory'[p][k] = Entry(p, k)
    BY <1>2, <2>1 DEF CountInMemory
  <2>3. \A q \in Instances, l \in Keys :
          q # p \/ l # k => memory'[q][l] = memory[q][l]
    BY <1>2 DEF CountInMemory
  <2>4. local' \in [Instances -> [Keys -> Seq(Nat)]]
    <3>1. Note(local[p], k) \in [Keys -> Seq(Nat)]
      BY DEF Note
    <3> QED BY <1>2, <3>1 DEF CountInMemory
  <2>5. Entry(p, k).until <= clock + Window[k]
    <3>1. /\ memory[p][k] \in Counter /\ memory[p][k].until <= tried[k] + Window[k]
          /\ tried[k] \in Nat /\ tried[k] <= clock /\ Window[k] \in Nat
      OBVIOUS
    <3>2. CASE Expired(memory[p][k])
      BY <3>1, <3>2 DEF Entry
    <3>3. CASE ~ Expired(memory[p][k])
      <4>1. Entry(p, k).until = memory[p][k].until
        BY <3>1, <3>3 DEF Entry
      <4> QED BY <3>1, <4>1
    <3> QED BY <3>2, <3>3
  <2> QED BY <2>2, <2>3, <2>4, <2>5
<1>3. ASSUME NEW p \in Instances, NewLimiter(p)
      PROVE  TypeOK' /\ ExpiresInTime'
  BY <1>3 DEF NewLimiter, NoCounter, NoEvents
<1>4. ASSUME NEW p \in Instances, Stop(p)
      PROVE  TypeOK' /\ ExpiresInTime'
  BY <1>4 DEF Stop
<1>5. ASSUME NEW p \in Instances, Sweep(p)
      PROVE  TypeOK' /\ ExpiresInTime'
  BY <1>5 DEF Sweep, NoCounter
<1>6. ASSUME NEW k \in Keys, Try(k)
      PROVE  /\ tried' \in [Keys -> Nat] /\ tried'[k] = clock
             /\ \A l \in Keys \ {k} : tried'[l] = tried[l]
  BY <1>6 DEF Try
<1> HIDE RateLimitAssumption DEF TypeOK, ExpiresInTime, Counter
<1>7. ASSUME NEW p \in Instances, NEW k \in Keys, Allow(p, k)
      PROVE  TypeOK' /\ ExpiresInTime'
  <2>1. UNCHANGED <<clock, memory, local>> /\ CountInRedis(k) /\ Try(k)
    BY <1>7 DEF Allow
  <2>2. allowed' \in [Keys -> Seq(Nat)]
    BY <1>7 DEF Allow, Note, TypeOK
  <2>3. TypeOK'
    BY <2>1, <2>2, <1>1, <1>6 DEF TypeOK
  <2>4. ASSUME NEW l \in Keys
        PROVE  /\ tried'[l] <= clock' /\ redis'[l].until <= tried'[l] + Window[l]
               /\ \A q \in Instances : memory'[q][l].until <= tried'[l] + Window[l]
    <3>1. /\ clock \in Nat /\ tried[l] \in Nat /\ Window[l] \in Nat /\ tried[l] <= clock
          /\ redis[l].until \in Nat /\ redis[l].until <= tried[l] + Window[l]
          /\ \A q \in Instances : /\ memory[q][l].until \in Nat
                                 /\ memory[q][l].until <= tried[l] + Window[l]
      BY <1>0
    <3>2. /\ tried'[l] \in Nat /\ tried[l] <= tried'[l] /\ tried'[l] <= clock'
          /\ l = k => tried'[l] = clock
      BY <2>1, <3>1, <1>6
    <3>3. redis'[l].until = redis[l].until \/ (l = k /\ redis'[l].until = clock + Window[l])
      BY <2>1, <1>1
    <3>4. redis'[l].until <= tried'[l] + Window[l]
      BY <3>1, <3>2, <3>3
    <3>5. ASSUME NEW q \in Instances
          PROVE  memory'[q][l].until <= tried'[l] + Window[l]
      BY <2>1, <3>1, <3>2
    <3> QED BY <3>2, <3>4, <3>5
  <2> QED BY <2>3, <2>4 DEF ExpiresInTime
<1>9. ASSUME NEW p \in Instances, NEW k \in Keys, Fallback(p, k)
      PROVE  TypeOK' /\ ExpiresInTime'
  <2>1. /\ UNCHANGED <<clock, allowed>> /\ Try(k) /\ CountInMemory(p, k)
        /\ CountInRedis(k) \/ UNCHANGED redis
    BY <1>9 DEF Fallback
  <2>2. TypeOK'
    BY <2>1, <1>1, <1>2, <1>6 DEF TypeOK
  <2>3. ASSUME NEW l \in Keys
        PROVE  /\ tried'[l] <= clock' /\ redis'[l].until <= tried'[l] + Window[l]
               /\ \A q \in Instances : memory'[q][l].until <= tried'[l] + Window[l]
    <3>1. /\ clock \in Nat /\ tried[l] \in Nat /\ Window[l] \in Nat /\ tried[l] <= clock
          /\ redis[l].until \in Nat /\ redis[l].until <= tried[l] + Window[l]
          /\ \A q \in Instances : /\ memory[q][l].until \in Nat
                                 /\ memory[q][l].until <= tried[l] + Window[l]
      BY <1>0
    <3>2. /\ tried'[l] \in Nat /\ tried[l] <= tried'[l] /\ tried'[l] <= clock'
          /\ l = k => tried'[l] = clock
      BY <2>1, <3>1, <1>6
    <3>4. redis'[l].until <= tried'[l] + Window[l]
      <4>1. redis'[l].until = redis[l].until \/ (l = k /\ redis'[l].until = clock + Window[l])
        BY <2>1, <1>1
      <4> QED BY <3>1, <3>2, <4>1
    <3>3. ASSUME NEW q \in Instances
          PROVE  memory'[q][l].until <= tried'[l] + Window[l]
      <4>1. CASE q = p /\ l = k
        <5>1. memory'[p][k].until <= clock + Window[k]
          BY <2>1, <1>2
        <5> QED BY <3>2, <4>1, <5>1
      <4>2. CASE q # p \/ l # k
        <5>1. memory'[q][l] = memory[q][l]
          BY <2>1, <1>2, <4>2
        <5> QED BY <3>1, <3>2, <5>1
      <4> QED BY <4>1, <4>2
    <3> QED BY <3>2, <3>3, <3>4
  <2> QED BY <2>2, <2>3 DEF ExpiresInTime
<1>8. CASE Tick
  BY <1>0, <1>8 DEF Tick, TypeOK, ExpiresInTime
<1> QED BY <1>3, <1>4, <1>5, <1>7, <1>8, <1>9 DEF Next

-----------------------------------------------------------------------------
(* The counters. *)

LEMMA CountersAtFirst == Init => LimiterInv
<1> SUFFICES ASSUME Init PROVE LimiterInv
  OBVIOUS
<1> USE RateLimitAssumption DEF Init, NoCounter, NoEvents
<1>1. TypeOK
  BY DEF TypeOK, Counter
<1>2. ExpiresInTime
  BY DEF ExpiresInTime
<1>3. ASSUME NEW k \in Keys
      PROVE  RedisInv(k)
  <2>1. AtMost(Limit[k], <<>>, Window[k]) /\ Apart(<<>>, 0, Window[k], clock)
    BY DEF AtMost, Apart
  <2> QED BY <2>1 DEF RedisInv
<1>4. ASSUME NEW p \in Instances, NEW k \in Keys
      PROVE  MemoryInv(p, k)
  <2>1. AtMost(2 * Limit[k], <<>>, Window[k]) /\ Behind(<<>>, 0, Limit[k], Window[k], clock)
    BY DEF AtMost, Behind
  <2> QED BY <2>1 DEF MemoryInv, Expired
<1> QED BY <1>1, <1>2, <1>3, <1>4 DEF LimiterInv

(* An instance that starts again has counted nothing. *)
LEMMA MemoryAfresh ==
  ASSUME NEW p \in Instances, NEW k \in Keys, LimiterInv, clock' = clock,
         memory'[p][k] = NoCounter, local'[p][k] = <<>>
  PROVE  MemoryInv(p, k)'
<1>1. Limit[k] \in Nat /\ Window[k] \in Nat /\ clock \in Nat /\ clock > 0
  BY RateLimitAssumption DEF LimiterInv, TypeOK
<1>2. /\ AtMost(2 * Limit[k], <<>>, Window[k])
      /\ Behind(<<>>, 0, Limit[k], Window[k], clock)
  BY <1>1 DEF AtMost, Behind
<1>3. Expired(memory[p][k])'
  BY <1>1 DEF Expired, NoCounter
<1> QED BY <1>2, <1>3 DEF MemoryInv

LEMMA CountersKept == LimiterInv /\ [Next]_vars => LimiterInv'
<1> SUFFICES ASSUME LimiterInv, [Next]_vars PROVE LimiterInv'
  OBVIOUS
<1>1. CASE UNCHANGED vars
  BY <1>1 DEF LimiterInv, vars, TypeOK, ExpiresInTime, RedisInv, MemoryInv, Expired
<1>2. CASE Next
  <2>1. TypeOK' /\ ExpiresInTime'
    BY <1>2, TypesAndExpiries DEF LimiterInv
  <2>2. SUFFICES /\ \A k \in Keys : RedisInv(k)'
                 /\ \A q \in Instances, k \in Keys : MemoryInv(q, k)'
    BY <2>1 DEF LimiterInv
  <2>3. ASSUME UNCHANGED <<clock, redis, allowed>>
        PROVE  \A k \in Keys : RedisInv(k)'
    BY <2>3, RedisSame DEF LimiterInv
  <2>4. ASSUME NEW p \in Instances, NewLimiter(p)
        PROVE  \A q \in Instances, k \in Keys : MemoryInv(q, k)'
    <3> SUFFICES ASSUME NEW q \in Instances, NEW k \in Keys PROVE MemoryInv(q, k)'
      OBVIOUS
    <3>1. CASE q = p
      <4>1. clock' = clock /\ memory'[q][k] = NoCounter /\ local'[q][k] = <<>>
        BY <2>4, <3>1 DEF NewLimiter, NoEvents, LimiterInv, TypeOK
      <4> QED BY <4>1, MemoryAfresh
    <3>2. CASE q # p
      <4>1. clock' = clock /\ memory'[q][k] = memory[q][k] /\ local'[q][k] = local[q][k]
        BY <2>4, <3>2 DEF NewLimiter, LimiterInv, TypeOK
      <4> QED BY <4>1, MemorySame DEF LimiterInv
    <3> QED BY <3>1, <3>2
  <2>5. ASSUME UNCHANGED <<clock, memory, local>>
        PROVE  \A q \in Instances, k \in Keys : MemoryInv(q, k)'
    BY <2>5, MemorySame DEF LimiterInv
  <2>6. ASSUME NEW p \in Instances, Sweep(p)
        PROVE  \A q \in Instances, k \in Keys : MemoryInv(q, k)'
    <3> SUFFICES ASSUME NEW q \in Instances, NEW k \in Keys PROVE MemoryInv(q, k)'
      OBVIOUS
    <3>1. clock' = clock /\ local' = local
      BY <2>6 DEF Sweep
    <3>2. CASE q = p /\ Expired(memory[p][k])
      <4>1. memory'[p][k] = NoCounter
        BY <2>6, <3>2 DEF Sweep, Stale, LimiterInv, TypeOK
      <4> QED BY <3>1, <3>2, <4>1, MemorySwept
    <3>3. CASE ~ (q = p /\ Expired(memory[p][k]))
      <4>1. memory'[q][k] = memory[q][k]
        BY <2>6, <3>3 DEF Sweep, Stale, LimiterInv, TypeOK
      <4> QED BY <3>1, <4>1, MemorySame DEF LimiterInv
    <3> QED BY <3>2, <3>3
  <2>7. ASSUME NEW p \in Instances, NEW k \in Keys, Allow(p, k)
        PROVE  \A l \in Keys : RedisInv(l)'
    <3> SUFFICES ASSUME NEW l \in Keys PROVE RedisInv(l)'
      OBVIOUS
    <3>1. clock' = clock /\ CountInRedis(k)
      BY <2>7 DEF Allow
    <3>2. CASE l = k /\ Within(k, Incr(k))
      BY <2>7, <3>1, <3>2, RedisAllows DEF Allow
    <3>3. CASE l = k /\ ~ Within(k, Incr(k))
      <4>1. allowed' = allowed
        BY <2>7, <3>3 DEF Allow
      <4> QED BY <3>1, <3>3, <4>1, RedisRefuses
    <3>4. CASE l # k
      <4>1. redis'[l] = redis[l] /\ allowed'[l] = allowed[l]
        BY <2>7, <3>1, <3>4 DEF Allow, CountInRedis, Note, LimiterInv, TypeOK
      <4> QED BY <3>1, <4>1, RedisSame DEF LimiterInv
    <3> QED BY <3>2, <3>3, <3>4
  <2>8. ASSUME NEW p \in Instances, NEW k \in Keys, Fallback(p, k)
        PROVE  /\ \A l \in Keys : RedisInv(l)'
               /\ \A q \in Instances, l \in Keys : MemoryInv(q, l)'
    <3>1. /\ clock' = clock /\ allowed' = allowed /\ CountInMemory(p, k)
          /\ CountInRedis(k) \/ redis' = redis
      BY <2>8 DEF Fallback
    <3>2. ASSUME NEW l \in Keys PROVE RedisInv(l)'
      <4>1. CASE redis'[l] = redis[l]
        BY <3>1, <4>1, RedisSame DEF LimiterInv
      <4>2. CASE redis'[l] # redis[l]
        <5>1. l = k /\ CountInRedis(k)
          BY <3>1, <4>2 DEF CountInRedis, LimiterInv, TypeOK
        <5> QED BY <3>1, <5>1, RedisRefuses
      <4> QED BY <4>1, <4>2
    <3>3. ASSUME NEW q \in Instances, NEW l \in Keys PROVE MemoryInv(q, l)'
      <4>1. CASE q = p /\ l = k
        BY <3>1, <4>1, MemoryCounts
      <4>2. CASE q # p \/ l # k
        <5>1. memory'[q][l] = memory[q][l]
          BY <3>1, <4>2 DEF CountInMemory, LimiterInv, TypeOK
        <5>2. local'[q][l] = local[q][l]
          BY <3>1, <4>2 DEF CountInMemory, Note, LimiterInv, TypeOK
        <5> QED BY <3>1, <5>1, <5>2, MemorySame DEF LimiterInv
      <4> QED BY <4>1, <4>2
    <3> QED BY <3>2, <3>3
  <2>9. CASE \E p \in Instances : NewLimiter(p) \/ Stop(p) \/ Sweep(p)
    <3>1. UNCHANGED <<clock, redis, allowed>>
      BY <2>9 DEF NewLimiter, Stop, Sweep
    <3>2. CASE \E p \in Instances : Stop(p)
      BY <2>3, <2>5, <3>1, <3>2 DEF Stop
    <3> QED BY <2>9, <2>3, <2>4, <2>6, <3>1, <3>2
  <2>10. CASE \E p \in Instances, k \in Keys : Allow(p, k)
    BY <2>5, <2>7, <2>10 DEF Allow
  <2>11. CASE \E p \in Instances, k \in Keys : Fallback(p, k)
    BY <2>8, <2>11
  <2>12. CASE Tick
    BY <2>12, RedisTick, MemoryTick
  <2> QED BY <1>2, <2>9, <2>10, <2>11, <2>12 DEF Next
<1> QED BY <1>1, <1>2

LEMMA Counters == Spec => []LimiterInv
BY CountersAtFirst, CountersKept, PTL DEF Spec

-----------------------------------------------------------------------------
(* The limit holds across a restart and across instances: however many of   *)
(* them count in Redis, whatever answers are lost, a key is allowed no more  *)
(* than its limit in any stretch of time as long as its window             *)
(* (ratelimit.go, Redis.Allow).                                             *)
THEOREM RedisLimitKept == Spec => []RedisLimitHolds
<1>1. LimiterInv => RedisLimitHolds
  BY DEF LimiterInv, RedisInv, RedisLimitHolds
<1> QED BY <1>1, Counters, PTL

(* An instance that counts for itself allows a key no more than its limit in *)
(* the window under way, and no more than twice that in any stretch of time  *)
(* as long as a window (ratelimit.go, Memory.Allow).                         *)
THEOREM MemoryLimitKept == Spec => []MemoryLimitHolds
<1>1. ASSUME LimiterInv, NEW p \in Instances, NEW k \in Keys, ~ Expired(memory[p][k])
      PROVE  \A i \in 1 .. Len(local[p][k]) - Limit[k] :
               local[p][k][i] < memory[p][k].until - Window[k]
  <2>1. PICK m \in 0 .. Limit[k] :
          Behind(local[p][k], m, Limit[k], Window[k], memory[p][k].until - Window[k])
    BY <1>1 DEF LimiterInv, MemoryInv
  <2>2. local[p][k] \in Seq(Nat) /\ Limit[k] \in Nat
    BY <1>1, RateLimitAssumption DEF LimiterInv, TypeOK
  <2>3. \A i \in 1 .. Len(local[p][k]) - Limit[k] : i \in 1 .. Len(local[p][k]) - m
    BY <2>2
  <2> QED BY <2>1, <2>3 DEF Behind
<1>2. LimiterInv => MemoryLimitHolds
  BY <1>1 DEF LimiterInv, MemoryInv, MemoryLimitHolds
<1> QED BY <1>2, Counters, PTL

(* A key nobody has tried for a window starts afresh wherever it is counted: *)
(* no crash between a count and its expiry leaves one that never ends        *)
(* (ratelimit.go, the transaction of Redis.Allow).                           *)
THEOREM NobodyBanned == Spec => []NobodyIsBanned
<1>1. ASSUME LimiterInv PROVE NobodyIsBanned
  <2> SUFFICES ASSUME NEW k \in Keys, clock > tried[k] + Window[k]
               PROVE  /\ Expired(redis[k])
                      /\ \A p \in Instances : Expired(memory[p][k])
    BY DEF NobodyIsBanned
  <2>1. /\ clock \in Nat /\ tried[k] \in Nat /\ Window[k] \in Nat
        /\ redis[k] \in Counter /\ \A p \in Instances : memory[p][k] \in Counter
    BY <1>1, RateLimitAssumption DEF LimiterInv, TypeOK
  <2>2. /\ redis[k].until <= tried[k] + Window[k]
        /\ \A p \in Instances : memory[p][k].until <= tried[k] + Window[k]
    BY <1>1 DEF LimiterInv, ExpiresInTime
  <2> QED BY <2>1, <2>2 DEF Expired, Counter
<1> QED BY <1>1, Counters, PTL
=============================================================================
