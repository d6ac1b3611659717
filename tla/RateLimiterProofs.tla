------------------------- MODULE RateLimiterProofs -------------------------
(***************************************************************************)
(* What the runs of the four rate limiters check on small instances, for   *)
(* every number of hosts and requests and every size, rate and limit that  *)
(* the assumptions allow: the two bucket limiters implement the ideal      *)
(* account, and the two window limiters count truly for a host whose       *)
(* requests do not overlap.                                                *)
(***************************************************************************)
EXTENDS MCRateLimiters, FiniteSetTheorems, TLAPS

-----------------------------------------------------------------------------
(* Arithmetic *)

LEMMA OneMoreTick ==
  ASSUME NEW n \in Int
  PROVE  (n + 1) * Rate = n * Rate + Rate
  BY TokenAssumption DEF TokenAssumption

\* What a bucket was idle for is enough to fill it.
LEMMA IdleLongEnough ==
  ASSUME NEW n \in Int, n > TTL
  PROVE  n * Rate \in Nat /\ n * Rate >= Capacity
  <1>1. /\ n \in Nat /\ TTL \in Nat /\ Rate \in Nat /\ Capacity \in Nat
        /\ TTL * Rate >= Capacity
    BY TokenAssumption DEF TokenAssumption
  <1>2. n * Rate = TTL * Rate + (n - TTL) * Rate
    BY <1>1
  <1>3. (n - TTL) * Rate \in Nat /\ TTL * Rate \in Nat
    BY <1>1
  <1>. QED  BY <1>1, <1>2, <1>3

-----------------------------------------------------------------------------
(* The token bucket *)

\* A bucket is the bucket of the host its creator asked for, and so is the one
\* a request has found.
TokenInv ==
  /\ TypeOK
  /\ \A r \in Requests : /\ buckets[r].lastRefill = buckets[r].lastSeen
                         /\ buckets[r].lastSeen <= now
  /\ sweep.now <= now
  /\ \A r \in Requests : request[r].pc = "found" =>
       /\ request[r].host \in Hosts /\ request[r].bucket \in Requests
       /\ request[request[r].bucket].host = request[r].host
       /\ request[request[r].bucket].pc # "idle"
  /\ \A h \in Hosts : store[h] # None =>
       /\ request[store[h]].host = h
       /\ request[store[h]].pc # "idle"

LEMMA RefilledType ==
  ASSUME TokenInv, NEW r \in Requests
  PROVE  /\ Refilled(buckets[r]) \in 0..Capacity
         /\ (now - buckets[r].lastRefill) \in Nat
         /\ (now - buckets[r].lastRefill) * Rate \in Nat
         /\ buckets[r] \in Bucket
  <1>1. buckets[r] \in Bucket /\ now \in Nat /\ buckets[r].lastRefill <= now
    BY DEF TokenInv, TypeOK
  <1>2. now - buckets[r].lastRefill \in Nat
    BY <1>1 DEF Bucket
  <1>3. (now - buckets[r].lastRefill) * Rate \in Nat
    BY <1>2, TokenAssumption DEF TokenAssumption
  <1>. QED  BY <1>1, <1>2, <1>3, TokenAssumption DEF Refilled, Bucket, TokenAssumption

LEMMA FullIsFull ==
  ASSUME now \in Nat
  PROVE  /\ FullBucket \in Bucket
         /\ FullBucket.tokens = Capacity
         /\ FullBucket.lastRefill = now /\ FullBucket.lastSeen = now
         /\ Refilled(FullBucket) = Capacity
  <1>1. /\ FullBucket \in Bucket
        /\ FullBucket.tokens = Capacity
        /\ FullBucket.lastRefill = now /\ FullBucket.lastSeen = now
    BY TokenAssumption DEF FullBucket, Bucket, TokenAssumption
  <1>2. (now - FullBucket.lastRefill) * Rate = 0
    BY <1>1, TokenAssumption DEF TokenAssumption
  <1>. QED  BY <1>1, <1>2, TokenAssumption DEF Refilled, TokenAssumption

LEMMA TokenInit == Init => TokenInv
  <1>. SUFFICES ASSUME Init  PROVE TokenInv
    OBVIOUS
  <1>1. now \in Nat
    BY DEF Init
  <1>. QED
    BY <1>1, FullIsFull, TokenAssumption
    DEF Init, TokenInv, TypeOK, Idle, Off, TokenAssumption

LEMMA TokenFind ==
  ASSUME TokenInv, NEW r \in Requests, NEW h \in Hosts, Find(r, h)
  PROVE  TokenInv' /\ Credit' = Credit
  <1>1. /\ request[r].pc = "idle"
        /\ IF store[h] = None
           THEN /\ store' = [store EXCEPT ![h] = r]
                /\ buckets' = [buckets EXCEPT ![r] = FullBucket]
           ELSE UNCHANGED <<store, buckets>>
        /\ request' = [request EXCEPT ![r] = [pc |-> "found", host |-> h, bucket |-> store'[h]]]
        /\ now' = now /\ sweep' = sweep
        /\ admitted' = admitted /\ refused' = refused /\ late' = late
    BY DEF Find, history
  <1>2. store'[h] \in Requests /\ TypeOK'
    BY <1>1, FullIsFull, TokenAssumption DEF TokenInv, TypeOK, TokenAssumption
  <1>3. \A q \in Requests : /\ buckets'[q].lastRefill = buckets'[q].lastSeen
                            /\ buckets'[q].lastSeen <= now'
    BY <1>1, FullIsFull DEF TokenInv, TypeOK
  <1>4. \A q \in Requests : q # r => request'[q] = request[q]
    BY <1>1 DEF TokenInv, TypeOK
  <1>5. /\ request'[r].pc = "found" /\ request'[r].host = h
        /\ request'[r].bucket = store'[h]
    BY <1>1 DEF TokenInv, TypeOK
  <1>6. \A g \in Hosts : store'[g] # None =>
          /\ store'[g] \in Requests
          /\ request'[store'[g]].host = g
          /\ request'[store'[g]].pc # "idle"
    BY <1>1, <1>2, <1>4, <1>5 DEF TokenInv, TypeOK
  <1>7. \A q \in Requests : request'[q].pc = "found" =>
          /\ request'[q].host \in Hosts /\ request'[q].bucket \in Requests
          /\ request'[request'[q].bucket].host = request'[q].host
          /\ request'[request'[q].bucket].pc # "idle"
    <2>1. CASE request[r].pc = "idle"
      BY <1>1, <1>2, <1>4, <1>5, <1>6, TokenAssumption DEF TokenInv, TypeOK, TokenAssumption
    <2>. QED  BY <1>1, <2>1
  <1>8. TokenInv'
    BY <1>1, <1>2, <1>3, <1>6, <1>7 DEF TokenInv
  <1>9. ASSUME NEW g \in Hosts  PROVE CreditOf(g)' = CreditOf(g)
    <2>1. CASE store[h] # None
      BY <1>1, <2>1 DEF CreditOf, Refilled
    <2>2. CASE store[h] = None /\ g = h
      <3>1. store'[h] = r /\ r # None /\ buckets'[r] = FullBucket
        BY <1>1, <2>2, TokenAssumption DEF TokenInv, TypeOK, TokenAssumption
      <3>2. Refilled(buckets[r])' = Refilled(FullBucket)
        BY <1>1, <3>1 DEF Refilled
      <3>. QED  BY <2>2, <3>1, <3>2, <1>1, FullIsFull DEF CreditOf, TokenInv, TypeOK
    <2>3. CASE store[h] = None /\ g # h
      <3>1. store'[g] = store[g] /\ store[g] # r
        BY <1>1, <2>3, TokenAssumption DEF TokenInv, TypeOK, TokenAssumption
      <3>2. store[g] # None => buckets'[store[g]] = buckets[store[g]]
        BY <1>1, <2>3, <3>1 DEF TokenInv, TypeOK
      <3>. QED  BY <1>1, <3>1, <3>2 DEF CreditOf, Refilled
    <2>. QED  BY <2>1, <2>2, <2>3
  <1>. QED  BY <1>8, <1>9 DEF Credit

\* The steps of the ideal account, for the accounts the buckets keep.
Pays(h) ==
  /\ Credit[h] >= Cost
  /\ Credit' = [Credit EXCEPT ![h] = @ - Cost]
  /\ admitted' = [admitted EXCEPT ![h] = @ + 1]
  /\ refused' = refused

Declines(h) ==
  /\ Credit[h] < Cost
  /\ refused' = [refused EXCEPT ![h] = @ + 1]
  /\ Credit' = Credit /\ admitted' = admitted

Stays == Credit' = Credit /\ admitted' = admitted /\ refused' = refused

Drawn(tokens) ==
  [tokens |-> IF tokens >= Cost THEN tokens - Cost ELSE tokens,
   lastRefill |-> now, lastSeen |-> now]

LEMMA DrawnFacts ==
  ASSUME now \in Nat, NEW tokens \in 0..Capacity
  PROVE  /\ Drawn(tokens) \in Bucket
         /\ Drawn(tokens).lastRefill = now /\ Drawn(tokens).lastSeen = now
         /\ Refilled(Drawn(tokens)) = IF tokens >= Cost THEN tokens - Cost ELSE tokens
  <1>1. /\ Drawn(tokens) \in Bucket
        /\ Drawn(tokens).lastRefill = now /\ Drawn(tokens).lastSeen = now
        /\ Drawn(tokens).tokens = IF tokens >= Cost THEN tokens - Cost ELSE tokens
    BY TokenAssumption DEF Drawn, Bucket, TokenAssumption
  <1>2. (now - Drawn(tokens).lastRefill) * Rate = 0
    BY <1>1, TokenAssumption DEF TokenAssumption
  <1>. QED  BY <1>1, <1>2, TokenAssumption DEF Refilled, Bucket, TokenAssumption

LEMMA TokenAllow ==
  ASSUME TokenInv, NEW r \in Requests, Allow(r)
  PROVE  /\ TokenInv'
         /\ Stays \/ \E h \in Hosts : Pays(h) \/ Declines(h)
  <1>1. /\ request[r].pc = "found"
        /\ request[r].host \in Hosts /\ request[r].bucket \in Requests
    BY DEF Allow, TokenInv
  <1>2. PICK h \in Hosts, b \in Requests : h = request[r].host /\ b = request[r].bucket
    BY <1>1
  <1>3. PICK tokens \in 0..Capacity : tokens = Refilled(buckets[b])
    BY <1>2, RefilledType
  <1>4. /\ buckets' = [buckets EXCEPT ![b] = Drawn(tokens)]
        /\ request' = [request EXCEPT ![r].pc = "done"]
        /\ now' = now /\ store' = store /\ sweep' = sweep
    BY <1>2, <1>3 DEF Allow, Drawn
  <1>5. /\ admitted' = IF tokens >= Cost /\ Standing(r) THEN [admitted EXCEPT ![h] = @ + 1] ELSE admitted
        /\ refused' = IF ~(tokens >= Cost) /\ Standing(r) THEN [refused EXCEPT ![h] = @ + 1] ELSE refused
        /\ late' = IF tokens >= Cost /\ ~Standing(r) THEN [late EXCEPT ![h] = @ + 1] ELSE late
    BY <1>2, <1>3 DEF Allow
  <1>6. Standing(r) <=> (store[h] = b /\ sweep.doomed # h)
    BY <1>2 DEF Standing
  <1>7. \A q \in Requests : /\ request'[q].host = request[q].host
                            /\ request'[q].bucket = request[q].bucket
                            /\ request'[q].pc = IF q = r THEN "done" ELSE request[q].pc
    BY <1>4 DEF TokenInv, TypeOK
  <1>8. buckets'[b] = Drawn(tokens) /\ \A q \in Requests : q # b => buckets'[q] = buckets[q]
    BY <1>4 DEF TokenInv, TypeOK
  <1>9. TypeOK'
    <2>1. admitted' \in [Hosts -> Nat] /\ refused' \in [Hosts -> Nat] /\ late' \in [Hosts -> Nat]
      BY <1>5 DEF TokenInv, TypeOK
    <2>2. buckets' \in [Requests -> Bucket]
      BY <1>4, DrawnFacts DEF TokenInv, TypeOK
    <2>. QED  BY <1>4, <2>1, <2>2 DEF TokenInv, TypeOK, Bucket
  <1>10. TokenInv'
    <2>1. \A q \in Requests : /\ buckets'[q].lastRefill = buckets'[q].lastSeen
                              /\ buckets'[q].lastSeen <= now'
      BY <1>4, <1>8, DrawnFacts DEF TokenInv, TypeOK
    <2>2. \A q \in Requests : request'[q].pc = "found" =>
            /\ request'[q].host \in Hosts /\ request'[q].bucket \in Requests
            /\ request'[request'[q].bucket].host = request'[q].host
            /\ request'[request'[q].bucket].pc # "idle"
      BY <1>7 DEF TokenInv
    <2>3. \A g \in Hosts : store'[g] # None =>
            /\ request'[store'[g]].host = g
            /\ request'[store'[g]].pc # "idle"
      BY <1>4, <1>7 DEF TokenInv, TypeOK
    <2>. QED  BY <1>4, <1>9, <2>1, <2>2, <2>3 DEF TokenInv
  \* No other host's bucket is drawn from.
  <1>11. \A g \in Hosts : store[g] = b => g = h
    BY <1>1, <1>2, TokenAssumption DEF TokenInv, TokenAssumption
  <1>12. \A g \in Hosts : ~(g = h /\ Standing(r)) => CreditOf(g)' = CreditOf(g)
    <2> SUFFICES ASSUME NEW g \in Hosts, ~(g = h /\ Standing(r))  PROVE CreditOf(g)' = CreditOf(g)
      OBVIOUS
    <2>1. CASE store[g] = None \/ sweep.doomed = g
      BY <1>4, <2>1 DEF CreditOf
    <2>2. CASE ~(store[g] = None \/ sweep.doomed = g)
      <3>1. store[g] # b /\ store[g] \in Requests
        BY <1>6, <1>11, <2>2 DEF TokenInv, TypeOK
      <3>2. Refilled(buckets[store[g]])' = Refilled(buckets[store[g]])
        BY <1>4, <1>8, <3>1 DEF Refilled
      <3>. QED  BY <1>4, <2>2, <3>2 DEF CreditOf
    <2>. QED  BY <2>1, <2>2
  <1>13. ASSUME Standing(r)
         PROVE  /\ CreditOf(h) = tokens
                /\ CreditOf(h)' = IF tokens >= Cost THEN tokens - Cost ELSE tokens
    <2>1. store[h] = b /\ sweep.doomed # h /\ b # None
      BY <1>6, <1>13, TokenAssumption DEF TokenAssumption
    <2>2. Refilled(buckets[b])' = Refilled(Drawn(tokens))
      BY <1>4, <1>8 DEF Refilled
    <2>3. Refilled(Drawn(tokens)) = IF tokens >= Cost THEN tokens - Cost ELSE tokens
      BY DrawnFacts DEF TokenInv, TypeOK
    <2>. QED  BY <1>3, <1>4, <2>1, <2>2, <2>3 DEF CreditOf
  <1>14. CASE ~Standing(r)
    <2>1. Credit' = Credit
      BY <1>12, <1>14 DEF Credit
    <2>. QED  BY <1>5, <1>10, <1>14, <2>1 DEF Stays
  <1>15. CASE Standing(r) /\ tokens >= Cost
    <2>1. Credit' = [Credit EXCEPT ![h] = @ - Cost] /\ Credit[h] >= Cost
      BY <1>12, <1>13, <1>15 DEF Credit
    <2>. QED  BY <1>5, <1>10, <1>15, <2>1 DEF Pays
  <1>16. CASE Standing(r) /\ ~(tokens >= Cost)
    <2>1. Credit' = Credit /\ Credit[h] < Cost
      BY <1>12, <1>13, <1>16, TokenAssumption DEF Credit, TokenAssumption
    <2>. QED  BY <1>5, <1>10, <1>16, <2>1 DEF Declines
  <1>. QED  BY <1>14, <1>15, <1>16

\* The evictor takes nothing from an account: the bucket it drops is full.
LEMMA TokenSweep ==
  ASSUME TokenInv,
         SweepStarts \/ SweepLocks \/ SweepDrops \/ SweepEnds \/ \E h \in Hosts : SweepChecks(h)
  PROVE  TokenInv' /\ Stays
  <1>1. /\ now' = now /\ buckets' = buckets /\ request' = request
        /\ admitted' = admitted /\ refused' = refused /\ late' = late
    BY DEF SweepStarts, SweepLocks, SweepDrops, SweepEnds, SweepChecks, history
  <1>2. \A r \in Requests : Refilled(buckets[r])' = Refilled(buckets[r])
    BY <1>1 DEF Refilled
  <1>3. CASE SweepStarts \/ SweepLocks \/ SweepEnds
    <2> DEFINE Turns == [pc: {"off", "read", "locked"}, now: 0..now,
                         todo: SUBSET Hosts, doomed: {sweep.doomed}]
    <2>1. /\ now \in Nat /\ sweep.doomed \in Hosts \cup {None} /\ sweep.todo \in SUBSET Hosts
          /\ sweep.now \in 0..now /\ sweep.pc \in {"off", "read", "locked"}
          /\ sweep = [pc |-> sweep.pc, now |-> sweep.now, todo |-> sweep.todo,
                      doomed |-> sweep.doomed]
      BY DEF TokenInv, TypeOK
    <2>2. ASSUME SweepStarts  PROVE sweep' \in Turns
      <3>1. sweep' = [pc |-> "read", now |-> now, todo |-> sweep.todo, doomed |-> sweep.doomed]
        BY <2>1, <2>2 DEF SweepStarts
      <3>. QED  BY <2>1, <3>1
    <2>3. ASSUME SweepLocks  PROVE sweep' \in Turns
      <3>1. sweep' = [pc |-> "locked", now |-> sweep.now, todo |-> {h \in Hosts : store[h] # None},
                      doomed |-> sweep.doomed]
        BY <2>1, <2>3 DEF SweepLocks
      <3>. QED  BY <2>1, <3>1
    <2>4. ASSUME SweepEnds  PROVE sweep' \in Turns
      BY <2>1, <2>4 DEF SweepEnds, Off
    <2>5. sweep' \in Turns
      BY <1>3, <2>2, <2>3, <2>4
    <2>6. store' = store
      BY <1>3 DEF SweepStarts, SweepLocks, SweepEnds
    <2>7. TypeOK' /\ sweep'.now <= now' /\ sweep'.doomed = sweep.doomed
      BY <1>1, <2>1, <2>5, <2>6 DEF TokenInv, TypeOK, Bucket
    <2>8. \A h \in Hosts : CreditOf(h)' = CreditOf(h)
      BY <1>1, <1>2, <2>6, <2>7 DEF CreditOf, TokenInv, TypeOK
    <2>. QED  BY <1>1, <2>6, <2>7, <2>8 DEF TokenInv, Stays, Credit
  <1>4. CASE SweepDrops
    <2>1. PICK d \in Hosts : d = sweep.doomed
      BY <1>4 DEF SweepDrops, TokenInv, TypeOK
    <2>2. /\ store' = [store EXCEPT ![d] = None]
          /\ sweep' = [sweep EXCEPT !.doomed = None]
      BY <1>4, <2>1 DEF SweepDrops
    <2>3. TokenInv'
      BY <1>1, <2>2 DEF TokenInv, TypeOK, Bucket
    <2>4. ASSUME NEW h \in Hosts  PROVE CreditOf(h)' = CreditOf(h)
      <3>1. h = d => store'[h] = None
        BY <2>2 DEF TokenInv, TypeOK
      <3>2. h # d => store'[h] = store[h] /\ sweep.doomed # h /\ sweep'.doomed # h
        BY <2>1, <2>2, TokenAssumption DEF TokenInv, TypeOK, TokenAssumption
      <3>. QED  BY <1>1, <1>2, <2>1, <3>1, <3>2 DEF CreditOf, TokenInv, TypeOK
    <2>. QED  BY <1>1, <2>3, <2>4 DEF Stays, Credit
  <1>5. ASSUME NEW h \in Hosts, SweepChecks(h)  PROVE TokenInv' /\ Stays
    <2>1. /\ store' = store /\ sweep.doomed = None
          /\ sweep' = [sweep EXCEPT !.todo = @ \ {h}, !.doomed = IF Expired(h) THEN h ELSE None]
      BY <1>5 DEF SweepChecks
    <2>2. TokenInv'
      BY <1>1, <2>1 DEF TokenInv, TypeOK, Bucket
    <2>3. sweep'.doomed = IF Expired(h) THEN h ELSE None
      BY <2>1 DEF TokenInv, TypeOK
    <2>4. ASSUME Expired(h), store[h] # None  PROVE CreditOf(h) = Capacity
      <3>1. PICK b \in Requests : b = store[h]
        BY <2>4 DEF TokenInv, TypeOK
      <3>2. buckets[b] \in Bucket /\ now \in Nat /\ sweep.now \in Nat /\ sweep.now <= now
            /\ buckets[b].lastRefill = buckets[b].lastSeen
        BY DEF TokenInv, TypeOK
      <3>3. PICK n \in Int : n = now - buckets[b].lastRefill
        BY <3>2 DEF Bucket
      <3>4. n > TTL
        BY <2>4, <3>1, <3>2, <3>3, TokenAssumption DEF Expired, Bucket, TokenAssumption
      <3>5. PICK grown \in Nat : grown = n * Rate /\ grown >= Capacity
        BY <3>4, IdleLongEnough
      <3>6. Refilled(buckets[b]) =
              IF buckets[b].tokens + grown > Capacity THEN Capacity ELSE buckets[b].tokens + grown
        BY <3>3, <3>5 DEF Refilled
      <3>7. grown >= Capacity /\ buckets[b].tokens \in Nat /\ Capacity \in Nat
        BY <3>2, <3>5, TokenAssumption DEF Bucket, TokenAssumption
      <3>8. Refilled(buckets[b]) = Capacity
        BY <3>6, <3>7
      <3>. QED  BY <3>1, <3>8 DEF CreditOf
    <2>5. ASSUME NEW g \in Hosts  PROVE CreditOf(g)' = CreditOf(g)
      <3>1. CASE g = h /\ Expired(h)
        <4>1. CreditOf(h)' = Capacity
          BY <2>3, <3>1 DEF CreditOf
        <4>2. CreditOf(h) = Capacity
          BY <2>4, <3>1 DEF CreditOf
        <4>. QED  BY <3>1, <4>1, <4>2
      <3>2. CASE ~(g = h /\ Expired(h))
        <4>1. sweep'.doomed # g /\ sweep.doomed # g
          BY <2>1, <2>3, <3>2, TokenAssumption DEF TokenAssumption
        <4>. QED  BY <1>1, <1>2, <2>1, <4>1 DEF CreditOf, TokenInv, TypeOK
      <3>. QED  BY <3>1, <3>2
    <2>. QED  BY <1>1, <2>2, <2>5 DEF Stays, Credit
  <1>. QED  BY <1>3, <1>4, <1>5

\* A tick adds the rate to every account that is not full.
Grows ==
  /\ Credit' = [h \in Hosts |-> Ideal!Least(Capacity, Credit[h] + Rate)]
  /\ admitted' = admitted /\ refused' = refused

LEMMA TokenTick ==
  ASSUME TokenInv, Tick
  PROVE  TokenInv' /\ Grows
  <1>1. /\ now' = now + 1 /\ now \in Nat
        /\ store' = store /\ buckets' = buckets /\ request' = request /\ sweep' = sweep
        /\ admitted' = admitted /\ refused' = refused /\ late' = late
    BY DEF Tick, history, TokenInv, TypeOK
  <1>2. TokenInv'
    BY <1>1 DEF TokenInv, TypeOK, Bucket
  <1>3. ASSUME NEW r \in Requests
        PROVE  Refilled(buckets[r])' = Ideal!Least(Capacity, Refilled(buckets[r]) + Rate)
    <2>1. /\ buckets[r] \in Bucket /\ now - buckets[r].lastRefill \in Nat
          /\ (now - buckets[r].lastRefill) * Rate \in Nat
      BY RefilledType
    <2>2. PICK n \in Nat : n = now - buckets[r].lastRefill
      BY <2>1
    <2>3. PICK grown \in Nat : grown = n * Rate
      BY <2>1, <2>2
    <2>4. now' - buckets[r].lastRefill = n + 1
      BY <1>1, <2>1, <2>2 DEF Bucket
    <2>5. (n + 1) * Rate = grown + Rate
      BY <2>3, OneMoreTick
    <2>6. Refilled(buckets[r])' =
            IF buckets[r].tokens + (grown + Rate) > Capacity THEN Capacity
            ELSE buckets[r].tokens + (grown + Rate)
      BY <1>1, <2>4, <2>5 DEF Refilled
    <2>7. Refilled(buckets[r]) =
            IF buckets[r].tokens + grown > Capacity THEN Capacity
            ELSE buckets[r].tokens + grown
      BY <2>2, <2>3 DEF Refilled
    <2>. QED  BY <2>1, <2>6, <2>7, TokenAssumption DEF Bucket, TokenAssumption, Ideal!Least
  <1>4. ASSUME NEW h \in Hosts
        PROVE  CreditOf(h)' = Ideal!Least(Capacity, CreditOf(h) + Rate)
    <2>1. CASE store[h] = None \/ sweep.doomed = h
      BY <1>1, <2>1, TokenAssumption DEF CreditOf, Ideal!Least, TokenAssumption
    <2>2. CASE ~(store[h] = None \/ sweep.doomed = h)
      BY <1>1, <1>3, <2>2 DEF CreditOf, TokenInv, TypeOK
    <2>. QED  BY <2>1, <2>2
  <1>. QED  BY <1>1, <1>2, <1>4 DEF Grows, Credit

LEMMA TokenStep ==
  ASSUME TokenInv, Next
  PROVE  /\ TokenInv'
         /\ Stays \/ Grows \/ \E h \in Hosts : Pays(h) \/ Declines(h)
  <1>1. ASSUME NEW r \in Requests, NEW h \in Hosts, Find(r, h)
        PROVE  TokenInv' /\ Stays
    BY <1>1, TokenFind DEF Find, history, Stays
  <1>. QED  BY <1>1, TokenAllow, TokenSweep, TokenTick DEF Next

-----------------------------------------------------------------------------
(* The leaking bucket *)

LeakInv ==
  /\ Leaking!TypeOK
  /\ \A r \in Requests : /\ buckets[r].lastDrain = buckets[r].lastSeen
                         /\ buckets[r].lastSeen <= now
  /\ \A r \in Requests : request[r].pc = "found" =>
       /\ request[r].host \in Hosts /\ request[r].bucket \in Requests
       /\ request[request[r].bucket].host = request[r].host
       /\ request[request[r].bucket].pc \in {"found", "done"}
  /\ \A h \in Hosts : store[h] # None =>
       /\ request[store[h]].host = h
       /\ request[store[h]].pc \in {"found", "done"}

LEMMA LeakTypes ==
  ASSUME LeakInv, NEW r \in Requests
  PROVE  /\ Leaking!Drained(buckets[r]) \in 0..Capacity
         /\ (now - buckets[r].lastDrain) \in Nat
         /\ (now - buckets[r].lastDrain) * Rate \in Nat
         /\ buckets[r] \in Leaking!Bucket
  <1>1. buckets[r] \in Leaking!Bucket /\ now \in Nat /\ buckets[r].lastDrain <= now
    BY DEF LeakInv, Leaking!TypeOK
  <1>2. now - buckets[r].lastDrain \in Nat
    BY <1>1 DEF Leaking!Bucket
  <1>3. PICK leaked \in Nat : leaked = (now - buckets[r].lastDrain) * Rate
    BY <1>2, TokenAssumption DEF TokenAssumption
  <1>4. buckets[r].level - leaked \in Int /\ Capacity \in Nat
    BY <1>1, TokenAssumption DEF Leaking!Bucket, TokenAssumption
  <1>5. Leaking!Drained(buckets[r]) \in 0..Capacity
    BY <1>3, <1>4 DEF Leaking!Drained
  <1>. QED  BY <1>1, <1>2, <1>3, <1>5

LEMMA EmptyIsEmpty ==
  ASSUME now \in Nat
  PROVE  /\ Leaking!EmptyBucket \in Leaking!Bucket
         /\ Leaking!EmptyBucket.level = 0
         /\ Leaking!EmptyBucket.lastDrain = now /\ Leaking!EmptyBucket.lastSeen = now
         /\ Leaking!Drained(Leaking!EmptyBucket) = 0
  <1>1. /\ Leaking!EmptyBucket \in Leaking!Bucket
        /\ Leaking!EmptyBucket.level = 0
        /\ Leaking!EmptyBucket.lastDrain = now /\ Leaking!EmptyBucket.lastSeen = now
    BY TokenAssumption DEF Leaking!EmptyBucket, Leaking!Bucket, TokenAssumption
  <1>2. (now - Leaking!EmptyBucket.lastDrain) * Rate = 0
    BY <1>1, TokenAssumption DEF TokenAssumption
  <1>. QED  BY <1>1, <1>2, TokenAssumption DEF Leaking!Drained, TokenAssumption

LEMMA LeakInit == Leaking!Init => LeakInv
  <1>. SUFFICES ASSUME Leaking!Init  PROVE LeakInv
    OBVIOUS
  <1>1. now \in Nat
    BY DEF Leaking!Init
  <1>. QED
    BY <1>1, EmptyIsEmpty, TokenAssumption
    DEF Leaking!Init, LeakInv, Leaking!TypeOK, TokenAssumption

\* The steps of the ideal account, for the room left in the buckets.
LeakPays(h) ==
  /\ Leaking!Credit[h] >= Cost
  /\ Leaking!Credit' = [Leaking!Credit EXCEPT ![h] = @ - Cost]
  /\ admitted' = [admitted EXCEPT ![h] = @ + 1]
  /\ refused' = refused

LeakDeclines(h) ==
  /\ Leaking!Credit[h] < Cost
  /\ refused' = [refused EXCEPT ![h] = @ + 1]
  /\ Leaking!Credit' = Leaking!Credit /\ admitted' = admitted

LeakStays == Leaking!Credit' = Leaking!Credit /\ admitted' = admitted /\ refused' = refused

LeakGrows ==
  /\ Leaking!Credit' = [h \in Hosts |-> Ideal!Least(Capacity, Leaking!Credit[h] + Rate)]
  /\ admitted' = admitted /\ refused' = refused

\* A request finds the bucket, or gives up one that has leaked dry.
LEMMA LeakFind ==
  ASSUME LeakInv, NEW r \in Requests, NEW h \in Hosts,
         Leaking!Find(r, h) \/ Leaking!FindExpired(r, h)
  PROVE  LeakInv' /\ LeakStays
  <1>1. /\ request[r].pc = "idle" /\ store[h] # None
        /\ now' = now /\ store' = store /\ buckets' = buckets
        /\ admitted' = admitted /\ refused' = refused /\ late' = late
    BY DEF Leaking!Find, Leaking!FindExpired, Leaking!history
  <1>2. PICK b \in Requests : b = store[h]
    BY <1>1 DEF LeakInv, Leaking!TypeOK
  <1>3. \/ /\ Leaking!Find(r, h)
           /\ request' = [request EXCEPT ![r] = [pc |-> "found", host |-> h, bucket |-> b]]
        \/ /\ Leaking!FindExpired(r, h)
           /\ request' = [request EXCEPT ![r] = [pc |-> "replacing", host |-> h, bucket |-> None]]
    BY <1>2 DEF Leaking!Find, Leaking!FindExpired
  <1>4. \A q \in Requests : q # r => request'[q] = request[q]
    BY <1>3 DEF LeakInv, Leaking!TypeOK
  <1>5. /\ request'[r].host = h
        /\ \/ Leaking!Find(r, h) /\ request'[r].pc = "found" /\ request'[r].bucket = b
           \/ Leaking!FindExpired(r, h) /\ request'[r].pc = "replacing"
    BY <1>3 DEF LeakInv, Leaking!TypeOK
  <1>6. b # r /\ request[b].host = h /\ request[b].pc \in {"found", "done"}
    BY <1>1, <1>2 DEF LeakInv
  <1>7. LeakInv'
    <2>1. Leaking!TypeOK'
      BY <1>1, <1>3 DEF LeakInv, Leaking!TypeOK, Leaking!Bucket
    <2>2. \A g \in Hosts : store'[g] # None =>
            /\ request'[store'[g]].host = g
            /\ request'[store'[g]].pc \in {"found", "done"}
      BY <1>1, <1>4 DEF LeakInv, Leaking!TypeOK
    <2>3. \A q \in Requests : request'[q].pc = "found" =>
            /\ request'[q].host \in Hosts /\ request'[q].bucket \in Requests
            /\ request'[request'[q].bucket].host = request'[q].host
            /\ request'[request'[q].bucket].pc \in {"found", "done"}
      <3>1. CASE request[r].pc = "idle"
        BY <1>4, <1>5, <1>6, <3>1 DEF LeakInv
      <3>. QED  BY <1>1, <3>1
    <2>. QED  BY <1>1, <2>1, <2>2, <2>3 DEF LeakInv
  <1>8. \A q \in Requests : Leaking!Drained(buckets[q])' = Leaking!Drained(buckets[q])
    BY <1>1 DEF Leaking!Drained
  <1>9. \A g \in Hosts : g # h => (Leaking!GivenUp(g)' <=> Leaking!GivenUp(g))
    BY <1>1, <1>4, <1>5 DEF Leaking!GivenUp
  <1>10. ~Leaking!GivenUp(h)
    BY <1>3 DEF Leaking!GivenUp, Leaking!Find, Leaking!FindExpired, Leaking!MapIsFree
  <1>11. ASSUME Leaking!Find(r, h)  PROVE ~Leaking!GivenUp(h)'
    BY <1>3, <1>4, <1>5, <1>10, <1>11 DEF Leaking!GivenUp, Leaking!Find, Leaking!FindExpired, LeakInv, Leaking!TypeOK
  <1>12. ASSUME Leaking!FindExpired(r, h)  PROVE Leaking!Drained(buckets[b]) = 0
    <2>1. /\ buckets[b] \in Leaking!Bucket /\ now \in Nat
          /\ buckets[b].lastDrain = buckets[b].lastSeen
      BY DEF LeakInv, Leaking!TypeOK
    <2>2. PICK n \in Int : n = now - buckets[b].lastDrain
      BY <2>1 DEF Leaking!Bucket
    <2>3. n > TTL
      BY <1>2, <1>12, <2>1, <2>2 DEF Leaking!FindExpired, Leaking!Expired
    <2>4. PICK leaked \in Nat : leaked = n * Rate /\ leaked >= Capacity
      BY <2>3, IdleLongEnough
    <2>5. /\ leaked >= Capacity /\ buckets[b].level \in 0..Capacity /\ Capacity \in Nat
      BY <2>1, <2>4, TokenAssumption DEF Leaking!Bucket, TokenAssumption
    <2>6. Leaking!Drained(buckets[b]) =
            LET level == buckets[b].level - leaked
                floor == IF level < 0 THEN 0 ELSE level
            IN  IF floor > Capacity THEN Capacity ELSE floor
      BY <2>2, <2>4 DEF Leaking!Drained
    <2>. QED  BY <2>5, <2>6
  <1>13. ASSUME NEW g \in Hosts  PROVE Leaking!CreditOf(g)' = Leaking!CreditOf(g)
    <2>1. CASE g # h
      BY <1>1, <1>8, <1>9, <2>1 DEF Leaking!CreditOf, LeakInv, Leaking!TypeOK
    <2>2. CASE g = h /\ Leaking!Find(r, h)
      BY <1>1, <1>2, <1>8, <1>10, <1>11, <2>2 DEF Leaking!CreditOf
    <2>3. CASE g = h /\ Leaking!FindExpired(r, h)
      <3>1. Leaking!CreditOf(h) = Capacity
        BY <1>1, <1>2, <1>10, <1>12, <2>3, TokenAssumption DEF Leaking!CreditOf, TokenAssumption
      <3>2. request'[r].pc = "replacing" /\ request'[r].host = h
        BY <1>3, <2>3, <1>5 DEF Leaking!Find, Leaking!FindExpired
      <3>3. Leaking!GivenUp(h)'
        BY <3>2 DEF Leaking!GivenUp
      <3>. QED  BY <2>3, <3>1, <3>3 DEF Leaking!CreditOf
    <2>. QED  BY <1>3, <2>1, <2>2, <2>3
  <1>. QED  BY <1>1, <1>7, <1>13 DEF LeakStays, Leaking!Credit

LEMMA LeakCreate ==
  ASSUME LeakInv, NEW r \in Requests, NEW h \in Hosts, Leaking!Create(r, h)
  PROVE  LeakInv' /\ LeakStays
  <1>1. /\ \/ request[r].pc = "idle" /\ store[h] = None
           \/ request[r].pc = "replacing" /\ request[r].host = h
        /\ store' = [store EXCEPT ![h] = r]
        /\ buckets' = [buckets EXCEPT ![r] = Leaking!EmptyBucket]
        /\ request' = [request EXCEPT ![r] = [pc |-> "found", host |-> h, bucket |-> r]]
        /\ now' = now /\ admitted' = admitted /\ refused' = refused /\ late' = late
    BY DEF Leaking!Create, Leaking!history
  <1>2. request[r].pc \notin {"found", "done"}
    BY <1>1
  <1>3. \A q \in Requests : q # r => request'[q] = request[q] /\ buckets'[q] = buckets[q]
    BY <1>1 DEF LeakInv, Leaking!TypeOK
  <1>4. /\ request'[r].pc = "found" /\ request'[r].host = h /\ request'[r].bucket = r
        /\ buckets'[r] = Leaking!EmptyBucket /\ store'[h] = r
    BY <1>1 DEF LeakInv, Leaking!TypeOK
  <1>5. \A g \in Hosts : g # h => store'[g] = store[g] /\ store[g] # r
    BY <1>1, <1>2, TokenAssumption DEF LeakInv, Leaking!TypeOK, TokenAssumption
  <1>6. LeakInv'
    <2>1. Leaking!TypeOK'
      BY <1>1, EmptyIsEmpty DEF LeakInv, Leaking!TypeOK, Leaking!Bucket
    <2>2. \A q \in Requests : /\ buckets'[q].lastDrain = buckets'[q].lastSeen
                              /\ buckets'[q].lastSeen <= now'
      BY <1>1, <1>3, <1>4, EmptyIsEmpty DEF LeakInv, Leaking!TypeOK
    <2>3. \A g \in Hosts : store'[g] # None =>
            /\ request'[store'[g]].host = g
            /\ request'[store'[g]].pc \in {"found", "done"}
      BY <1>3, <1>4, <1>5 DEF LeakInv, Leaking!TypeOK
    <2>4. \A q \in Requests : request'[q].pc = "found" =>
            /\ request'[q].host \in Hosts /\ request'[q].bucket \in Requests
            /\ request'[request'[q].bucket].host = request'[q].host
            /\ request'[request'[q].bucket].pc \in {"found", "done"}
      BY <1>2, <1>3, <1>4 DEF LeakInv
    <2>. QED  BY <1>1, <2>1, <2>2, <2>3, <2>4 DEF LeakInv
  <1>7. ASSUME NEW g \in Hosts  PROVE Leaking!CreditOf(g)' = Leaking!CreditOf(g)
    <2>1. CASE g # h
      <3>1. Leaking!GivenUp(g)' <=> Leaking!GivenUp(g)
        BY <1>1, <1>3, <1>4, <2>1 DEF Leaking!GivenUp
      <3>2. store[g] # None => Leaking!Drained(buckets[store[g]])' = Leaking!Drained(buckets[store[g]])
        BY <1>1, <1>3, <1>5, <2>1 DEF Leaking!Drained, LeakInv, Leaking!TypeOK
      <3>. QED  BY <1>5, <2>1, <3>1, <3>2 DEF Leaking!CreditOf
    <2>2. CASE g = h
      <3>1. Leaking!CreditOf(h) = Capacity
        BY <1>1 DEF Leaking!CreditOf, Leaking!GivenUp
      <3>2. Leaking!Drained(buckets[r])' = Leaking!Drained(Leaking!EmptyBucket)
        BY <1>1, <1>4 DEF Leaking!Drained
      <3>3. Leaking!Drained(buckets[r])' = 0
        BY <3>2, EmptyIsEmpty DEF LeakInv, Leaking!TypeOK
      <3>. QED  BY <1>4, <2>2, <3>1, <3>3, TokenAssumption DEF Leaking!CreditOf, TokenAssumption
    <2>. QED  BY <2>1, <2>2
  <1>. QED  BY <1>1, <1>6, <1>7 DEF LeakStays, Leaking!Credit

Filled(level) ==
  [level |-> IF level + Cost <= Capacity THEN level + Cost ELSE level,
   lastDrain |-> now, lastSeen |-> now]

LEMMA FilledFacts ==
  ASSUME now \in Nat, NEW level \in 0..Capacity
  PROVE  /\ Filled(level) \in Leaking!Bucket
         /\ Filled(level).lastDrain = now /\ Filled(level).lastSeen = now
         /\ Leaking!Drained(Filled(level)) = IF level + Cost <= Capacity THEN level + Cost ELSE level
  <1>1. /\ Filled(level) \in Leaking!Bucket
        /\ Filled(level).lastDrain = now /\ Filled(level).lastSeen = now
        /\ Filled(level).level = IF level + Cost <= Capacity THEN level + Cost ELSE level
    BY TokenAssumption DEF Filled, Leaking!Bucket, TokenAssumption
  <1>2. (now - Filled(level).lastDrain) * Rate = 0
    BY <1>1, TokenAssumption DEF TokenAssumption
  <1>. QED  BY <1>1, <1>2, TokenAssumption DEF Leaking!Drained, TokenAssumption

LEMMA LeakAllow ==
  ASSUME LeakInv, NEW r \in Requests, Leaking!Allow(r)
  PROVE  /\ LeakInv'
         /\ LeakStays \/ \E h \in Hosts : LeakPays(h) \/ LeakDeclines(h)
  <1>1. /\ request[r].pc = "found"
        /\ request[r].host \in Hosts /\ request[r].bucket \in Requests
    BY DEF Leaking!Allow, LeakInv
  <1>2. PICK h \in Hosts, b \in Requests : h = request[r].host /\ b = request[r].bucket
    BY <1>1
  <1>3. PICK level \in 0..Capacity : level = Leaking!Drained(buckets[b])
    BY <1>2, LeakTypes
  <1>4. /\ buckets' = [buckets EXCEPT ![b] = Filled(level)]
        /\ request' = [request EXCEPT ![r].pc = "done"]
        /\ now' = now /\ store' = store
    BY <1>2, <1>3 DEF Leaking!Allow, Filled
  <1> DEFINE passes == level + Cost <= Capacity
  <1>5. /\ admitted' = IF passes /\ Leaking!Standing(r) THEN [admitted EXCEPT ![h] = @ + 1] ELSE admitted
        /\ refused' = IF ~passes /\ Leaking!Standing(r) THEN [refused EXCEPT ![h] = @ + 1] ELSE refused
        /\ late' = IF passes /\ ~Leaking!Standing(r) THEN [late EXCEPT ![h] = @ + 1] ELSE late
    BY <1>2, <1>3 DEF Leaking!Allow
  <1>6. Leaking!Standing(r) <=> (store[h] = b /\ ~Leaking!GivenUp(h))
    BY <1>2 DEF Leaking!Standing
  <1>7. \A q \in Requests : /\ request'[q].host = request[q].host
                            /\ request'[q].bucket = request[q].bucket
                            /\ request'[q].pc = IF q = r THEN "done" ELSE request[q].pc
    BY <1>4 DEF LeakInv, Leaking!TypeOK
  <1>8. buckets'[b] = Filled(level) /\ \A q \in Requests : q # b => buckets'[q] = buckets[q]
    BY <1>4 DEF LeakInv, Leaking!TypeOK
  <1>9. Leaking!TypeOK'
    <2>1. admitted' \in [Hosts -> Nat] /\ refused' \in [Hosts -> Nat] /\ late' \in [Hosts -> Nat]
      BY <1>5 DEF LeakInv, Leaking!TypeOK
    <2>2. buckets' \in [Requests -> Leaking!Bucket]
      BY <1>4, FilledFacts DEF LeakInv, Leaking!TypeOK
    <2>3. request' \in [Requests -> [pc: {"idle", "replacing", "found", "done"},
                                     host: Hosts \cup {None}, bucket: Requests \cup {None}]]
      <3>1. [request[r] EXCEPT !.pc = "done"] \in
              [pc: {"idle", "replacing", "found", "done"},
               host: Hosts \cup {None}, bucket: Requests \cup {None}]
        BY DEF LeakInv, Leaking!TypeOK
      <3>. QED  BY <1>4, <3>1 DEF LeakInv, Leaking!TypeOK
    <2>. QED  BY <1>4, <2>1, <2>2, <2>3 DEF LeakInv, Leaking!TypeOK
  <1>10. LeakInv'
    <2>1. \A q \in Requests : /\ buckets'[q].lastDrain = buckets'[q].lastSeen
                              /\ buckets'[q].lastSeen <= now'
      BY <1>4, <1>8, FilledFacts DEF LeakInv, Leaking!TypeOK
    <2>2. \A q \in Requests : request'[q].pc = "found" =>
            /\ request'[q].host \in Hosts /\ request'[q].bucket \in Requests
            /\ request'[request'[q].bucket].host = request'[q].host
            /\ request'[request'[q].bucket].pc \in {"found", "done"}
      BY <1>7 DEF LeakInv
    <2>3. \A g \in Hosts : store'[g] # None =>
            /\ request'[store'[g]].host = g
            /\ request'[store'[g]].pc \in {"found", "done"}
      BY <1>4, <1>7 DEF LeakInv, Leaking!TypeOK
    <2>. QED  BY <1>4, <1>9, <2>1, <2>2, <2>3 DEF LeakInv
  \* No other host's bucket is filled.
  <1>11. \A g \in Hosts : store[g] = b => g = h
    BY <1>1, <1>2, TokenAssumption DEF LeakInv, TokenAssumption
  <1>12. \A g \in Hosts : Leaking!GivenUp(g)' <=> Leaking!GivenUp(g)
    BY <1>1, <1>7 DEF Leaking!GivenUp
  <1>13. \A g \in Hosts : ~(g = h /\ Leaking!Standing(r)) => Leaking!CreditOf(g)' = Leaking!CreditOf(g)
    <2> SUFFICES ASSUME NEW g \in Hosts, ~(g = h /\ Leaking!Standing(r))
                 PROVE  Leaking!CreditOf(g)' = Leaking!CreditOf(g)
      OBVIOUS
    <2>1. CASE store[g] = None \/ Leaking!GivenUp(g)
      BY <1>4, <1>12, <2>1 DEF Leaking!CreditOf
    <2>2. CASE ~(store[g] = None \/ Leaking!GivenUp(g))
      <3>1. store[g] # b /\ store[g] \in Requests
        BY <1>6, <1>11, <2>2 DEF LeakInv, Leaking!TypeOK
      <3>2. Leaking!Drained(buckets[store[g]])' = Leaking!Drained(buckets[store[g]])
        BY <1>4, <1>8, <3>1 DEF Leaking!Drained
      <3>. QED  BY <1>4, <1>12, <2>2, <3>2 DEF Leaking!CreditOf
    <2>. QED  BY <2>1, <2>2
  <1>14. ASSUME Leaking!Standing(r)
         PROVE  /\ Leaking!CreditOf(h) = Capacity - level
                /\ Leaking!CreditOf(h)' = IF passes THEN Capacity - (level + Cost) ELSE Capacity - level
    <2>1. store[h] = b /\ ~Leaking!GivenUp(h) /\ b # None
      BY <1>6, <1>14, TokenAssumption DEF TokenAssumption
    <2>2. Leaking!Drained(buckets[b])' = Leaking!Drained(Filled(level))
      BY <1>4, <1>8 DEF Leaking!Drained
    <2>3. Leaking!Drained(Filled(level)) = IF passes THEN level + Cost ELSE level
      BY FilledFacts DEF LeakInv, Leaking!TypeOK
    <2>. QED  BY <1>3, <1>4, <1>12, <2>1, <2>2, <2>3 DEF Leaking!CreditOf
  <1>15. CASE ~Leaking!Standing(r)
    <2>1. Leaking!Credit' = Leaking!Credit
      BY <1>13, <1>15 DEF Leaking!Credit
    <2>. QED  BY <1>5, <1>10, <1>15, <2>1 DEF LeakStays
  <1>16. CASE Leaking!Standing(r) /\ passes
    <2>1. /\ Capacity - (level + Cost) = (Capacity - level) - Cost
          /\ Capacity - level >= Cost
      BY <1>16, TokenAssumption DEF TokenAssumption
    <2>2. /\ Leaking!Credit' = [Leaking!Credit EXCEPT ![h] = @ - Cost]
          /\ Leaking!Credit[h] >= Cost
      BY <1>13, <1>14, <1>16, <2>1 DEF Leaking!Credit
    <2>. QED  BY <1>5, <1>10, <1>16, <2>2 DEF LeakPays
  <1>17. CASE Leaking!Standing(r) /\ ~passes
    <2>1. Leaking!Credit' = Leaking!Credit /\ Leaking!Credit[h] < Cost
      BY <1>13, <1>14, <1>17, TokenAssumption DEF Leaking!Credit, TokenAssumption
    <2>. QED  BY <1>5, <1>10, <1>17, <2>1 DEF LeakDeclines
  <1>. QED  BY <1>15, <1>16, <1>17

LEMMA LeakTick ==
  ASSUME LeakInv, Leaking!Tick
  PROVE  LeakInv' /\ LeakGrows
  <1>1. /\ now' = now + 1 /\ now \in Nat
        /\ store' = store /\ buckets' = buckets /\ request' = request
        /\ admitted' = admitted /\ refused' = refused /\ late' = late
    BY DEF Leaking!Tick, Leaking!history, LeakInv, Leaking!TypeOK
  <1>2. LeakInv'
    BY <1>1 DEF LeakInv, Leaking!TypeOK, Leaking!Bucket
  <1>3. ASSUME NEW r \in Requests
        PROVE  Capacity - Leaking!Drained(buckets[r])'
                 = Ideal!Least(Capacity, (Capacity - Leaking!Drained(buckets[r])) + Rate)
    <2>1. /\ buckets[r] \in Leaking!Bucket /\ now - buckets[r].lastDrain \in Nat
      BY LeakTypes
    <2>2. PICK n \in Nat : n = now - buckets[r].lastDrain
      BY <2>1
    <2>3. PICK leaked \in Nat : leaked = n * Rate
      BY <2>2, TokenAssumption DEF TokenAssumption
    <2>4. now' - buckets[r].lastDrain = n + 1
      BY <1>1, <2>1, <2>2 DEF Leaking!Bucket
    <2>5. (n + 1) * Rate = leaked + Rate
      BY <2>3, OneMoreTick
    <2> DEFINE Left(x) == LET level == buckets[r].level - x
                              floor == IF level < 0 THEN 0 ELSE level
                          IN  IF floor > Capacity THEN Capacity ELSE floor
    <2>6. Leaking!Drained(buckets[r])' = Left(leaked + Rate)
      BY <1>1, <2>4, <2>5 DEF Leaking!Drained
    <2>7. Leaking!Drained(buckets[r]) = Left(leaked)
      BY <2>2, <2>3 DEF Leaking!Drained
    <2>8. /\ leaked \in Nat /\ Rate \in Nat /\ Capacity \in Nat
          /\ buckets[r].level \in 0..Capacity
      BY <2>1, TokenAssumption DEF Leaking!Bucket, TokenAssumption
    <2>9. Capacity - Left(leaked + Rate) = Ideal!Least(Capacity, (Capacity - Left(leaked)) + Rate)
      BY <2>8 DEF Ideal!Least
    <2>. QED  BY <2>6, <2>7, <2>9
  <1>4. ASSUME NEW h \in Hosts
        PROVE  Leaking!CreditOf(h)' = Ideal!Least(Capacity, Leaking!CreditOf(h) + Rate)
    <2>1. Leaking!GivenUp(h)' <=> Leaking!GivenUp(h)
      BY <1>1 DEF Leaking!GivenUp
    <2>2. CASE store[h] = None \/ Leaking!GivenUp(h)
      BY <1>1, <2>1, <2>2, TokenAssumption DEF Leaking!CreditOf, Ideal!Least, TokenAssumption
    <2>3. CASE ~(store[h] = None \/ Leaking!GivenUp(h))
      BY <1>1, <1>3, <2>1, <2>3 DEF Leaking!CreditOf, LeakInv, Leaking!TypeOK
    <2>. QED  BY <2>2, <2>3
  <1>. QED  BY <1>1, <1>2, <1>4 DEF LeakGrows, Leaking!Credit

LEMMA LeakStep ==
  ASSUME LeakInv, Leaking!Next
  PROVE  /\ LeakInv'
         /\ LeakStays \/ LeakGrows \/ \E h \in Hosts : LeakPays(h) \/ LeakDeclines(h)
  BY LeakFind, LeakCreate, LeakAllow, LeakTick DEF Leaking!Next

-----------------------------------------------------------------------------
(* Both buckets keep the promise *)

AccountsInv ==
  /\ limiter \in {"token", "leaking", "sliding", "fixed"}
  /\ limiter = "token" => TokenInv
  /\ limiter = "leaking" => LeakInv

LEMMA AccountsInit == LimiterInit => AccountsInv /\ (HasAccounts => Ideal!Init)
  <1> SUFFICES ASSUME LimiterInit  PROVE AccountsInv /\ (HasAccounts => Ideal!Init)
    OBVIOUS
  <1>1. CASE limiter = "token" /\ Init
    <2>1. Account = [h \in Hosts |-> Capacity]
      BY <1>1 DEF Account, Credit, CreditOf, Init
    <2>. QED  BY <1>1, <2>1, TokenInit DEF AccountsInv, Ideal!Init, Init
  <1>2. CASE limiter = "leaking" /\ Leaking!Init
    <2>1. Account = [h \in Hosts |-> Capacity]
      BY <1>2 DEF Account, Leaking!Credit, Leaking!CreditOf, Leaking!Init
    <2>. QED  BY <1>2, <2>1, LeakInit DEF AccountsInv, Ideal!Init, Leaking!Init
  <1>3. CASE limiter \in {"sliding", "fixed"}
    BY <1>3 DEF AccountsInv, HasAccounts
  <1>. QED  BY <1>1, <1>2, <1>3 DEF LimiterInit

LEMMA AccountsStep ==
  ASSUME AccountsInv, [LimiterNext]_<<vars, windowOnly, limiter>>
  PROVE  AccountsInv' /\ [HasAccounts => Ideal!Next]_(Ideal!idealVars)
  <1>1. limiter' = limiter
    BY DEF LimiterNext
  <1>2. CASE limiter = "token" /\ Next
    <2>1. /\ TokenInv'
          /\ Stays \/ Grows \/ \E h \in Hosts : Pays(h) \/ Declines(h)
      BY <1>2, TokenStep DEF AccountsInv
    <2>2. Account = Credit /\ Account' = Credit'
      BY <1>1, <1>2 DEF Account
    <2>3. Stays => UNCHANGED Ideal!idealVars
      BY <2>2 DEF Stays, Ideal!idealVars
    <2>4. Grows => Ideal!Next
      BY <2>2 DEF Grows, Ideal!Next, Ideal!Grow
    <2>5. ASSUME NEW h \in Hosts, Pays(h) \/ Declines(h)  PROVE Ideal!Next
      BY <2>2, <2>5 DEF Pays, Declines, Ideal!Next, Ideal!Admit, Ideal!Refuse
    <2>. QED  BY <1>1, <1>2, <2>1, <2>3, <2>4, <2>5 DEF AccountsInv
  <1>3. CASE limiter = "leaking" /\ Leaking!Next
    <2>1. /\ LeakInv'
          /\ LeakStays \/ LeakGrows \/ \E h \in Hosts : LeakPays(h) \/ LeakDeclines(h)
      BY <1>3, LeakStep DEF AccountsInv
    <2>2. Account = Leaking!Credit /\ Account' = Leaking!Credit'
      BY <1>1, <1>3 DEF Account
    <2>3. LeakStays => UNCHANGED Ideal!idealVars
      BY <2>2 DEF LeakStays, Ideal!idealVars
    <2>4. LeakGrows => Ideal!Next
      BY <2>2 DEF LeakGrows, Ideal!Next, Ideal!Grow
    <2>5. ASSUME NEW h \in Hosts, LeakPays(h) \/ LeakDeclines(h)  PROVE Ideal!Next
      BY <2>2, <2>5 DEF LeakPays, LeakDeclines, Ideal!Next, Ideal!Admit, Ideal!Refuse
    <2>. QED  BY <1>1, <1>3, <2>1, <2>3, <2>4, <2>5 DEF AccountsInv
  <1>4. CASE limiter \in {"sliding", "fixed"}
    BY <1>1, <1>4 DEF AccountsInv, HasAccounts
  <1>5. CASE UNCHANGED <<vars, windowOnly, limiter>>
    <2>1. /\ now' = now /\ store' = store /\ buckets' = buckets /\ request' = request
          /\ sweep' = sweep /\ admitted' = admitted /\ refused' = refused /\ late' = late
      BY <1>5 DEF vars
    <2>2. TokenInv => TokenInv'
      BY <2>1 DEF TokenInv, TypeOK, Bucket
    <2>3. LeakInv => LeakInv'
      BY <2>1 DEF LeakInv, Leaking!TypeOK, Leaking!Bucket
    <2>4. Credit' = Credit
      BY <2>1 DEF Credit, CreditOf, Refilled
    <2>5. Leaking!Credit' = Leaking!Credit
      BY <2>1 DEF Leaking!Credit, Leaking!CreditOf, Leaking!Drained, Leaking!GivenUp
    <2>6. Account' = Account
      BY <1>1, <2>4, <2>5 DEF Account
    <2>. QED  BY <1>1, <2>1, <2>2, <2>3, <2>6 DEF AccountsInv, Ideal!idealVars
  <1>. QED  BY <1>2, <1>3, <1>4, <1>5 DEF LimiterNext, AccountsInv

\* Both bucket limiters implement the ideal account, for every number of hosts
\* and of requests in flight, every size, rate and cost: refills and leaks
\* computed when a request comes, buckets dropped or replaced while requests
\* still hold them, take nothing from a host and give it nothing.
THEOREM BucketsAreIdeal == LimiterSpec => ImplementsIdeal
  BY AccountsInit, AccountsStep, PTL DEF LimiterSpec, ImplementsIdeal

-----------------------------------------------------------------------------
(* Bursts *)

\* The clock goes on exactly when the accounts grow.
LEMMA TokenMoves ==
  ASSUME TokenInv, Next
  PROVE  \/ now' = now + 1 /\ Grows
         \/ now' = now /\ (Stays \/ \E h \in Hosts : Pays(h) \/ Declines(h))
  <1>1. ASSUME NEW r \in Requests, NEW h \in Hosts, Find(r, h)
        PROVE  now' = now /\ Stays
    BY <1>1, TokenFind DEF Find, history, Stays
  <1>2. ASSUME NEW r \in Requests, Allow(r)
        PROVE  now' = now /\ (Stays \/ \E h \in Hosts : Pays(h) \/ Declines(h))
    BY <1>2, TokenAllow DEF Allow
  <1>3. CASE SweepStarts \/ SweepLocks \/ SweepDrops \/ SweepEnds \/ \E h \in Hosts : SweepChecks(h)
    BY <1>3, TokenSweep DEF SweepStarts, SweepLocks, SweepDrops, SweepEnds, SweepChecks
  <1>4. CASE Tick
    BY <1>4, TokenTick DEF Tick
  <1>. QED  BY <1>1, <1>2, <1>3, <1>4 DEF Next

LEMMA LeakMoves ==
  ASSUME LeakInv, Leaking!Next
  PROVE  \/ now' = now + 1 /\ LeakGrows
         \/ now' = now /\ (LeakStays \/ \E h \in Hosts : LeakPays(h) \/ LeakDeclines(h))
  <1>1. ASSUME NEW r \in Requests, NEW h \in Hosts,
               Leaking!Find(r, h) \/ Leaking!FindExpired(r, h) \/ Leaking!Create(r, h)
        PROVE  now' = now /\ LeakStays
    BY <1>1, LeakFind, LeakCreate DEF Leaking!Find, Leaking!FindExpired, Leaking!Create
  <1>2. ASSUME NEW r \in Requests, Leaking!Allow(r)
        PROVE  now' = now /\ (LeakStays \/ \E h \in Hosts : LeakPays(h) \/ LeakDeclines(h))
    BY <1>2, LeakAllow DEF Leaking!Allow
  <1>3. CASE Leaking!Tick
    BY <1>3, LeakTick DEF Leaking!Tick
  <1>. QED  BY <1>1, <1>2, <1>3 DEF Leaking!Next

LEMMA AccountTypes ==
  ASSUME AccountsInv, HasAccounts
  PROVE  Account \in [Hosts -> 0..Capacity] /\ admitted \in [Hosts -> Nat] /\ now \in Nat
  <1>1. CASE limiter = "token"
    <2>1. TokenInv /\ store \in [Hosts -> Requests \cup {None}] /\ Capacity \in Nat
      BY <1>1, TokenAssumption DEF AccountsInv, TokenInv, TypeOK, TokenAssumption
    <2>2. \A r \in Requests : Refilled(buckets[r]) \in 0..Capacity
      BY <2>1, RefilledType
    <2>3. \A h \in Hosts : CreditOf(h) \in 0..Capacity
      BY <2>1, <2>2 DEF CreditOf
    <2>. QED  BY <1>1, <2>3 DEF AccountsInv, TokenInv, TypeOK, Account, Credit
  <1>2. CASE limiter = "leaking"
    <2>1. LeakInv /\ store \in [Hosts -> Requests \cup {None}] /\ Capacity \in Nat
      BY <1>2, TokenAssumption DEF AccountsInv, LeakInv, Leaking!TypeOK, TokenAssumption
    <2>2. \A r \in Requests : Leaking!Drained(buckets[r]) \in 0..Capacity
      BY <2>1, LeakTypes
    <2>3. \A h \in Hosts : Leaking!CreditOf(h) \in 0..Capacity
      BY <2>1, <2>2 DEF Leaking!CreditOf
    <2>. QED  BY <1>2, <2>3 DEF AccountsInv, LeakInv, Leaking!TypeOK, Account, Leaking!Credit
  <1>. QED  BY <1>1, <1>2 DEF HasAccounts

\* What a step does to the accounts, in either limiter.
LEMMA AccountMoves ==
  ASSUME AccountsInv, HasAccounts, LimiterNext
  PROVE  /\ limiter' = limiter
         /\ \/ /\ now' = now + 1 /\ admitted' = admitted
               /\ Account' = [h \in Hosts |-> Ideal!Least(Capacity, Account[h] + Rate)]
            \/ now' = now /\ admitted' = admitted /\ Account' = Account
            \/ \E g \in Hosts : /\ now' = now /\ admitted' = [admitted EXCEPT ![g] = @ + 1]
                                /\ Account[g] >= Cost
                                /\ Account' = [Account EXCEPT ![g] = @ - Cost]
  <1>1. limiter' = limiter
    BY DEF LimiterNext
  <1>2. CASE limiter = "token"
    <2>1. Account = Credit /\ Account' = Credit'
      BY <1>1, <1>2 DEF Account
    <2>2. TokenInv /\ Next
      BY <1>2 DEF AccountsInv, LimiterNext
    <2>. QED  BY <1>1, <2>1, <2>2, TokenMoves DEF Stays, Grows, Pays, Declines
  <1>3. CASE limiter = "leaking"
    <2>1. Account = Leaking!Credit /\ Account' = Leaking!Credit'
      BY <1>1, <1>3 DEF Account
    <2>2. LeakInv /\ Leaking!Next
      BY <1>3 DEF AccountsInv, LimiterNext
    <2>. QED  BY <1>1, <2>1, <2>2, LeakMoves DEF LeakStays, LeakGrows, LeakPays, LeakDeclines
  <1>. QED  BY <1>2, <1>3 DEF HasAccounts

\* Requests of h since there were n of them, in units.
Paid(h, n) == (admitted[h] - n) * Cost

Burst(h, n, t) == HasAccounts => Paid(h, n) <= Capacity + Rate * (now - t)

\* What the bound rests on: what is left in the account was not spent.
Unspent(h, n, t) == HasAccounts => Paid(h, n) + Account[h] <= Capacity + Rate * (now - t)

LEMMA UnspentStep ==
  ASSUME AccountsInv, [LimiterNext]_<<vars, windowOnly, limiter>>,
         NEW h \in Hosts, NEW n \in Nat, NEW t \in Nat, Unspent(h, n, t)
  PROVE  Unspent(h, n, t)'
  <1> SUFFICES ASSUME HasAccounts'
               PROVE  Paid(h, n)' + Account'[h] <= Capacity + Rate * (now' - t)
    BY DEF Unspent
  <1>1. HasAccounts
    BY DEF HasAccounts, LimiterNext
  <1>2. /\ Account \in [Hosts -> 0..Capacity] /\ admitted \in [Hosts -> Nat] /\ now \in Nat
    BY <1>1, AccountTypes
  <1>3. /\ Cost \in Nat /\ Capacity \in Nat /\ Rate \in Nat
    BY TokenAssumption DEF TokenAssumption
  <1>4. PICK spent \in Int : spent = Paid(h, n)
    BY <1>2, <1>3 DEF Paid
  <1>5. PICK grown \in Int : grown = Rate * (now - t)
    BY <1>2, <1>3
  <1>6. spent + Account[h] <= Capacity + grown
    BY <1>1, <1>4, <1>5 DEF Unspent
  <1>7. CASE now' = now + 1 /\ admitted' = admitted
             /\ Account' = [g \in Hosts |-> Ideal!Least(Capacity, Account[g] + Rate)]
    <2>1. Account'[h] \in Int /\ Account'[h] <= Account[h] + Rate
      BY <1>2, <1>3, <1>7 DEF Ideal!Least
    <2>2. Paid(h, n)' = spent
      BY <1>4, <1>7 DEF Paid
    <2>3. Rate * (now' - t) = grown + Rate
      BY <1>2, <1>3, <1>5, <1>7
    <2>. QED  BY <1>2, <1>3, <1>6, <2>1, <2>2, <2>3
  <1>8. CASE now' = now /\ admitted' = admitted /\ Account' = Account
    BY <1>4, <1>5, <1>6, <1>8 DEF Paid
  <1>9. ASSUME NEW g \in Hosts, now' = now, admitted' = [admitted EXCEPT ![g] = @ + 1],
               Account' = [Account EXCEPT ![g] = @ - Cost]
        PROVE  Paid(h, n)' + Account'[h] <= Capacity + Rate * (now' - t)
    <2>1. CASE g # h
      BY <1>2, <1>4, <1>5, <1>6, <1>9, <2>1 DEF Paid
    <2>2. CASE g = h
      <3>1. admitted'[h] - n = (admitted[h] - n) + 1
        BY <1>2, <1>9, <2>2
      <3>2. Paid(h, n)' = spent + Cost
        BY <1>2, <1>3, <1>4, <3>1 DEF Paid
      <3>3. Account'[h] = Account[h] - Cost
        BY <1>2, <1>9, <2>2
      <3>. QED  BY <1>2, <1>3, <1>5, <1>6, <1>9, <3>2, <3>3
    <2>. QED  BY <2>1, <2>2
  <1>10. CASE UNCHANGED <<vars, windowOnly, limiter>>
    <2>1. now' = now /\ admitted' = admitted /\ Account' = Account
      BY <1>10 DEF vars, history, Account, Credit, CreditOf, Refilled,
                   Leaking!Credit, Leaking!CreditOf, Leaking!GivenUp, Leaking!Drained
    <2>. QED  BY <1>8, <2>1
  <1>. QED  BY <1>1, <1>7, <1>8, <1>9, <1>10, AccountMoves

\* From any moment on, when n requests of h have been admitted by then and the
\* clock shows t, whatever the bucket holds: h is admitted no more often than one
\* full bucket and the rate since then pay for.  (Requests that were admitted from
\* a bucket given up meanwhile are not counted, see `late'.)
THEOREM BurstsAreBounded ==
  ASSUME NEW h \in Hosts, NEW n \in Nat, NEW t \in Nat
  PROVE  LimiterSpec => [](admitted[h] = n /\ now = t /\ HasAccounts => []Burst(h, n, t))
  <1>1. AccountsInv /\ admitted[h] = n /\ now = t /\ HasAccounts => Unspent(h, n, t)
    BY AccountTypes, TokenAssumption DEF Unspent, Paid, TokenAssumption
  <1>2. AccountsInv /\ Unspent(h, n, t) => Burst(h, n, t)
    <2> SUFFICES ASSUME AccountsInv, Unspent(h, n, t), HasAccounts
                 PROVE  Paid(h, n) <= Capacity + Rate * (now - t)
      BY DEF Burst
    <2>1. /\ Account[h] \in Nat /\ admitted[h] \in Nat /\ now \in Nat
          /\ Cost \in Nat /\ Capacity \in Nat /\ Rate \in Nat
      BY AccountTypes, TokenAssumption DEF TokenAssumption
    <2>2. Paid(h, n) \in Int /\ Rate * (now - t) \in Int
      BY <2>1 DEF Paid
    <2>3. Paid(h, n) + Account[h] <= Capacity + Rate * (now - t)
      BY DEF Unspent
    <2>. QED  BY <2>1, <2>2, <2>3
  <1>3. AccountsInv /\ [LimiterNext]_<<vars, windowOnly, limiter>>
        /\ Unspent(h, n, t) => Unspent(h, n, t)'
    BY UnspentStep
  <1>. QED  BY <1>1, <1>2, <1>3, AccountsInit, AccountsStep, PTL DEF LimiterSpec

-----------------------------------------------------------------------------
(* Windows *)

LEMMA WindowFacts ==
  /\ WindowSize \in Nat \ {0}
  /\ SlidingTTL \in Nat /\ SlidingTTL >= WindowSize + 1 * WindowSize
  /\ FixedTTL \in Nat /\ FixedTTL >= WindowSize + 0 * WindowSize
  /\ Start \in Nat /\ Start >= 2 * WindowSize /\ MaxWindowTime \in Nat /\ Limit \in Nat
  BY LimiterAssumption DEF Fixed!FixedWindowAssumption, Sliding!SlidingWindowAssumption

Window(t) == t \div WindowSize

LEMMA WindowsGoOn ==
  ASSUME NEW s \in Nat, NEW t \in Nat, s <= t
  PROVE  /\ Window(s) \in Nat /\ Window(t) \in Nat
         /\ Window(s) <= Window(t)
         /\ \A k \in Nat : s + k * WindowSize <= t => Window(s) + k <= Window(t)
  <1> DEFINE W == WindowSize
             q == s \div W
             p == t \div W
  <1>1. W \in Nat \ {0}
    BY WindowFacts
  <1>2. /\ q \in Nat /\ s = (W * q) + (s % W) /\ s % W \in 0..W-1
        /\ p \in Nat /\ t = (W * p) + (t % W) /\ t % W \in 0..W-1
    BY <1>1
  <1>3. ASSUME NEW k \in Nat, s + k * W <= t  PROVE q + k <= p
    <2>1. W * q + k * W <= W * p + (W - 1)
      <3> HIDE DEF q, p, W
      <3>1. /\ W * q \in Nat /\ W * p \in Nat /\ k * W \in Nat
        BY <1>1, <1>2
      <3>. QED  BY <1>1, <1>2, <1>3, <3>1
    <2> HIDE DEF q, p, W
    <2>2. ASSUME q + k > p  PROVE FALSE
      <3>1. PICK d \in Nat : q + k = (p + 1) + d
        <4>1. (q + k) - (p + 1) \in Nat /\ q + k = (p + 1) + ((q + k) - (p + 1))
          BY <1>2, <2>2
        <4>. QED  BY <4>1
      <3>2. W * (q + k) = W * q + k * W
        BY <1>1, <1>2
      <3>3. W * ((p + 1) + d) = W * p + W + W * d
        BY <1>1, <1>2
      <3>4. W * d \in Nat /\ W * p \in Nat /\ W * q \in Nat /\ k * W \in Nat
        BY <1>1, <1>2
      <3>5. W * q + k * W = W * p + W + W * d
        BY <3>1, <3>2, <3>3
      <3>. QED  BY <1>1, <2>1, <3>4, <3>5
    <2>. QED  BY <1>2, <2>2
  <1>4. q <= p
    <2>1. s + 0 * W <= t /\ q \in Nat
      BY <1>1, <1>2
    <2>2. q + 0 <= p
      BY <1>3, <2>1
    <2>. QED  BY <2>1, <2>2
  <1>. QED  BY <1>2, <1>3, <1>4 DEF Window

-----------------------------------------------------------------------------
(* The middleware of the window limiters *)

Owns(m, h) == request[m].host = h /\ request[m].pc \in {"asking", "done"}

\* Whose manager is whose, and what the clock has passed.
MiddleInv ==
  /\ now \in Nat /\ now >= Start
  /\ store \in [Hosts -> Requests \cup {None}]
  /\ request \in [Requests -> [pc: {"idle", "checking", "dropping", "creating", "asking", "done"},
                               host: Hosts \cup {None}, at: Nat,
                               manager: Requests \cup {None}]]
  /\ \A r \in Requests : managers[r].lastSeen \in Nat /\ managers[r].lastSeen <= now
  /\ \A r \in Requests : request[r].pc \notin {"idle", "done"} =>
       request[r].host \in Hosts /\ request[r].at <= now
  /\ \A r \in Requests : request[r].pc \in {"checking", "dropping", "asking"} =>
       request[r].manager \in Requests /\ Owns(request[r].manager, request[r].host)
  /\ \A h \in Hosts : store[h] # None => Owns(store[h], h)
  /\ IsFiniteSet(passed)
  /\ \A p \in passed : p.request \in Requests /\ request[p.request].pc = "done"

In(r, h) == request[r].pc \notin {"idle", "done"} /\ request[r].host = h

\* Where a host's one request is, and what it has found.
Serial(h, ttl) ==
  /\ \A q, r \in Requests : In(q, h) /\ In(r, h) => q = r
  /\ \A r \in Requests : In(r, h) =>
       /\ request[r].pc \in {"checking", "dropping", "asking"} => request[r].manager = store[h]
       /\ request[r].pc = "creating" => store[h] = None
       /\ request[r].pc = "dropping" => request[r].at - managers[store[h]].lastSeen >= ttl

Passes(h, w) == Cardinality({p \in passed : p.host = h /\ Window(p.at) = w})

NothingSince(h, w) == \A v \in Nat : v >= w => Passes(h, v) = 0

\* A host has no request admitted after the last its manager saw, nor, where it
\* has no manager or a new one, in the window of that or the k before.
Quiet(h, k) ==
  /\ store[h] = None => NothingSince(h, Window(now) - k)
  /\ \A r \in Requests : In(r, h) /\ request[r].pc = "creating" =>
       NothingSince(h, Window(request[r].at) - k)
  /\ store[h] # None =>
       LET m == managers[store[h]]
       IN  /\ NothingSince(h, Window(m.lastSeen) + 1)
           /\ m.counter.windowId = 0 => NothingSince(h, Window(m.lastSeen) - k)
           /\ m.counter.windowId # 0 => m.counter.windowId = Window(m.lastSeen)

SerialInv(k, ttl) ==
  /\ MiddleInv
  /\ \A h \in Hosts \ overlap : Serial(h, ttl) /\ Quiet(h, k)

-----------------------------------------------------------------------------
(* The steps the two limiters share, whatever their counters hold *)

LookUpStep(r, h) ==
  /\ request[r].pc = "idle"
  /\ request' = [request EXCEPT ![r] =
       [pc |-> IF store[h] = None THEN "creating" ELSE "checking",
        host |-> h, at |-> now, manager |-> store[h]]]
  /\ overlap' = IF \A q \in Requests : ~In(q, h) THEN overlap ELSE overlap \cup {h}
  /\ now' = now /\ store' = store /\ managers' = managers /\ passed' = passed

CheckStep(r, ttl) ==
  /\ request[r].pc = "checking"
  /\ request' = [request EXCEPT ![r].pc =
       IF request[r].at - managers[request[r].manager].lastSeen >= ttl
       THEN "dropping" ELSE "asking"]
  /\ now' = now /\ store' = store /\ managers' = managers /\ passed' = passed
  /\ overlap' = overlap

DropStep(r, same) ==
  /\ request[r].pc = "dropping"
  /\ same <=> store[request[r].host] = request[r].manager
  /\ store' = IF same THEN [store EXCEPT ![request[r].host] = None] ELSE store
  /\ request' = [request EXCEPT ![r].pc = IF same THEN "creating" ELSE "asking"]
  /\ now' = now /\ managers' = managers /\ passed' = passed /\ overlap' = overlap

OthersKept(m) == \A q \in Requests : q # m => managers'[q] = managers[q]

CreateStep(r) ==
  /\ request[r].pc = "creating"
  /\ store' = [store EXCEPT ![request[r].host] = r]
  /\ request' = [request EXCEPT ![r].pc = "asking", ![r].manager = r]
  /\ managers'[r].lastSeen = request[r].at /\ managers'[r].counter.windowId = 0
  /\ OthersKept(r)
  /\ now' = now /\ passed' = passed /\ overlap' = overlap

AskStep(r, passes) ==
  /\ request[r].pc = "asking"
  /\ managers'[request[r].manager].lastSeen = now
  /\ managers'[request[r].manager].counter.windowId = Window(now)
  /\ OthersKept(request[r].manager)
  /\ passed' = IF passes
               THEN passed \cup {[request |-> r, host |-> request[r].host, at |-> now]}
               ELSE passed
  /\ request' = [request EXCEPT ![r].pc = "done"]
  /\ now' = now /\ store' = store /\ overlap' = overlap

TickStep ==
  /\ now' = now + 1
  /\ store' = store /\ managers' = managers /\ request' = request
  /\ passed' = passed /\ overlap' = overlap

-----------------------------------------------------------------------------
\* A request's pass is counted in its host's window, and nowhere else.
LEMMA PassesType ==
  ASSUME MiddleInv, NEW h, NEW w
  PROVE  Passes(h, w) \in Nat
  <1>1. IsFiniteSet({p \in passed : p.host = h /\ Window(p.at) = w})
    BY FS_Subset DEF MiddleInv
  <1>. QED  BY <1>1, FS_CardinalityType DEF Passes

LEMMA PassesStay ==
  ASSUME passed' = passed, NEW h, NEW w
  PROVE  Passes(h, w)' = Passes(h, w)
  BY DEF Passes

LEMMA PassesGrow ==
  ASSUME MiddleInv, NEW r \in Requests, NEW passes \in BOOLEAN, AskStep(r, passes),
         NEW h, NEW w
  PROVE  Passes(h, w)' = Passes(h, w)
           + (IF passes /\ h = request[r].host /\ w = Window(now) THEN 1 ELSE 0)
  <1> DEFINE p == [request |-> r, host |-> request[r].host, at |-> now]
             Of(S) == {x \in S : x.host = h /\ Window(x.at) = w}
  <1>1. Passes(h, w) = Cardinality(Of(passed)) /\ Passes(h, w)' = Cardinality(Of(passed'))
    BY DEF Passes, Window
  <1>2. Passes(h, w) \in Nat
    BY PassesType
  <1>3. passed' = (IF passes THEN passed \cup {p} ELSE passed) /\ request[r].pc = "asking"
    BY DEF AskStep
  <1>4. p.host = request[r].host /\ p.at = now
    OBVIOUS
  <1>5. CASE passes /\ h = request[r].host /\ w = Window(now)
    <2>1. p \notin passed
      BY <1>3 DEF MiddleInv
    <2>2. Of(passed') = Of(passed) \cup {p}
      BY <1>3, <1>4, <1>5
    <2>3. IsFiniteSet(Of(passed)) /\ p \notin Of(passed)
      BY <2>1, FS_Subset DEF MiddleInv
    <2>4. Cardinality(Of(passed')) = Cardinality(Of(passed)) + 1
      BY <2>2, <2>3, FS_AddElement
    <2>. QED  BY <1>1, <1>5, <2>4
  <1>6. CASE ~(passes /\ h = request[r].host /\ w = Window(now))
    <2>1. Of(passed') = Of(passed)
      BY <1>3, <1>4, <1>6
    <2>2. Passes(h, w)' = Passes(h, w)
      BY <1>1, <2>1
    <2> HIDE DEF p, Of
    <2>. QED  BY <1>2, <1>6, <2>2
  <1>. QED  BY <1>5, <1>6

-----------------------------------------------------------------------------
\* Each step of the middleware keeps the account of whose manager is whose.
Kinds == [pc: {"idle", "checking", "dropping", "creating", "asking", "done"},
          host: Hosts \cup {None}, at: Nat, manager: Requests \cup {None}]

LEMMA LookUpMiddle ==
  ASSUME MiddleInv, NEW r \in Requests, NEW h \in Hosts, LookUpStep(r, h)
  PROVE  MiddleInv'
  <1> DEFINE new == [pc |-> IF store[h] = None THEN "creating" ELSE "checking",
                     host |-> h, at |-> now, manager |-> store[h]]
  <1>1. /\ request[r].pc = "idle" /\ request' = [request EXCEPT ![r] = new]
        /\ now' = now /\ store' = store /\ managers' = managers /\ passed' = passed
    BY DEF LookUpStep
  <1>2. request' \in [Requests -> Kinds]
    BY <1>1 DEF MiddleInv, Kinds
  <1>3. request'[r] = new /\ \A q \in Requests : q # r => request'[q] = request[q]
    BY <1>1 DEF MiddleInv
  <1>4. /\ new.pc \in {"creating", "checking"} /\ new.host = h /\ new.at = now
        /\ new.manager = store[h] /\ (new.pc = "checking" => store[h] # None)
    OBVIOUS
  <1> HIDE DEF new
  <1>5. \A m \in Requests : \A g : Owns(m, g) => Owns(m, g)'
    BY <1>1, <1>3 DEF Owns
  <1>6. ASSUME NEW q \in Requests, request'[q].pc \in {"checking", "dropping", "asking"}
        PROVE  request'[q].manager \in Requests /\ Owns(request[q].manager, request[q].host)'
    <2>1. CASE q # r
      <3>1. /\ request'[q] = request[q] /\ request[q].manager \in Requests
            /\ Owns(request[q].manager, request[q].host)
        BY <1>3, <1>6, <2>1 DEF MiddleInv
      <3>. QED  BY <1>5, <3>1 DEF Owns
    <2>2. CASE q = r
      <3>1. /\ request'[r].manager = store[h] /\ request'[r].host = h /\ store[h] \in Requests
            /\ Owns(store[h], h)
        BY <1>3, <1>4, <1>6, <2>2 DEF MiddleInv
      <3>. QED  BY <1>5, <2>2, <3>1 DEF Owns
    <2>. QED  BY <2>1, <2>2
  <1>7. \A q \in Requests : request'[q].pc \notin {"idle", "done"} =>
          request'[q].host \in Hosts /\ request'[q].at <= now'
    BY <1>1, <1>3, <1>4 DEF MiddleInv
  <1>8. \A g \in Hosts : store'[g] # None => Owns(store[g], g)'
    BY <1>1, <1>5 DEF MiddleInv, Owns
  <1>9. \A p \in passed' : p.request \in Requests /\ request'[p.request].pc = "done"
    BY <1>1, <1>3 DEF MiddleInv
  <1>. QED  BY <1>1, <1>2, <1>6, <1>7, <1>8, <1>9 DEF MiddleInv, Kinds

LEMMA CheckMiddle ==
  ASSUME MiddleInv, NEW r \in Requests, NEW ttl, CheckStep(r, ttl)
  PROVE  MiddleInv'
  <1>1. PICK pc \in {"dropping", "asking"} : request' = [request EXCEPT ![r].pc = pc]
    BY DEF CheckStep
  <1>2. /\ request[r].pc = "checking"
        /\ now' = now /\ store' = store /\ managers' = managers /\ passed' = passed
    BY DEF CheckStep
  <1>3. \A q \in Requests : /\ request'[q].host = request[q].host
                            /\ request'[q].at = request[q].at
                            /\ request'[q].manager = request[q].manager
                            /\ request'[q].pc = IF q = r THEN pc ELSE request[q].pc
    BY <1>1 DEF MiddleInv
  <1>4. request' \in [Requests -> Kinds]
    <2>1. [request[r] EXCEPT !.pc = pc] \in Kinds
      BY DEF MiddleInv, Kinds
    <2>. QED  BY <1>1, <2>1 DEF MiddleInv, Kinds
  <1>5. \A m \in Requests : \A g : Owns(m, g) => Owns(m, g)'
    BY <1>2, <1>3 DEF Owns
  <1>6. \A q \in Requests : request'[q].pc \in {"checking", "dropping", "asking"} =>
          request'[q].manager \in Requests /\ Owns(request[q].manager, request[q].host)'
    <2> SUFFICES ASSUME NEW q \in Requests, request'[q].pc \in {"checking", "dropping", "asking"}
                 PROVE  request'[q].manager \in Requests /\ Owns(request[q].manager, request[q].host)'
      OBVIOUS
    <2>1. request[q].pc \in {"checking", "dropping", "asking"}
      BY <1>2, <1>3
    <2>2. request[q].manager \in Requests /\ Owns(request[q].manager, request[q].host)
      BY <2>1 DEF MiddleInv
    <2>. QED  BY <1>3, <1>5, <2>2 DEF Owns
  <1>7. \A q \in Requests : request'[q].pc \notin {"idle", "done"} =>
          request'[q].host \in Hosts /\ request'[q].at <= now'
    BY <1>2, <1>3 DEF MiddleInv
  <1>8. \A g \in Hosts : store'[g] # None => Owns(store[g], g)'
    BY <1>2, <1>5 DEF MiddleInv, Owns
  <1>9. \A p \in passed' : p.request \in Requests /\ request'[p.request].pc = "done"
    BY <1>2, <1>3 DEF MiddleInv
  <1>. QED  BY <1>2, <1>4, <1>6, <1>7, <1>8, <1>9 DEF MiddleInv, Kinds

LEMMA DropMiddle ==
  ASSUME MiddleInv, NEW r \in Requests, NEW same \in BOOLEAN, DropStep(r, same)
  PROVE  MiddleInv'
  <1>1. PICK pc \in {"creating", "asking"} :
          request' = [request EXCEPT ![r].pc = pc] /\ (pc = "creating" <=> same)
    BY DEF DropStep
  <1>2. /\ request[r].pc = "dropping"
        /\ store' = IF same THEN [store EXCEPT ![request[r].host] = None] ELSE store
        /\ now' = now /\ managers' = managers /\ passed' = passed
    BY DEF DropStep
  <1>3. \A q \in Requests : /\ request'[q].host = request[q].host
                            /\ request'[q].at = request[q].at
                            /\ request'[q].manager = request[q].manager
                            /\ request'[q].pc = IF q = r THEN pc ELSE request[q].pc
    BY <1>1 DEF MiddleInv
  <1>4. request' \in [Requests -> Kinds]
    <2>1. [request[r] EXCEPT !.pc = pc] \in Kinds
      BY DEF MiddleInv, Kinds
    <2>. QED  BY <1>1, <2>1 DEF MiddleInv, Kinds
  <1>5. \A m \in Requests : \A g : Owns(m, g) => Owns(m, g)'
    BY <1>2, <1>3 DEF Owns
  <1>6. \A q \in Requests : request'[q].pc \in {"checking", "dropping", "asking"} =>
          request'[q].manager \in Requests /\ Owns(request[q].manager, request[q].host)'
    <2> SUFFICES ASSUME NEW q \in Requests, request'[q].pc \in {"checking", "dropping", "asking"}
                 PROVE  request'[q].manager \in Requests /\ Owns(request[q].manager, request[q].host)'
      OBVIOUS
    <2>1. request[q].pc \in {"checking", "dropping", "asking"}
      BY <1>2, <1>3
    <2>2. request[q].manager \in Requests /\ Owns(request[q].manager, request[q].host)
      BY <2>1 DEF MiddleInv
    <2>. QED  BY <1>3, <1>5, <2>2 DEF Owns
  <1>7. \A q \in Requests : request'[q].pc \notin {"idle", "done"} =>
          request'[q].host \in Hosts /\ request'[q].at <= now'
    BY <1>2, <1>3 DEF MiddleInv
  <1>8. store' \in [Hosts -> Requests \cup {None}]
        /\ \A g \in Hosts : store'[g] # None => store'[g] = store[g]
    BY <1>2 DEF MiddleInv
  <1>9. \A g \in Hosts : store'[g] # None => Owns(store[g], g)'
    BY <1>5, <1>8 DEF MiddleInv, Owns
  <1>10. \A p \in passed' : p.request \in Requests /\ request'[p.request].pc = "done"
    BY <1>2, <1>3 DEF MiddleInv
  <1>. QED  BY <1>2, <1>4, <1>6, <1>7, <1>8, <1>9, <1>10 DEF MiddleInv, Kinds

LEMMA CreateMiddle ==
  ASSUME MiddleInv, NEW r \in Requests, CreateStep(r)
  PROVE  MiddleInv'
  <1>1. /\ request[r].pc = "creating" /\ request[r].host \in Hosts
        /\ request[r].at \in Nat /\ request[r].at <= now
    BY DEF CreateStep, MiddleInv
  <1>2. PICK h \in Hosts : h = request[r].host
    BY <1>1
  <1>3. /\ store' = [store EXCEPT ![h] = r]
        /\ request' = [request EXCEPT ![r].pc = "asking", ![r].manager = r]
        /\ managers'[r].lastSeen = request[r].at
        /\ \A q \in Requests : q # r => managers'[q] = managers[q]
        /\ now' = now /\ passed' = passed
    BY <1>2 DEF CreateStep, OthersKept
  <1> DEFINE asked == [request[r] EXCEPT !.pc = "asking"]
             new == [asked EXCEPT !.manager = r]
  <1>4. asked \in Kinds /\ asked.pc = "asking" /\ asked.host = h
    BY <1>2 DEF MiddleInv, Kinds
  <1>5. request' = [request EXCEPT ![r] = new]
    BY <1>3 DEF MiddleInv
  <1> HIDE DEF asked
  <1>6. new \in Kinds /\ new.pc = "asking" /\ new.host = h /\ new.at = asked.at /\ new.manager = r
    BY <1>4 DEF Kinds
  <1> HIDE DEF new
  <1>7. asked.at = request[r].at
    BY DEF MiddleInv, asked
  <1>8. request' \in [Requests -> Kinds] /\ request'[r] = new
        /\ \A q \in Requests : q # r => request'[q] = request[q]
    BY <1>5, <1>6 DEF MiddleInv, Kinds
  <1>9. Owns(r, h)' /\ \A m \in Requests : \A g : Owns(m, g) => Owns(m, g)'
    BY <1>1, <1>6, <1>8 DEF Owns
  <1>10. \A q \in Requests : request'[q].pc \in {"checking", "dropping", "asking"} =>
           request'[q].manager \in Requests /\ Owns(request[q].manager, request[q].host)'
    <2> SUFFICES ASSUME NEW q \in Requests, request'[q].pc \in {"checking", "dropping", "asking"}
                 PROVE  request'[q].manager \in Requests /\ Owns(request[q].manager, request[q].host)'
      OBVIOUS
    <2>1. CASE q = r
      BY <1>6, <1>8, <1>9, <2>1 DEF Owns
    <2>2. CASE q # r
      <3>1. /\ request'[q] = request[q] /\ request[q].manager \in Requests
            /\ Owns(request[q].manager, request[q].host)
        BY <1>8, <2>2 DEF MiddleInv
      <3>. QED  BY <1>9, <3>1 DEF Owns
    <2>. QED  BY <2>1, <2>2
  <1>11. \A q \in Requests : request'[q].pc \notin {"idle", "done"} =>
           request'[q].host \in Hosts /\ request'[q].at <= now'
    BY <1>1, <1>3, <1>6, <1>7, <1>8 DEF MiddleInv
  <1>12. store' \in [Hosts -> Requests \cup {None}]
         /\ \A g \in Hosts : store'[g] = IF g = h THEN r ELSE store[g]
    BY <1>3 DEF MiddleInv
  <1>13. \A g \in Hosts : store'[g] # None => Owns(store[g], g)'
    <2> SUFFICES ASSUME NEW g \in Hosts, store'[g] # None  PROVE Owns(store[g], g)'
      OBVIOUS
    <2>1. CASE g = h
      BY <1>9, <1>12, <2>1 DEF Owns
    <2>2. CASE g # h
      <3>1. store'[g] = store[g] /\ store[g] \in Requests /\ Owns(store[g], g)
        BY <1>12, <2>2 DEF MiddleInv
      <3>. QED  BY <1>9, <3>1 DEF Owns
    <2>. QED  BY <2>1, <2>2
  <1>14. \A p \in passed' : p.request \in Requests /\ request'[p.request].pc = "done"
    BY <1>1, <1>3, <1>8 DEF MiddleInv
  <1>15. \A q \in Requests : managers'[q].lastSeen \in Nat /\ managers'[q].lastSeen <= now'
    BY <1>1, <1>3 DEF MiddleInv
  <1>. QED  BY <1>3, <1>8, <1>10, <1>11, <1>12, <1>13, <1>14, <1>15 DEF MiddleInv, Kinds

LEMMA AskMiddle ==
  ASSUME MiddleInv, NEW r \in Requests, NEW passes \in BOOLEAN, AskStep(r, passes)
  PROVE  MiddleInv'
  <1>1. /\ request[r].pc = "asking"
        /\ request' = [request EXCEPT ![r].pc = "done"]
        /\ now' = now /\ store' = store
    BY DEF AskStep
  <1>2. \A q \in Requests : /\ request'[q].host = request[q].host
                            /\ request'[q].at = request[q].at
                            /\ request'[q].manager = request[q].manager
                            /\ request'[q].pc = IF q = r THEN "done" ELSE request[q].pc
    BY <1>1 DEF MiddleInv
  <1>3. request' \in [Requests -> Kinds]
    <2>1. [request[r] EXCEPT !.pc = "done"] \in Kinds
      BY DEF MiddleInv, Kinds
    <2>. QED  BY <1>1, <2>1 DEF MiddleInv, Kinds
  <1>4. \A m \in Requests : \A g : Owns(m, g) => Owns(m, g)'
    BY <1>1, <1>2 DEF Owns
  <1>5. \A q \in Requests : request'[q].pc \in {"checking", "dropping", "asking"} =>
          request'[q].manager \in Requests /\ Owns(request[q].manager, request[q].host)'
    <2> SUFFICES ASSUME NEW q \in Requests, request'[q].pc \in {"checking", "dropping", "asking"}
                 PROVE  request'[q].manager \in Requests /\ Owns(request[q].manager, request[q].host)'
      OBVIOUS
    <2>1. request[q].pc \in {"checking", "dropping", "asking"}
      BY <1>1, <1>2
    <2>2. request[q].manager \in Requests /\ Owns(request[q].manager, request[q].host)
      BY <2>1 DEF MiddleInv
    <2>. QED  BY <1>2, <1>4, <2>2 DEF Owns
  <1>6. \A q \in Requests : request'[q].pc \notin {"idle", "done"} =>
          request'[q].host \in Hosts /\ request'[q].at <= now'
    BY <1>1, <1>2 DEF MiddleInv
  <1>7. \A g \in Hosts : store'[g] # None => Owns(store[g], g)'
    BY <1>1, <1>4 DEF MiddleInv, Owns
  <1>8. PICK p : p.request = r /\ passed' = IF passes THEN passed \cup {p} ELSE passed
    <2> DEFINE p == [request |-> r, host |-> request[r].host, at |-> now]
    <2>1. p.request = r /\ passed' = IF passes THEN passed \cup {p} ELSE passed
      BY DEF AskStep
    <2>. QED  BY <2>1
  <1>9. \A x \in passed' : x.request \in Requests /\ request'[x.request].pc = "done"
    BY <1>2, <1>8 DEF MiddleInv
  <1>10. IsFiniteSet(passed')
    BY <1>8, FS_AddElement DEF MiddleInv
  <1>11. PICK m \in Requests : m = request[r].manager
    BY <1>1 DEF MiddleInv
  <1>12. \A q \in Requests : managers'[q].lastSeen \in Nat /\ managers'[q].lastSeen <= now'
    BY <1>1, <1>11 DEF MiddleInv, AskStep, OthersKept
  <1>. QED  BY <1>1, <1>3, <1>5, <1>6, <1>7, <1>9, <1>10, <1>12 DEF MiddleInv, Kinds

LEMMA TickMiddle ==
  ASSUME MiddleInv, TickStep
  PROVE  MiddleInv'
  <1>1. \A m, g : Owns(m, g)' <=> Owns(m, g)
    BY DEF TickStep, Owns
  <1>2. \A r \in Requests : request[r].pc \in {"checking", "dropping", "asking"} =>
          request[r].manager \in Requests /\ Owns(request[r].manager, request[r].host)'
    BY <1>1 DEF MiddleInv, TickStep, Owns
  <1>3. \A g \in Hosts : store[g] # None => Owns(store[g], g)'
    BY <1>1 DEF MiddleInv, TickStep, Owns
  <1>4. \A r \in Requests : /\ managers[r].lastSeen \in Nat /\ managers[r].lastSeen <= now'
                            /\ request[r].at <= now \/ request[r].pc \in {"idle", "done"}
                            /\ request[r].at \in Nat
    BY WindowFacts DEF MiddleInv, TickStep
  <1>5. now' \in Nat /\ now' >= Start /\ \A n \in Nat : n <= now => n <= now'
    BY WindowFacts DEF MiddleInv, TickStep
  <1>. QED  BY <1>2, <1>3, <1>4, <1>5, Zenon DEF MiddleInv, TickStep

-----------------------------------------------------------------------------
\* Each step keeps what is known of a host whose requests do not overlap.  The
\* idle time after which a manager is dropped is that of a window and k more.
Gap(k, ttl) == k \in {0, 1} /\ ttl \in Nat /\ ttl >= WindowSize + k * WindowSize

Known(h, k, ttl) == Serial(h, ttl) /\ Quiet(h, k)

LEMMA LookUpSerial ==
  ASSUME NEW k, NEW ttl, Gap(k, ttl), SerialInv(k, ttl),
         NEW r \in Requests, NEW h \in Hosts, LookUpStep(r, h), NEW g \in Hosts, g \notin overlap'
  PROVE  Known(g, k, ttl)'
  <1> DEFINE new == [pc |-> IF store[h] = None THEN "creating" ELSE "checking",
                     host |-> h, at |-> now, manager |-> store[h]]
  <1>1. /\ request[r].pc = "idle" /\ request' = [request EXCEPT ![r] = new]
        /\ now' = now /\ store' = store /\ managers' = managers /\ passed' = passed
    BY DEF LookUpStep
  <1>2. request'[r] = new /\ \A q \in Requests : q # r => request'[q] = request[q]
    BY <1>1 DEF SerialInv, MiddleInv
  <1>3. /\ new.pc = IF store[h] = None THEN "creating" ELSE "checking"
        /\ new.host = h /\ new.at = now /\ new.manager = store[h]
    OBVIOUS
  <1> HIDE DEF new
  <1>4. g \notin overlap /\ Serial(g, ttl) /\ Quiet(g, k)
    BY DEF SerialInv, LookUpStep
  <1>5. h = g => \A q \in Requests : ~In(q, g)
    BY DEF LookUpStep
  <1>6. \A v : Passes(g, v)' = Passes(g, v)
    BY <1>1, PassesStay
  <1>7. \A q \in Requests : q # r => (In(q, g)' <=> In(q, g))
    BY <1>2 DEF In
  <1>8. In(r, g)' <=> g = h
    BY <1>2, <1>3 DEF In
  <1>9. Serial(g, ttl)'
    <2>1. \A p, q \in Requests : In(p, g)' /\ In(q, g)' => p = q
      BY <1>4, <1>5, <1>7, <1>8 DEF Serial
    <2>2. ASSUME NEW q \in Requests, In(q, g)'
          PROVE  /\ request'[q].pc \in {"checking", "dropping", "asking"} => request'[q].manager = store'[g]
                 /\ request'[q].pc = "creating" => store'[g] = None
                 /\ request'[q].pc = "dropping" => request'[q].at - managers'[store'[g]].lastSeen >= ttl
      <3>1. CASE q = r
        BY <1>1, <1>2, <1>3, <1>8, <2>2, <3>1
      <3>2. CASE q # r
        BY <1>1, <1>2, <1>4, <1>7, <2>2, <3>2 DEF Serial
      <3>. QED  BY <3>1, <3>2
    <2>. QED  BY <2>1, <2>2 DEF Serial
  <1>10. Quiet(g, k)'
    <2>1. ASSUME NEW q \in Requests, In(q, g)', request'[q].pc = "creating"
          PROVE  \A v \in Nat : v >= Window(request'[q].at) - k => Passes(g, v)' = 0
      <3>1. CASE q = r
        BY <1>2, <1>3, <1>4, <1>6, <1>8, <2>1, <3>1 DEF Quiet, NothingSince
      <3>2. CASE q # r
        BY <1>2, <1>4, <1>6, <1>7, <2>1, <3>2 DEF Quiet, NothingSince
      <3>. QED  BY <3>1, <3>2
    <2>. QED  BY <1>1, <1>4, <1>6, <2>1 DEF Quiet, NothingSince, Window
  <1>. QED  BY <1>9, <1>10 DEF Known

LEMMA CheckSerial ==
  ASSUME NEW k, NEW ttl, Gap(k, ttl), SerialInv(k, ttl),
         NEW r \in Requests, CheckStep(r, ttl), NEW g \in Hosts, g \notin overlap'
  PROVE  Known(g, k, ttl)'
  <1>1. PICK pc \in {"dropping", "asking"} :
          /\ request' = [request EXCEPT ![r].pc = pc]
          /\ pc = "dropping" => request[r].at - managers[request[r].manager].lastSeen >= ttl
    BY DEF CheckStep
  <1>2. /\ request[r].pc = "checking" /\ overlap' = overlap
        /\ now' = now /\ store' = store /\ managers' = managers /\ passed' = passed
    BY DEF CheckStep
  <1>3. \A q \in Requests : /\ request'[q].host = request[q].host
                            /\ request'[q].at = request[q].at
                            /\ request'[q].manager = request[q].manager
                            /\ request'[q].pc = IF q = r THEN pc ELSE request[q].pc
    BY <1>1 DEF SerialInv, MiddleInv
  <1>4. Serial(g, ttl) /\ Quiet(g, k)
    BY <1>2 DEF SerialInv
  <1>5. \A q \in Requests : In(q, g)' <=> In(q, g)
    BY <1>2, <1>3 DEF In
  <1>6. \A v : Passes(g, v)' = Passes(g, v)
    BY <1>2, PassesStay
  <1>7. Serial(g, ttl)'
    <2>1. \A p, q \in Requests : In(p, g)' /\ In(q, g)' => p = q
      BY <1>4, <1>5 DEF Serial
    <2>2. ASSUME NEW q \in Requests, In(q, g)'
          PROVE  /\ request'[q].pc \in {"checking", "dropping", "asking"} => request'[q].manager = store'[g]
                 /\ request'[q].pc = "creating" => store'[g] = None
                 /\ request'[q].pc = "dropping" => request'[q].at - managers'[store'[g]].lastSeen >= ttl
      <3>1. CASE q = r
        BY <1>1, <1>2, <1>3, <1>4, <1>5, <2>2, <3>1 DEF Serial
      <3>2. CASE q # r
        BY <1>2, <1>3, <1>4, <1>5, <2>2, <3>2 DEF Serial
      <3>. QED  BY <3>1, <3>2
    <2>. QED  BY <2>1, <2>2 DEF Serial
  <1>8. Quiet(g, k)'
    <2>1. ASSUME NEW q \in Requests, In(q, g)', request'[q].pc = "creating"
          PROVE  \A v \in Nat : v >= Window(request'[q].at) - k => Passes(g, v)' = 0
      <3>1. request[q].pc = "creating" /\ request'[q].at = request[q].at
        BY <1>3, <2>1
      <3>. QED  BY <1>4, <1>5, <1>6, <2>1, <3>1 DEF Quiet, NothingSince
    <2>. QED  BY <1>2, <1>4, <1>6, <2>1 DEF Quiet, NothingSince, Window
  <1>. QED  BY <1>7, <1>8 DEF Known

LEMMA DropSerial ==
  ASSUME NEW k, NEW ttl, Gap(k, ttl), SerialInv(k, ttl),
         NEW r \in Requests, NEW same \in BOOLEAN, DropStep(r, same),
         NEW g \in Hosts, g \notin overlap'
  PROVE  Known(g, k, ttl)'
  <1>1. /\ request[r].pc = "dropping" /\ request[r].host \in Hosts
        /\ overlap' = overlap
        /\ now' = now /\ managers' = managers /\ passed' = passed
    BY DEF DropStep, SerialInv, MiddleInv
  <1>2. PICK h \in Hosts : h = request[r].host
    BY <1>1
  <1>3. PICK pc \in {"creating", "asking"} :
          request' = [request EXCEPT ![r].pc = pc] /\ (pc = "creating" <=> same)
    BY DEF DropStep
  <1>4. \A q \in Requests : /\ request'[q].host = request[q].host
                            /\ request'[q].at = request[q].at
                            /\ request'[q].manager = request[q].manager
                            /\ request'[q].pc = IF q = r THEN pc ELSE request[q].pc
    BY <1>3 DEF SerialInv, MiddleInv
  <1>5. /\ \A f \in Hosts : store'[f] = IF same /\ f = h THEN None ELSE store[f]
        /\ same <=> store[h] = request[r].manager
    BY <1>2 DEF DropStep, SerialInv, MiddleInv
  <1>6. Serial(g, ttl) /\ Quiet(g, k)
    BY <1>1 DEF SerialInv
  <1>7. \A q \in Requests : In(q, g)' <=> In(q, g)
    BY <1>1, <1>3, <1>4 DEF In
  <1>8. \A v : Passes(g, v)' = Passes(g, v)
    BY <1>1, PassesStay
  <1>9. CASE g # h
    <2>1. \A q \in Requests : In(q, g) => q # r /\ request'[q].pc = request[q].pc
      BY <1>2, <1>4, <1>9 DEF In
    <2>2. store'[g] = store[g]
      BY <1>5, <1>9
    <2>3. Serial(g, ttl)'
      BY <1>1, <1>4, <1>6, <1>7, <2>1, <2>2 DEF Serial
    <2>4. Quiet(g, k)'
      BY <1>1, <1>4, <1>6, <1>7, <1>8, <2>1, <2>2 DEF Quiet, NothingSince, Window
    <2>. QED  BY <2>3, <2>4 DEF Known
  \* The host's one request drops the manager it has found to be expired.
  <1>10. CASE g = h
    <2>1. In(r, g)
      BY <1>1, <1>2, <1>10 DEF In
    <2>2. \A q \in Requests : In(q, g) => q = r
      BY <1>6, <2>1 DEF Serial
    <2>3. /\ request[r].manager = store[g]
          /\ request[r].at - managers[store[g]].lastSeen >= ttl
      BY <1>1, <1>6, <2>1 DEF Serial
    <2>4. same /\ store'[g] = None
      BY <1>2, <1>5, <1>10, <2>3
    <2>5. request'[r].pc = "creating" /\ request'[r].at = request[r].at
      BY <1>3, <1>4, <2>4
    <2>6. Serial(g, ttl)'
      BY <1>7, <2>2, <2>4, <2>5 DEF Serial
    <2>7. store[g] \in Requests
      BY <1>1, <2>3 DEF SerialInv, MiddleInv
    <2>8. PICK s \in Nat, t \in Nat : s = managers[store[g]].lastSeen /\ t = request[r].at
      BY <2>7 DEF SerialInv, MiddleInv
    <2>9. t <= now /\ now \in Nat /\ t - s >= ttl
      BY <1>1, <2>3, <2>8 DEF SerialInv, MiddleInv
    <2>10. Window(s) + (1 + k) <= Window(t) /\ Window(t) <= Window(now)
           /\ Window(s) \in Nat /\ Window(t) \in Nat /\ Window(now) \in Nat
      <3>1. 1 + k \in Nat /\ (1 + k) * WindowSize = WindowSize + k * WindowSize
        BY WindowFacts DEF Gap
      <3>2. s + (1 + k) * WindowSize <= t /\ s <= t
        BY <2>9, <3>1, WindowFacts DEF Gap
      <3>. QED  BY <2>9, <3>1, <3>2, WindowsGoOn
    <2>11. \A v \in Nat : v >= Window(s) + 1 => Passes(g, v) = 0
      BY <1>6, <2>7, <2>8, TokenAssumption DEF Quiet, NothingSince, TokenAssumption
    <2>12. \A v \in Nat : v >= Window(t) - k => Passes(g, v)' = 0
      BY <1>8, <2>10, <2>11 DEF Gap
    <2>13. \A v \in Nat : v >= Window(now) - k => Passes(g, v)' = 0
      BY <1>8, <2>10, <2>11 DEF Gap
    <2>14. Quiet(g, k)'
      BY <1>1, <1>7, <2>2, <2>4, <2>5, <2>8, <2>12, <2>13 DEF Quiet, NothingSince, Window
    <2>. QED  BY <2>6, <2>14 DEF Known
  <1>. QED  BY <1>9, <1>10

LEMMA CreateSerial ==
  ASSUME NEW k, NEW ttl, Gap(k, ttl), SerialInv(k, ttl),
         NEW r \in Requests, CreateStep(r), NEW g \in Hosts, g \notin overlap'
  PROVE  Known(g, k, ttl)'
  <1>1. /\ request[r].pc = "creating" /\ request[r].host \in Hosts
        /\ request[r].at \in Nat /\ request[r].at <= now
        /\ now' = now /\ passed' = passed /\ overlap' = overlap
    BY DEF CreateStep, SerialInv, MiddleInv
  <1>2. PICK h \in Hosts : h = request[r].host
    BY <1>1
  <1>3. \A q \in Requests : /\ request'[q].host = request[q].host
                            /\ request'[q].at = request[q].at
                            /\ request'[q].manager = IF q = r THEN r ELSE request[q].manager
                            /\ request'[q].pc = IF q = r THEN "asking" ELSE request[q].pc
    <2> DEFINE asked == [request[r] EXCEPT !.pc = "asking"]
               new == [asked EXCEPT !.manager = r]
    <2>1. request' = [request EXCEPT ![r] = new]
      BY DEF CreateStep, SerialInv, MiddleInv
    <2>2. asked \in Kinds /\ asked.pc = "asking" /\ asked.host = request[r].host
          /\ asked.at = request[r].at
      BY DEF SerialInv, MiddleInv, Kinds
    <2> HIDE DEF asked
    <2>3. new.pc = "asking" /\ new.host = asked.host /\ new.at = asked.at /\ new.manager = r
      BY <2>2 DEF Kinds
    <2> HIDE DEF new
    <2>. QED  BY <2>1, <2>2, <2>3 DEF SerialInv, MiddleInv
  <1>4. /\ store'[h] = r
        /\ \A f \in Hosts : f # h => store'[f] = store[f]
        /\ managers'[r].lastSeen = request[r].at /\ managers'[r].counter.windowId = 0
        /\ \A q \in Requests : q # r => managers'[q] = managers[q]
    BY <1>2 DEF CreateStep, OthersKept, SerialInv, MiddleInv
  <1>5. Serial(g, ttl) /\ Quiet(g, k)
    BY <1>1 DEF SerialInv
  <1>6. \A q \in Requests : In(q, g)' <=> In(q, g)
    BY <1>1, <1>3 DEF In
  <1>7. \A v : Passes(g, v)' = Passes(g, v)
    BY <1>1, PassesStay
  <1>8. CASE g # h
    <2>1. \A q \in Requests : In(q, g) => q # r /\ request'[q].pc = request[q].pc
      BY <1>2, <1>3, <1>8 DEF In
    <2>2. /\ store'[g] = store[g] /\ store[g] # r
          /\ store[g] # None => managers'[store[g]] = managers[store[g]]
      BY <1>1, <1>4, <1>8, TokenAssumption DEF SerialInv, MiddleInv, Owns, TokenAssumption
    <2>3. Serial(g, ttl)'
      <3>1. \A p, q \in Requests : In(p, g)' /\ In(q, g)' => p = q
        BY <1>5, <1>6 DEF Serial
      <3>2. ASSUME NEW q \in Requests, In(q, g)'
            PROVE  /\ request'[q].pc \in {"checking", "dropping", "asking"} => request'[q].manager = store'[g]
                   /\ request'[q].pc = "creating" => store'[g] = None
                   /\ request'[q].pc = "dropping" => request'[q].at - managers'[store'[g]].lastSeen >= ttl
        <4>1. q # r /\ request'[q].pc = request[q].pc /\ request'[q].manager = request[q].manager
              /\ request'[q].at = request[q].at
          BY <1>3, <1>6, <2>1, <3>2
        <4>2. request[q].pc = "dropping" => store[g] # None
          <5>1. request[q].pc = "dropping" => request[q].manager = store[g] /\ request[q].manager \in Requests
            BY <1>5, <1>6, <3>2 DEF Serial, SerialInv, MiddleInv
          <5>. QED  BY <5>1, TokenAssumption DEF TokenAssumption
        <4>. QED  BY <1>5, <1>6, <2>2, <3>2, <4>1, <4>2 DEF Serial
      <3>. QED  BY <3>1, <3>2 DEF Serial
    <2>4. Quiet(g, k)'
      BY <1>1, <1>3, <1>5, <1>6, <1>7, <2>1, <2>2 DEF Quiet, NothingSince, Window
    <2>. QED  BY <2>3, <2>4 DEF Known
  <1>9. CASE g = h
    <2>1. In(r, g)
      BY <1>1, <1>2, <1>9 DEF In
    <2>2. \A q \in Requests : In(q, g) => q = r
      BY <1>5, <2>1 DEF Serial
    <2>3. store'[g] = r /\ request'[r].manager = r /\ request'[r].pc = "asking" /\ r # None
      BY <1>3, <1>4, <1>9, TokenAssumption DEF TokenAssumption
    <2>4. Serial(g, ttl)'
      BY <1>6, <2>2, <2>3 DEF Serial
    <2>5. PICK t \in Nat : t = request[r].at
      BY <1>1
    <2>6. \A v \in Nat : v >= Window(t) - k => Passes(g, v)' = 0
      BY <1>1, <1>5, <1>7, <2>1, <2>5 DEF Quiet, NothingSince
    <2>7. Window(t) \in Nat
      BY WindowsGoOn
    <2>8. \A v \in Nat : v >= Window(t) + 1 => Passes(g, v)' = 0
      BY <2>6, <2>7 DEF Gap
    <2>9. Quiet(g, k)'
      BY <1>4, <1>6, <2>2, <2>3, <2>5, <2>6, <2>8 DEF Quiet, NothingSince, Window
    <2>. QED  BY <2>4, <2>9 DEF Known
  <1>. QED  BY <1>8, <1>9

LEMMA AskSerial ==
  ASSUME NEW k, NEW ttl, Gap(k, ttl), SerialInv(k, ttl),
         NEW r \in Requests, NEW passes \in BOOLEAN, AskStep(r, passes),
         NEW g \in Hosts, g \notin overlap'
  PROVE  Known(g, k, ttl)'
  <1>1. /\ request[r].pc = "asking" /\ request[r].host \in Hosts /\ request[r].manager \in Requests
        /\ Owns(request[r].manager, request[r].host)
        /\ request' = [request EXCEPT ![r].pc = "done"]
        /\ now' = now /\ store' = store /\ overlap' = overlap
    BY DEF AskStep, SerialInv, MiddleInv
  <1>2. PICK h \in Hosts, m \in Requests, w \in {Window(now)} :
          h = request[r].host /\ m = request[r].manager
    BY <1>1
  <1>3. \A q \in Requests : /\ request'[q].host = request[q].host
                            /\ request'[q].at = request[q].at
                            /\ request'[q].manager = request[q].manager
                            /\ request'[q].pc = IF q = r THEN "done" ELSE request[q].pc
    BY <1>1 DEF SerialInv, MiddleInv
  <1>4. /\ managers'[m].lastSeen = now /\ managers'[m].counter.windowId = w
        /\ \A q \in Requests : q # m => managers'[q] = managers[q]
    BY <1>2 DEF AskStep, OthersKept
  <1>5. Serial(g, ttl) /\ Quiet(g, k)
    BY <1>1 DEF SerialInv
  <1>6. \A q \in Requests : In(q, g)' <=> In(q, g) /\ q # r
    BY <1>3 DEF In
  <1>7. \A v : Passes(g, v)' = Passes(g, v) \/ (g = h /\ v = w)
    BY <1>2, PassesGrow, PassesType DEF SerialInv
  <1>8. now \in Nat
    BY DEF SerialInv, MiddleInv
  <1>9. CASE g # h
    <2>1. \A v : Passes(g, v)' = Passes(g, v)
      BY <1>7, <1>9
    <2>2. store[g] # m
      BY <1>1, <1>2, <1>9, TokenAssumption DEF SerialInv, MiddleInv, Owns, TokenAssumption
    <2>3. store[g] # None => managers'[store[g]] = managers[store[g]]
      BY <1>4, <2>2 DEF SerialInv, MiddleInv
    <2>4. Serial(g, ttl)'
      <3>1. \A p, q \in Requests : In(p, g)' /\ In(q, g)' => p = q
        BY <1>5, <1>6 DEF Serial
      <3>2. ASSUME NEW q \in Requests, In(q, g)'
            PROVE  /\ request'[q].pc \in {"checking", "dropping", "asking"} => request'[q].manager = store'[g]
                   /\ request'[q].pc = "creating" => store'[g] = None
                   /\ request'[q].pc = "dropping" => request'[q].at - managers'[store'[g]].lastSeen >= ttl
        <4>1. q # r /\ request'[q].pc = request[q].pc /\ request'[q].manager = request[q].manager
              /\ request'[q].at = request[q].at
          BY <1>3, <1>6, <3>2
        <4>2. request[q].pc = "dropping" => store[g] # None
          <5>1. request[q].pc = "dropping" => request[q].manager = store[g] /\ request[q].manager \in Requests
            BY <1>5, <1>6, <3>2 DEF Serial, SerialInv, MiddleInv
          <5>. QED  BY <5>1, TokenAssumption DEF TokenAssumption
        <4>. QED  BY <1>1, <1>5, <1>6, <2>3, <3>2, <4>1, <4>2 DEF Serial
      <3>. QED  BY <3>1, <3>2 DEF Serial
    <2>5. Quiet(g, k)'
      <3>1. ASSUME NEW q \in Requests, In(q, g)', request'[q].pc = "creating"
            PROVE  \A v \in Nat : v >= Window(request'[q].at) - k => Passes(g, v)' = 0
        BY <1>3, <1>5, <1>6, <2>1, <3>1 DEF Quiet, NothingSince
      <3>. QED  BY <1>1, <1>5, <2>1, <2>3, <3>1 DEF Quiet, NothingSince, Window
    <2>. QED  BY <2>4, <2>5 DEF Known
  <1>10. CASE g = h
    <2>1. In(r, g)
      BY <1>1, <1>2, <1>10 DEF In
    <2>2. \A q \in Requests : ~In(q, g)'
      BY <1>5, <1>6, <2>1 DEF Serial
    <2>3. store[g] = m /\ store'[g] = m /\ m # None
      BY <1>1, <1>2, <1>5, <2>1, TokenAssumption DEF Serial, TokenAssumption
    <2>4. Serial(g, ttl)'
      BY <2>2 DEF Serial
    <2>5. PICK s \in Nat : s = managers[m].lastSeen /\ s <= now
      BY DEF SerialInv, MiddleInv
    <2>6. Window(s) <= w /\ Window(s) \in Nat /\ w \in Nat
      BY <1>2, <1>8, <2>5, WindowsGoOn
    <2>7. \A v \in Nat : v >= w + 1 => Passes(g, v)' = 0
      BY <1>5, <1>7, <2>3, <2>5, <2>6 DEF Quiet, NothingSince
    <2>8. w >= 1
      <3>1. 0 + 1 * WindowSize <= now /\ 0 <= now
        BY <1>8, WindowFacts DEF SerialInv, MiddleInv
      <3>2. Window(0) + 1 <= w /\ Window(0) \in Nat
        BY <1>2, <1>8, <3>1, WindowsGoOn
      <3>. QED  BY <2>6, <3>2
    <2>9. Window(now)' = w
      BY <1>1, <1>2 DEF Window
    <2>10. Quiet(g, k)'
      BY <1>2, <1>4, <2>2, <2>3, <2>6, <2>7, <2>8 DEF Quiet, NothingSince, Window
    <2>. QED  BY <2>4, <2>10 DEF Known
  <1>. QED  BY <1>9, <1>10

LEMMA TickSerial ==
  ASSUME NEW k, NEW ttl, Gap(k, ttl), SerialInv(k, ttl), TickStep,
         NEW g \in Hosts, g \notin overlap'
  PROVE  Known(g, k, ttl)'
  <1>1. /\ now' = now + 1 /\ now \in Nat
        /\ store' = store /\ managers' = managers /\ request' = request
        /\ passed' = passed /\ overlap' = overlap
    BY DEF TickStep, SerialInv, MiddleInv
  <1>2. Serial(g, ttl) /\ Quiet(g, k)
    BY <1>1 DEF SerialInv
  <1>3. Serial(g, ttl)'
    BY <1>1, <1>2 DEF Serial, In
  <1>4. PICK t \in Nat, u \in Nat : t = now /\ u = now' /\ t <= u
    BY <1>1
  <1>5. Window(t) <= Window(u) /\ Window(t) \in Nat /\ Window(u) \in Nat
    BY <1>4, WindowsGoOn
  <1>6. \A v : Passes(g, v)' = Passes(g, v)
    BY <1>1, PassesStay
  <1>7. store[g] = None => \A v \in Nat : v >= Window(u) - k => Passes(g, v)' = 0
    BY <1>2, <1>4, <1>5, <1>6 DEF Quiet, NothingSince, Gap
  <1>8. \A q \in Requests : In(q, g) /\ request[q].pc = "creating" =>
          \A v \in Nat : v >= Window(request[q].at) - k => Passes(g, v)' = 0
    BY <1>2, <1>6 DEF Quiet, NothingSince
  <1>9. \A q \in Requests : In(q, g)' <=> In(q, g)
    BY <1>1 DEF In
  <1>. QED  BY <1>1, <1>2, <1>3, <1>4, <1>6, <1>7, <1>8, <1>9 DEF Known, Quiet, NothingSince, Window

MoveStep(ttl) ==
  \/ \E r \in Requests, h \in Hosts : LookUpStep(r, h)
  \/ \E r \in Requests : CheckStep(r, ttl) \/ CreateStep(r)
  \/ \E r \in Requests, same \in BOOLEAN : DropStep(r, same)
  \/ TickStep

MiddleStep(ttl) ==
  MoveStep(ttl) \/ \E r \in Requests, passes \in BOOLEAN : AskStep(r, passes)

LEMMA SerialStep ==
  ASSUME NEW k, NEW ttl, Gap(k, ttl), SerialInv(k, ttl), MiddleStep(ttl)
  PROVE  SerialInv(k, ttl)'
  <1>1. MiddleInv'
    BY LookUpMiddle, CheckMiddle, DropMiddle, CreateMiddle, AskMiddle, TickMiddle
    DEF SerialInv, MiddleStep, MoveStep
  <1>2. ASSUME NEW g \in Hosts, g \notin overlap'  PROVE Known(g, k, ttl)'
    BY <1>2, LookUpSerial, CheckSerial, DropSerial, CreateSerial, AskSerial, TickSerial
    DEF MiddleStep, MoveStep
  <1>. QED  BY <1>1, <1>2 DEF SerialInv, Known

\* The counter of a host changes only when a request of the host is answered.
CounterKept(g) ==
  /\ store'[g] # None /\ managers'[store'[g]].counter.windowId # 0 =>
       store[g] # None /\ managers'[store'[g]].counter = managers[store[g]].counter
  /\ \A v : Passes(g, v)' = Passes(g, v)

LEMMA MovesKeepCounters ==
  ASSUME MiddleInv, NEW ttl, MoveStep(ttl), NEW g \in Hosts
  PROVE  CounterKept(g)
  <1>1. ASSUME NEW r \in Requests, NEW same \in BOOLEAN, DropStep(r, same)  PROVE CounterKept(g)
    <2>1. store'[g] = store[g] \/ store'[g] = None
      BY <1>1 DEF DropStep, MiddleInv
    <2>2. managers' = managers /\ passed' = passed
      BY <1>1 DEF DropStep
    <2>. QED  BY <2>1, <2>2, PassesStay DEF CounterKept
  <1>2. ASSUME NEW r \in Requests, CreateStep(r)  PROVE CounterKept(g)
    <2>1. PICK h \in Hosts : h = request[r].host
      BY <1>2 DEF CreateStep, MiddleInv
    <2>2. /\ store'[h] = r /\ \A f \in Hosts : f # h => store'[f] = store[f]
          /\ managers'[r].counter.windowId = 0
          /\ \A q \in Requests : q # r => managers'[q] = managers[q]
          /\ request[r].pc = "creating" /\ passed' = passed
      BY <1>2, <2>1 DEF CreateStep, OthersKept, MiddleInv
    <2>3. store[g] # None => store[g] \in Requests /\ store[g] # r
      BY <2>2 DEF MiddleInv, Owns
    <2>. QED  BY <2>2, <2>3, PassesStay DEF CounterKept
  <1>3. ASSUME \/ \E r \in Requests, h \in Hosts : LookUpStep(r, h)
               \/ \E r \in Requests : CheckStep(r, ttl)
               \/ TickStep
        PROVE  CounterKept(g)
    BY <1>3, PassesStay DEF LookUpStep, CheckStep, TickStep, CounterKept
  <1>. QED  BY <1>1, <1>2, <1>3 DEF MoveStep

LEMMA AnswersKeepOthers ==
  ASSUME MiddleInv, NEW r \in Requests, NEW passes \in BOOLEAN, AskStep(r, passes),
         NEW g \in Hosts, request[r].host # g
  PROVE  CounterKept(g)
  <1>1. /\ request[r].pc = "asking" /\ store' = store /\ OthersKept(request[r].manager)
    BY DEF AskStep
  <1>2. Owns(request[r].manager, request[r].host)
    BY <1>1 DEF MiddleInv
  <1>3. store[g] # None => store[g] \in Requests /\ store[g] # request[r].manager
    BY <1>2 DEF MiddleInv, Owns
  <1>4. \A v : Passes(g, v)' = Passes(g, v)
    BY PassesGrow, PassesType
  <1>. QED  BY <1>1, <1>3, <1>4 DEF CounterKept, OthersKept

\* What a counter knows when the host's one request is answered.
LEMMA AnsweredCounter ==
  ASSUME NEW k, NEW ttl, Gap(k, ttl), Start >= (1 + k) * WindowSize, SerialInv(k, ttl),
         NEW r \in Requests, NEW passes \in BOOLEAN, AskStep(r, passes),
         NEW g \in Hosts \ overlap, request[r].host = g
  PROVE  /\ store[g] \in Requests /\ store[g] = request[r].manager /\ store' = store
         /\ Window(now) \in Nat /\ Window(now) >= 1 + k
         /\ LET id == managers[store[g]].counter.windowId
            IN  /\ id = 0 => \A v \in Nat : v >= Window(now) - k => Passes(g, v) = 0
                /\ id # 0 => id \in Nat /\ id <= Window(now)
                             /\ \A v \in Nat : v > id => Passes(g, v) = 0
         /\ \A v \in Nat : Passes(g, v)' = Passes(g, v) + (IF passes /\ v = Window(now) THEN 1 ELSE 0)
  <1>1. request[r].pc = "asking" /\ Serial(g, ttl) /\ Quiet(g, k) /\ store' = store
    BY DEF AskStep, SerialInv
  <1>2. request[r].manager = store[g] /\ store[g] \in Requests /\ store[g] # None
    BY <1>1, TokenAssumption DEF SerialInv, MiddleInv, Serial, In, TokenAssumption
  <1>3. PICK m \in Requests : m = store[g]
    BY <1>2
  <1>4. PICK s \in Nat, t \in Nat : s = managers[m].lastSeen /\ t = now /\ s <= t /\ t >= Start
    BY DEF SerialInv, MiddleInv
  <1>5. Window(s) <= Window(t) /\ Window(t) \in Nat /\ Window(s) \in Nat
    BY <1>4, WindowsGoOn
  <1>6. Window(t) >= 1 + k
    <2>1. 1 + k \in Nat /\ (1 + k) * WindowSize \in Nat
      BY WindowFacts DEF Gap
    <2>2. 0 + (1 + k) * WindowSize <= t /\ 0 <= t
      BY <1>4, <2>1, WindowFacts
    <2>3. Window(0) + (1 + k) <= Window(t) /\ Window(0) \in Nat
      BY <2>1, <2>2, WindowsGoOn
    <2>. QED  BY <1>5, <2>1, <2>3
  <1>7. managers[m].counter.windowId = 0 =>
          \A v \in Nat : v >= Window(t) - k => Passes(g, v) = 0
    BY <1>1, <1>2, <1>3, <1>4, <1>5 DEF Quiet, NothingSince, Gap
  <1>8. managers[m].counter.windowId # 0 =>
          /\ managers[m].counter.windowId = Window(s)
          /\ \A v \in Nat : v > Window(s) => Passes(g, v) = 0
    BY <1>1, <1>2, <1>3, <1>4, <1>5 DEF Quiet, NothingSince
  <1>9. \A v \in Nat : Passes(g, v)' = Passes(g, v) + (IF passes /\ v = Window(now) THEN 1 ELSE 0)
    BY PassesGrow DEF SerialInv
  <1>. QED  BY <1>1, <1>2, <1>3, <1>4, <1>5, <1>6, <1>7, <1>8, <1>9

-----------------------------------------------------------------------------
(* The fixed window *)

FixedCounter == [windowId: Nat, count: Nat]

CountIsTrue(h) ==
  store[h] # None /\ managers[store[h]].counter.windowId # 0 =>
    LET c == managers[store[h]].counter
    IN  c.count = Passes(h, c.windowId)

WithinLimit(h) == \A w \in Nat : Passes(h, w) <= Limit

FixedInv ==
  /\ SerialInv(0, FixedTTL)
  /\ managers \in [Requests -> [counter: FixedCounter, lastSeen: Nat]]
  /\ \A h \in Hosts \ overlap : CountIsTrue(h) /\ WithinLimit(h)

LEMMA FixedGap == Gap(0, FixedTTL) /\ Start >= (1 + 0) * WindowSize
  BY WindowFacts DEF Gap

LEMMA FixedCountType ==
  ASSUME NEW c \in FixedCounter, NEW t \in Nat
  PROVE  /\ Fixed!Count(c, t).counter \in FixedCounter
         /\ Fixed!Count(c, t).counter.windowId = Window(t)
         /\ Fixed!Count(c, t).passes \in BOOLEAN
         /\ LET count == IF c.windowId = Window(t) THEN c.count ELSE 0
            IN  /\ Fixed!Count(c, t).passes <=> count < Limit
                /\ Fixed!Count(c, t).counter.count =
                     IF Fixed!Count(c, t).passes THEN count + 1 ELSE count
  <1>1. Window(t) \in Nat
    BY WindowsGoOn
  <1> DEFINE count == IF c.windowId = Window(t) THEN c.count ELSE 0
  <1>2. count \in Nat /\ Limit \in Nat
    BY WindowFacts DEF FixedCounter
  <1>3. Fixed!Count(c, t) =
          [passes |-> count < Limit,
           counter |-> [windowId |-> Window(t),
                        count |-> IF count < Limit THEN count + 1 ELSE count]]
    BY DEF Fixed!Count, Window
  <1> HIDE DEF count
  <1>4. PICK new \in FixedCounter :
          /\ new.windowId = Window(t) /\ new.count = IF count < Limit THEN count + 1 ELSE count
          /\ Fixed!Count(c, t) = [passes |-> count < Limit, counter |-> new]
    <2> DEFINE new == [windowId |-> Window(t), count |-> IF count < Limit THEN count + 1 ELSE count]
    <2>1. /\ new \in FixedCounter
          /\ new.windowId = Window(t) /\ new.count = IF count < Limit THEN count + 1 ELSE count
          /\ Fixed!Count(c, t) = [passes |-> count < Limit, counter |-> new]
      BY <1>1, <1>2, <1>3 DEF FixedCounter
    <2>. QED  BY <2>1
  <1>5. Fixed!Count(c, t).passes \in BOOLEAN /\ (Fixed!Count(c, t).passes <=> count < Limit)
    <2>1. PICK yes \in BOOLEAN : yes <=> count < Limit
      OBVIOUS
    <2>2. Fixed!Count(c, t) = [passes |-> yes, counter |-> new]
      BY <1>4, <2>1
    <2>3. Fixed!Count(c, t).passes = yes
      BY <2>2
    <2>. QED  BY <2>1, <2>3
  <1>6. Fixed!Count(c, t).counter = new
    BY <1>4
  <1>. QED  BY <1>4, <1>5, <1>6 DEF count

LEMMA FixedMoves ==
  ASSUME FixedInv,
         \/ \E r \in Requests, h \in Hosts : Fixed!LookUp(r, h)
         \/ \E r \in Requests : Fixed!Check(r) \/ Fixed!Drop(r) \/ Fixed!Create(r)
         \/ Fixed!Tick
  PROVE  /\ MoveStep(FixedTTL)
         /\ managers' \in [Requests -> [counter: FixedCounter, lastSeen: Nat]]
  <1>1. MiddleInv /\ managers \in [Requests -> [counter: FixedCounter, lastSeen: Nat]]
    BY DEF FixedInv, SerialInv
  <1>2. ASSUME NEW r \in Requests, NEW h \in Hosts, Fixed!LookUp(r, h)
        PROVE  LookUpStep(r, h)
    <2>1. Fixed!InMiddleware(h) = {} <=> \A q \in Requests : ~In(q, h)
      BY DEF Fixed!InMiddleware, In
    <2>. QED  BY <1>2, <2>1 DEF Fixed!LookUp, LookUpStep
  <1>3. ASSUME NEW r \in Requests, Fixed!Check(r)  PROVE CheckStep(r, FixedTTL)
    BY <1>3 DEF Fixed!Check, Fixed!Expired, CheckStep
  <1>4. ASSUME NEW r \in Requests, Fixed!Drop(r)  PROVE \E same \in BOOLEAN : DropStep(r, same)
    BY <1>4 DEF Fixed!Drop, DropStep
  <1>5. ASSUME NEW r \in Requests, Fixed!Create(r)
        PROVE  CreateStep(r) /\ managers' \in [Requests -> [counter: FixedCounter, lastSeen: Nat]]
    <2> DEFINE new == Fixed!NewManager(request[r].at)
    <2>1. request[r].at \in Nat /\ managers' = [managers EXCEPT ![r] = new]
      BY <1>1, <1>5 DEF MiddleInv, Fixed!Create
    <2>2. new \in [counter: FixedCounter, lastSeen: Nat] /\ new.counter.windowId = 0
          /\ new.lastSeen = request[r].at
      BY <2>1 DEF Fixed!NewManager, Fixed!FirstCounter, FixedCounter
    <2> HIDE DEF new
    <2>. QED  BY <1>1, <1>5, <2>1, <2>2 DEF Fixed!Create, CreateStep, OthersKept
  <1>6. Fixed!Tick => TickStep
    BY DEF Fixed!Tick, TickStep
  <1>7. \/ managers' = managers
        \/ \E r \in Requests : Fixed!Create(r)
    BY DEF Fixed!LookUp, Fixed!Check, Fixed!Drop, Fixed!Tick
  <1>. QED  BY <1>1, <1>2, <1>3, <1>4, <1>5, <1>6, <1>7 DEF MoveStep

LEMMA FixedAsks ==
  ASSUME FixedInv, NEW r \in Requests, Fixed!Ask(r)
  PROVE  LET m == request[r].manager
             answer == Fixed!Count(managers[m].counter, now)
         IN  /\ m \in Requests /\ managers[m].counter \in FixedCounter /\ now \in Nat
             /\ AskStep(r, answer.passes)
             /\ answer.passes \in BOOLEAN
             /\ managers'[m].counter = answer.counter
             /\ managers' \in [Requests -> [counter: FixedCounter, lastSeen: Nat]]
  <1>1. /\ MiddleInv /\ managers \in [Requests -> [counter: FixedCounter, lastSeen: Nat]]
        /\ request[r].pc = "asking" /\ now \in Nat
    BY DEF FixedInv, SerialInv, Fixed!Ask, MiddleInv
  <1>2. PICK m \in Requests : m = request[r].manager
    BY <1>1 DEF MiddleInv
  <1>3. managers[m].counter \in FixedCounter
    BY <1>1
  <1>4. PICK answer : answer = Fixed!Count(managers[m].counter, now)
    OBVIOUS
  <1>5. /\ answer.counter \in FixedCounter /\ answer.passes \in BOOLEAN
        /\ answer.counter.windowId = Window(now)
    BY <1>1, <1>3, <1>4, FixedCountType
  <1>6. managers' = [managers EXCEPT ![m] = [counter |-> answer.counter, lastSeen |-> now]]
    BY <1>2, <1>4 DEF Fixed!Ask
  <1>7. /\ managers' \in [Requests -> [counter: FixedCounter, lastSeen: Nat]]
        /\ managers'[m].counter = answer.counter /\ managers'[m].lastSeen = now
        /\ \A q \in Requests : q # m => managers'[q] = managers[q]
    BY <1>1, <1>5, <1>6
  <1>8. AskStep(r, answer.passes)
    BY <1>2, <1>4, <1>5, <1>7 DEF Fixed!Ask, AskStep, OthersKept
  <1>. QED  BY <1>1, <1>2, <1>3, <1>4, <1>5, <1>7, <1>8

LEMMA FixedStep ==
  ASSUME FixedInv, Fixed!Next
  PROVE  FixedInv'
  <1>1. SerialInv(0, FixedTTL) /\ MiddleInv
    BY DEF FixedInv, SerialInv
  <1>2. ASSUME \/ \E r \in Requests, h \in Hosts : Fixed!LookUp(r, h)
               \/ \E r \in Requests : Fixed!Check(r) \/ Fixed!Drop(r) \/ Fixed!Create(r)
               \/ Fixed!Tick
        PROVE  FixedInv'
    <2>1. /\ MoveStep(FixedTTL)
          /\ managers' \in [Requests -> [counter: FixedCounter, lastSeen: Nat]]
      BY <1>2, FixedMoves
    <2>2. SerialInv(0, FixedTTL)' /\ \A g \in Hosts : CounterKept(g)
      BY <1>1, <2>1, SerialStep, FixedGap, MovesKeepCounters DEF MiddleStep
    <2>3. Hosts \ overlap' \subseteq Hosts \ overlap
      BY <2>1 DEF MoveStep, LookUpStep, CheckStep, DropStep, CreateStep, TickStep
    <2>4. \A g \in Hosts \ overlap' : CountIsTrue(g)' /\ WithinLimit(g)'
      BY <2>2, <2>3 DEF FixedInv, CounterKept, CountIsTrue, WithinLimit
    <2>. QED  BY <2>1, <2>2, <2>4 DEF FixedInv
  <1>3. ASSUME NEW r \in Requests, Fixed!Ask(r)
        PROVE  FixedInv'
    <2>0. PICK m \in Requests : m = request[r].manager
      BY <1>3, FixedAsks
    <2>1. PICK answer :
            m = request[r].manager /\ answer = Fixed!Count(managers[m].counter, now)
      BY <2>0
    <2>2. /\ managers[m].counter \in FixedCounter /\ now \in Nat
          /\ AskStep(r, answer.passes) /\ answer.passes \in BOOLEAN
          /\ managers'[m].counter = answer.counter
          /\ managers' \in [Requests -> [counter: FixedCounter, lastSeen: Nat]]
      BY <1>3, <2>1, FixedAsks
    <2>3. SerialInv(0, FixedTTL)'
      BY <1>1, <2>2, SerialStep, FixedGap DEF MiddleStep
    <2>4. overlap' = overlap
      BY <2>2 DEF AskStep
    <2>5. ASSUME NEW g \in Hosts \ overlap, request[r].host # g
          PROVE  CountIsTrue(g)' /\ WithinLimit(g)'
      <3>1. CounterKept(g)
        BY <1>1, <2>2, <2>5, AnswersKeepOthers
      <3>. QED  BY <3>1 DEF FixedInv, CounterKept, CountIsTrue, WithinLimit
    <2>6. ASSUME NEW g \in Hosts \ overlap, request[r].host = g
          PROVE  CountIsTrue(g)' /\ WithinLimit(g)'
      <3>1. PICK w \in Nat, c \in FixedCounter : w = Window(now) /\ c = managers[m].counter
        <4>1. Window(now) \in Nat
          BY <2>2, WindowsGoOn
        <4>. QED  BY <2>2, <4>1
      <3>2. /\ store[g] = m /\ m # None /\ store' = store /\ w >= 1
            /\ c.windowId = 0 => Passes(g, w) = 0
            /\ c.windowId # 0 => c.windowId <= w /\ \A v \in Nat : v > c.windowId => Passes(g, v) = 0
            /\ \A v \in Nat : Passes(g, v)' = Passes(g, v) + (IF answer.passes /\ v = w THEN 1 ELSE 0)
        <4>1. /\ store[g] \in Requests /\ store[g] = request[r].manager /\ store' = store
              /\ Window(now) \in Nat /\ Window(now) >= 1 + 0
              /\ LET id == managers[store[g]].counter.windowId
                 IN  /\ id = 0 => \A v \in Nat : v >= Window(now) - 0 => Passes(g, v) = 0
                     /\ id # 0 => id \in Nat /\ id <= Window(now)
                                  /\ \A v \in Nat : v > id => Passes(g, v) = 0
              /\ \A v \in Nat : Passes(g, v)' = Passes(g, v)
                                  + (IF answer.passes /\ v = Window(now) THEN 1 ELSE 0)
          BY <1>1, <2>2, <2>6, FixedGap, AnsweredCounter
        <4>. QED  BY <2>1, <3>1, <4>1, TokenAssumption DEF TokenAssumption
      <3>3. c.windowId = w => c.count = Passes(g, w)
        BY <3>1, <3>2 DEF FixedInv, CountIsTrue
      <3> DEFINE count == IF c.windowId = w THEN c.count ELSE 0
      <3>4. count = Passes(g, w) /\ Passes(g, w) \in Nat
        BY <1>1, <3>1, <3>2, <3>3, PassesType DEF FixedCounter
      <3>5. /\ answer.counter.windowId = w
            /\ answer.passes <=> count < Limit
            /\ answer.counter.count = IF answer.passes THEN count + 1 ELSE count
        <4>1. c.windowId = Window(now) <=> c.windowId = w
          BY <3>1
        <4>2. answer = Fixed!Count(c, now)
          BY <2>1, <3>1
        <4> HIDE DEF count
        <4>3. /\ Fixed!Count(c, now).counter.windowId = Window(now)
              /\ LET k == IF c.windowId = Window(now) THEN c.count ELSE 0
                 IN  /\ Fixed!Count(c, now).passes <=> k < Limit
                     /\ Fixed!Count(c, now).counter.count =
                          IF Fixed!Count(c, now).passes THEN k + 1 ELSE k
          BY <2>2, <3>1, FixedCountType, Zenon
        <4>. QED  BY <3>1, <4>1, <4>2, <4>3 DEF count
      <3> HIDE DEF count
      <3>6. answer.counter.count = Passes(g, w)'
        BY <3>2, <3>4, <3>5
      <3>7. CountIsTrue(g)'
        BY <2>2, <3>2, <3>5, <3>6 DEF CountIsTrue
      <3>8. WithinLimit(g)'
        <4>1. WithinLimit(g) /\ Limit \in Nat
          BY WindowFacts DEF FixedInv
        <4>2. \A v \in Nat : Passes(g, v) \in Nat
          BY <1>1, PassesType
        <4>. QED  BY <3>2, <3>4, <3>5, <4>1, <4>2 DEF WithinLimit
      <3>. QED  BY <3>7, <3>8
    <2>. QED  BY <2>2, <2>3, <2>4, <2>5, <2>6 DEF FixedInv
  <1>. QED  BY <1>2, <1>3 DEF Fixed!Next

-----------------------------------------------------------------------------
(* The sliding window *)

SlidingCounter == [windowId: Nat, currentCount: Nat, prevCount: Nat]

CountsTrue(h) ==
  store[h] # None /\ managers[store[h]].counter.windowId # 0 =>
    LET c == managers[store[h]].counter
    IN  /\ c.currentCount = Passes(h, c.windowId)
        /\ c.prevCount = Passes(h, c.windowId - 1)

SlidingInv ==
  /\ SerialInv(1, SlidingTTL)
  /\ managers \in [Requests -> [counter: SlidingCounter, lastSeen: Nat]]
  /\ \A h \in Hosts \ overlap : CountsTrue(h)

LEMMA SlidingGap == Gap(1, SlidingTTL) /\ Start >= (1 + 1) * WindowSize
  BY WindowFacts DEF Gap

LEMMA SlidingCountType ==
  ASSUME NEW c \in SlidingCounter, NEW t \in Nat
  PROVE  LET rolled == Sliding!Rolled(c, Window(t))
             answer == Sliding!Count(c, t)
         IN  /\ rolled \in SlidingCounter /\ rolled.windowId = Window(t)
             /\ answer.passes \in BOOLEAN
             /\ answer.counter \in SlidingCounter
             /\ answer.counter.windowId = Window(t)
             /\ answer.counter.currentCount =
                  rolled.currentCount + (IF answer.passes THEN 1 ELSE 0)
             /\ answer.counter.prevCount = rolled.prevCount
  <1>1. Window(t) \in Nat
    BY WindowsGoOn
  <1>2. /\ Sliding!Rolled(c, Window(t)) \in SlidingCounter
        /\ Sliding!Rolled(c, Window(t)).windowId = Window(t)
    <2>1. CASE c.windowId = Window(t)
      <3>1. Sliding!Rolled(c, Window(t)) = c
        BY <2>1 DEF Sliding!Rolled, SlidingCounter
      <3>. QED  BY <2>1, <3>1
    <2>2. CASE c.windowId # Window(t) /\ c.windowId + 1 = Window(t)
      <3>1. Sliding!Rolled(c, Window(t)) =
              [windowId |-> Window(t), currentCount |-> 0, prevCount |-> c.currentCount]
        BY <2>2 DEF Sliding!Rolled
      <3>. QED  BY <1>1, <3>1 DEF SlidingCounter
    <2>3. CASE c.windowId # Window(t) /\ c.windowId + 1 # Window(t)
      <3>1. Sliding!Rolled(c, Window(t)) =
              [windowId |-> Window(t), currentCount |-> 0, prevCount |-> 0]
        BY <2>3 DEF Sliding!Rolled
      <3>. QED  BY <1>1, <3>1 DEF SlidingCounter
    <2>. QED  BY <2>1, <2>2, <2>3
  <1>3. PICK rolled \in SlidingCounter, yes \in BOOLEAN :
          /\ rolled = Sliding!Rolled(c, Window(t))
          /\ yes <=> Sliding!Estimate(rolled, t) < Limit
    BY <1>2
  <1>4. PICK new \in SlidingCounter :
          /\ new = IF yes THEN [rolled EXCEPT !.currentCount = @ + 1] ELSE rolled
          /\ new.windowId = rolled.windowId /\ new.prevCount = rolled.prevCount
          /\ new.currentCount = rolled.currentCount + (IF yes THEN 1 ELSE 0)
    <2> DEFINE new == IF yes THEN [rolled EXCEPT !.currentCount = @ + 1] ELSE rolled
    <2>1. /\ new \in SlidingCounter
          /\ new.windowId = rolled.windowId /\ new.prevCount = rolled.prevCount
          /\ new.currentCount = rolled.currentCount + (IF yes THEN 1 ELSE 0)
      BY <1>3 DEF SlidingCounter
    <2>. QED  BY <2>1
  <1>5. Sliding!Count(c, t) = [passes |-> yes, counter |-> new]
    BY <1>3, <1>4 DEF Sliding!Count, Window
  <1>6. Sliding!Count(c, t).passes = yes /\ Sliding!Count(c, t).counter = new
    BY <1>5
  <1>. QED  BY <1>2, <1>3, <1>4, <1>6

LEMMA SlidingMoves ==
  ASSUME SlidingInv,
         \/ \E r \in Requests, h \in Hosts : Sliding!LookUp(r, h)
         \/ \E r \in Requests : Sliding!Check(r) \/ Sliding!Drop(r) \/ Sliding!Create(r)
         \/ Sliding!Tick
  PROVE  /\ MoveStep(SlidingTTL)
         /\ managers' \in [Requests -> [counter: SlidingCounter, lastSeen: Nat]]
  <1>1. MiddleInv /\ managers \in [Requests -> [counter: SlidingCounter, lastSeen: Nat]]
    BY DEF SlidingInv, SerialInv
  <1>2. ASSUME NEW r \in Requests, NEW h \in Hosts, Sliding!LookUp(r, h)
        PROVE  LookUpStep(r, h)
    <2>1. Sliding!InMiddleware(h) = {} <=> \A q \in Requests : ~In(q, h)
      BY DEF Sliding!InMiddleware, In
    <2>. QED  BY <1>2, <2>1 DEF Sliding!LookUp, LookUpStep
  <1>3. ASSUME NEW r \in Requests, Sliding!Check(r)  PROVE CheckStep(r, SlidingTTL)
    BY <1>3 DEF Sliding!Check, Sliding!Expired, CheckStep
  <1>4. ASSUME NEW r \in Requests, Sliding!Drop(r)  PROVE \E same \in BOOLEAN : DropStep(r, same)
    BY <1>4 DEF Sliding!Drop, DropStep
  <1>5. ASSUME NEW r \in Requests, Sliding!Create(r)
        PROVE  CreateStep(r) /\ managers' \in [Requests -> [counter: SlidingCounter, lastSeen: Nat]]
    <2> DEFINE new == Sliding!NewManager(request[r].at)
    <2>1. request[r].at \in Nat /\ managers' = [managers EXCEPT ![r] = new]
      BY <1>1, <1>5 DEF MiddleInv, Sliding!Create
    <2>2. new \in [counter: SlidingCounter, lastSeen: Nat] /\ new.counter.windowId = 0
          /\ new.lastSeen = request[r].at
      BY <2>1 DEF Sliding!NewManager, Sliding!FirstCounter, SlidingCounter
    <2> HIDE DEF new
    <2>. QED  BY <1>1, <1>5, <2>1, <2>2 DEF Sliding!Create, CreateStep, OthersKept
  <1>6. Sliding!Tick => TickStep
    BY DEF Sliding!Tick, TickStep
  <1>7. \/ managers' = managers
        \/ \E r \in Requests : Sliding!Create(r)
    BY DEF Sliding!LookUp, Sliding!Check, Sliding!Drop, Sliding!Tick
  <1>. QED  BY <1>1, <1>2, <1>3, <1>4, <1>5, <1>6, <1>7 DEF MoveStep

LEMMA SlidingAsks ==
  ASSUME SlidingInv, NEW r \in Requests, Sliding!Ask(r)
  PROVE  LET m == request[r].manager
             answer == Sliding!Count(managers[m].counter, now)
         IN  /\ m \in Requests /\ managers[m].counter \in SlidingCounter /\ now \in Nat
             /\ AskStep(r, answer.passes)
             /\ answer.passes \in BOOLEAN
             /\ managers'[m].counter = answer.counter
             /\ managers' \in [Requests -> [counter: SlidingCounter, lastSeen: Nat]]
  <1>1. /\ MiddleInv /\ managers \in [Requests -> [counter: SlidingCounter, lastSeen: Nat]]
        /\ request[r].pc = "asking" /\ now \in Nat
    BY DEF SlidingInv, SerialInv, Sliding!Ask, MiddleInv
  <1>2. PICK m \in Requests : m = request[r].manager
    BY <1>1 DEF MiddleInv
  <1>3. managers[m].counter \in SlidingCounter
    BY <1>1
  <1>4. PICK answer : answer = Sliding!Count(managers[m].counter, now)
    OBVIOUS
  <1>5. /\ answer.counter \in SlidingCounter /\ answer.passes \in BOOLEAN
        /\ answer.counter.windowId = Window(now)
    BY <1>1, <1>3, <1>4, SlidingCountType
  <1>6. managers' = [managers EXCEPT ![m] = [counter |-> answer.counter, lastSeen |-> now]]
    BY <1>2, <1>4 DEF Sliding!Ask
  <1>7. /\ managers' \in [Requests -> [counter: SlidingCounter, lastSeen: Nat]]
        /\ managers'[m].counter = answer.counter /\ managers'[m].lastSeen = now
        /\ \A q \in Requests : q # m => managers'[q] = managers[q]
    BY <1>1, <1>5, <1>6
  <1>8. AskStep(r, answer.passes)
    BY <1>2, <1>4, <1>5, <1>7 DEF Sliding!Ask, AskStep, OthersKept
  <1>. QED  BY <1>1, <1>2, <1>3, <1>4, <1>5, <1>7, <1>8

LEMMA SlidingStep ==
  ASSUME SlidingInv, Sliding!Next
  PROVE  SlidingInv'
  <1>1. SerialInv(1, SlidingTTL) /\ MiddleInv
    BY DEF SlidingInv, SerialInv
  <1>2. ASSUME \/ \E r \in Requests, h \in Hosts : Sliding!LookUp(r, h)
               \/ \E r \in Requests : Sliding!Check(r) \/ Sliding!Drop(r) \/ Sliding!Create(r)
               \/ Sliding!Tick
        PROVE  SlidingInv'
    <2>1. /\ MoveStep(SlidingTTL)
          /\ managers' \in [Requests -> [counter: SlidingCounter, lastSeen: Nat]]
      BY <1>2, SlidingMoves
    <2>2. SerialInv(1, SlidingTTL)' /\ \A g \in Hosts : CounterKept(g)
      BY <1>1, <2>1, SerialStep, SlidingGap, MovesKeepCounters DEF MiddleStep
    <2>3. Hosts \ overlap' \subseteq Hosts \ overlap
      BY <2>1 DEF MoveStep, LookUpStep, CheckStep, DropStep, CreateStep, TickStep
    <2>4. \A g \in Hosts \ overlap' : CountsTrue(g)'
      BY <2>2, <2>3 DEF SlidingInv, CounterKept, CountsTrue
    <2>. QED  BY <2>1, <2>2, <2>4 DEF SlidingInv
  <1>3. ASSUME NEW r \in Requests, Sliding!Ask(r)
        PROVE  SlidingInv'
    <2>0. PICK m \in Requests : m = request[r].manager
      BY <1>3, SlidingAsks
    <2>1. PICK answer :
            m = request[r].manager /\ answer = Sliding!Count(managers[m].counter, now)
      BY <2>0
    <2>2. /\ managers[m].counter \in SlidingCounter /\ now \in Nat
          /\ AskStep(r, answer.passes) /\ answer.passes \in BOOLEAN
          /\ managers'[m].counter = answer.counter
          /\ managers' \in [Requests -> [counter: SlidingCounter, lastSeen: Nat]]
      BY <1>3, <2>1, SlidingAsks
    <2>3. SerialInv(1, SlidingTTL)'
      BY <1>1, <2>2, SerialStep, SlidingGap DEF MiddleStep
    <2>4. overlap' = overlap
      BY <2>2 DEF AskStep
    <2>5. ASSUME NEW g \in Hosts \ overlap, request[r].host # g
          PROVE  CountsTrue(g)'
      <3>1. CounterKept(g)
        BY <1>1, <2>2, <2>5, AnswersKeepOthers
      <3>. QED  BY <3>1 DEF SlidingInv, CounterKept, CountsTrue
    <2>6. ASSUME NEW g \in Hosts \ overlap, request[r].host = g
          PROVE  CountsTrue(g)'
      <3>1. PICK w \in Nat, c \in SlidingCounter : w = Window(now) /\ c = managers[m].counter
        <4>1. Window(now) \in Nat
          BY <2>2, WindowsGoOn
        <4>. QED  BY <2>2, <4>1
      <3>2. /\ store[g] = m /\ m # None /\ store' = store /\ w >= 2
            /\ c.windowId = 0 => \A v \in Nat : v >= w - 1 => Passes(g, v) = 0
            /\ c.windowId # 0 => c.windowId <= w /\ \A v \in Nat : v > c.windowId => Passes(g, v) = 0
            /\ \A v \in Nat : Passes(g, v)' = Passes(g, v) + (IF answer.passes /\ v = w THEN 1 ELSE 0)
        <4>1. /\ store[g] \in Requests /\ store[g] = request[r].manager /\ store' = store
              /\ Window(now) \in Nat /\ Window(now) >= 1 + 1
              /\ LET id == managers[store[g]].counter.windowId
                 IN  /\ id = 0 => \A v \in Nat : v >= Window(now) - 1 => Passes(g, v) = 0
                     /\ id # 0 => id \in Nat /\ id <= Window(now)
                                  /\ \A v \in Nat : v > id => Passes(g, v) = 0
              /\ \A v \in Nat : Passes(g, v)' = Passes(g, v)
                                  + (IF answer.passes /\ v = Window(now) THEN 1 ELSE 0)
          BY <1>1, <2>2, <2>6, SlidingGap, AnsweredCounter
        <4>. QED  BY <2>1, <3>1, <4>1, TokenAssumption DEF TokenAssumption
      <3>3. c.windowId # 0 => /\ c.currentCount = Passes(g, c.windowId)
                              /\ c.prevCount = Passes(g, c.windowId - 1)
        BY <3>1, <3>2 DEF SlidingInv, CountsTrue
      <3>4. PICK rolled \in SlidingCounter : rolled = Sliding!Rolled(c, w)
        BY <2>2, <3>1, SlidingCountType
      \* The counter moved on to this window is true of it and the one before.
      <3>5. rolled.currentCount = Passes(g, w) /\ rolled.prevCount = Passes(g, w - 1)
        <4>1. CASE c.windowId = w
          BY <3>2, <3>3, <3>4, <4>1 DEF Sliding!Rolled
        <4>2. CASE c.windowId # w /\ c.windowId + 1 = w
          <5>1. rolled = [windowId |-> w, currentCount |-> 0, prevCount |-> c.currentCount]
            BY <3>4, <4>2 DEF Sliding!Rolled
          <5>2. c.windowId # 0 /\ c.windowId = w - 1
            BY <3>1, <3>2, <4>2 DEF SlidingCounter
          <5>. QED  BY <3>1, <3>2, <3>3, <5>1, <5>2
        <4>3. CASE c.windowId # w /\ c.windowId + 1 # w
          <5>1. rolled = [windowId |-> w, currentCount |-> 0, prevCount |-> 0]
            BY <3>4, <4>3 DEF Sliding!Rolled
          <5>2. Passes(g, w) = 0 /\ Passes(g, w - 1) = 0
            BY <3>1, <3>2, <4>3 DEF SlidingCounter
          <5>. QED  BY <5>1, <5>2
        <4>. QED  BY <4>1, <4>2, <4>3
      <3>6. /\ answer.counter.windowId = w
            /\ answer.counter.currentCount = rolled.currentCount + (IF answer.passes THEN 1 ELSE 0)
            /\ answer.counter.prevCount = rolled.prevCount
        <4>1. answer = Sliding!Count(c, now) /\ rolled = Sliding!Rolled(c, Window(now))
          BY <2>1, <3>1, <3>4
        <4>2. /\ Sliding!Count(c, now).counter.windowId = Window(now)
              /\ Sliding!Count(c, now).counter.currentCount =
                   Sliding!Rolled(c, Window(now)).currentCount
                     + (IF Sliding!Count(c, now).passes THEN 1 ELSE 0)
              /\ Sliding!Count(c, now).counter.prevCount = Sliding!Rolled(c, Window(now)).prevCount
          BY <2>2, <3>1, SlidingCountType, Zenon
        <4>. QED  BY <3>1, <4>1, <4>2
      <3>7. /\ answer.counter.currentCount = Passes(g, w)'
            /\ answer.counter.prevCount = Passes(g, w - 1)'
        <4>1. Passes(g, w - 1) \in Nat /\ w - 1 \in Nat /\ w - 1 # w
          BY <1>1, <3>1, <3>2, PassesType
        <4>. QED  BY <3>2, <3>5, <3>6, <4>1
      <3>. QED  BY <2>2, <3>2, <3>6, <3>7 DEF CountsTrue
    <2>. QED  BY <2>2, <2>3, <2>4, <2>5, <2>6 DEF SlidingInv
  <1>. QED  BY <1>2, <1>3 DEF Sliding!Next

-----------------------------------------------------------------------------
(* Both window limiters count truly *)

WindowsInv ==
  /\ limiter \in {"token", "leaking", "sliding", "fixed"}
  /\ limiter = "fixed" => FixedInv
  /\ limiter = "sliding" => SlidingInv

LEMMA MiddleInit ==
  ASSUME now = Start, store = [h \in Hosts |-> None],
         \A r \in Requests : managers[r].lastSeen = Start,
         request = [r \in Requests |-> [pc |-> "idle", host |-> None, at |-> 0, manager |-> None]],
         passed = {}, overlap = {},
         NEW k, NEW ttl, Gap(k, ttl)
  PROVE  SerialInv(k, ttl) /\ \A h, w : Passes(h, w) = 0
  <1>1. MiddleInv
    BY WindowFacts, FS_EmptySet DEF MiddleInv
  <1>2. ASSUME NEW h, NEW w  PROVE Passes(h, w) = 0
    <2>1. {p \in passed : p.host = h /\ Window(p.at) = w} = {}
      OBVIOUS
    <2>. QED  BY <2>1, FS_EmptySet DEF Passes
  <1>3. \A r \in Requests : \A h : ~In(r, h)
    BY DEF In
  <1>. QED  BY <1>1, <1>2, <1>3 DEF SerialInv, Serial, Quiet, NothingSince

LEMMA WindowsInit == LimiterInit => WindowsInv
  <1> SUFFICES ASSUME LimiterInit  PROVE WindowsInv
    OBVIOUS
  <1>1. CASE limiter = "fixed" /\ Fixed!Init
    <2>1. /\ now = Start /\ store = [h \in Hosts |-> None]
          /\ managers = [r \in Requests |-> [counter |-> [windowId |-> 0, count |-> 0], lastSeen |-> Start]]
          /\ request = [r \in Requests |-> [pc |-> "idle", host |-> None, at |-> 0, manager |-> None]]
          /\ passed = {} /\ overlap = {}
      BY <1>1 DEF Fixed!Init, Fixed!NewManager, Fixed!FirstCounter, Fixed!Idle
    <2>2. managers \in [Requests -> [counter: FixedCounter, lastSeen: Nat]]
          /\ \A r \in Requests : managers[r].lastSeen = Start
      BY <2>1, WindowFacts DEF FixedCounter
    <2>3. SerialInv(0, FixedTTL) /\ \A h, w : Passes(h, w) = 0
      BY <2>1, <2>2, FixedGap, MiddleInit
    <2>. QED  BY <1>1, <2>1, <2>2, <2>3, WindowFacts DEF WindowsInv, FixedInv, CountIsTrue, WithinLimit
  <1>2. CASE limiter = "sliding" /\ Sliding!Init
    <2>1. /\ now = Start /\ store = [h \in Hosts |-> None]
          /\ managers = [r \in Requests |->
               [counter |-> [windowId |-> 0, currentCount |-> 0, prevCount |-> 0], lastSeen |-> Start]]
          /\ request = [r \in Requests |-> [pc |-> "idle", host |-> None, at |-> 0, manager |-> None]]
          /\ passed = {} /\ overlap = {}
      BY <1>2 DEF Sliding!Init, Sliding!NewManager, Sliding!FirstCounter, Sliding!Idle
    <2>2. managers \in [Requests -> [counter: SlidingCounter, lastSeen: Nat]]
          /\ \A r \in Requests : managers[r].lastSeen = Start
      BY <2>1, WindowFacts DEF SlidingCounter
    <2>3. SerialInv(1, SlidingTTL)
      BY <2>1, <2>2, SlidingGap, MiddleInit
    <2>. QED  BY <1>2, <2>1, <2>2, <2>3 DEF WindowsInv, SlidingInv, CountsTrue
  <1>3. CASE limiter \in {"token", "leaking"}
    BY <1>3 DEF WindowsInv
  <1>. QED  BY <1>1, <1>2, <1>3 DEF LimiterInit

LEMMA WindowsStep ==
  ASSUME WindowsInv, [LimiterNext]_<<vars, windowOnly, limiter>>
  PROVE  WindowsInv'
  <1>1. limiter' = limiter
    BY DEF LimiterNext
  <1>2. CASE limiter = "fixed" /\ Fixed!Next
    BY <1>1, <1>2, FixedStep DEF WindowsInv
  <1>3. CASE limiter = "sliding" /\ Sliding!Next
    BY <1>1, <1>3, SlidingStep DEF WindowsInv
  <1>4. CASE limiter \in {"token", "leaking"}
    BY <1>1, <1>4 DEF WindowsInv
  <1>5. CASE UNCHANGED <<vars, windowOnly, limiter>>
    <2>1. /\ now' = now /\ store' = store /\ request' = request
          /\ managers' = managers /\ passed' = passed /\ overlap' = overlap
      BY <1>5 DEF vars, windowOnly
    <2>2. \A h, w : Passes(h, w)' = Passes(h, w)
      BY <2>1 DEF Passes, Window
    <2>3. FixedInv => FixedInv'
      BY <2>1, <2>2
      DEF FixedInv, SerialInv, MiddleInv, Owns, Serial, Quiet, NothingSince, In, CountIsTrue,
          WithinLimit, Window
    <2>4. SlidingInv => SlidingInv'
      BY <2>1, <2>2
      DEF SlidingInv, SerialInv, MiddleInv, Owns, Serial, Quiet, NothingSince, In, CountsTrue, Window
    <2>. QED  BY <1>1, <2>3, <2>4 DEF WindowsInv
  <1>. QED  BY <1>2, <1>3, <1>4, <1>5 DEF LimiterNext, WindowsInv

\* The fixed window's limit, for a host whose requests do not overlap, however
\* many hosts and requests there are and however long it runs.
THEOREM FixedWindowsLimit == LimiterSpec => []FixedLimit
  <1>1. WindowsInv => FixedLimit
    <2> SUFFICES ASSUME WindowsInv, limiter = "fixed", NEW h \in Hosts \ overlap,
                        NEW w \in 0..Fixed!WindowOf(MaxWindowTime)
                 PROVE  Fixed!PassedIn(h, w) <= Limit
      BY DEF FixedLimit, Fixed!SerialWindowLimit
    <2>1. Fixed!PassedIn(h, w) = Passes(h, w)
      BY DEF Fixed!PassedIn, Fixed!WindowOf, Passes, Window, Fixed!Cardinality, Cardinality
    <2>2. w \in Nat
      OBVIOUS
    <2>. QED  BY <2>1, <2>2 DEF WindowsInv, FixedInv, WithinLimit
  <1>. QED  BY <1>1, WindowsInit, WindowsStep, PTL DEF LimiterSpec

\* The counts the sliding window estimates from are those of the requests it
\* admitted, for such a host.
THEOREM SlidingWindowsCount == LimiterSpec => []SlidingCounts
  <1>1. WindowsInv => SlidingCounts
    <2> SUFFICES ASSUME WindowsInv, limiter = "sliding", NEW h \in Hosts \ overlap,
                        store[h] # None, managers[store[h]].counter.windowId # 0
                 PROVE  LET c == managers[store[h]].counter
                        IN  /\ c.currentCount = Sliding!PassedIn(h, c.windowId)
                            /\ c.prevCount = Sliding!PassedIn(h, c.windowId - 1)
      BY DEF SlidingCounts, Sliding!CountsAreTrue
    <2>1. \A w : Sliding!PassedIn(h, w) = Passes(h, w)
      BY DEF Sliding!PassedIn, Sliding!WindowOf, Passes, Window, Sliding!Cardinality, Cardinality
    <2>. QED  BY <2>1 DEF WindowsInv, SlidingInv, CountsTrue
  <1>. QED  BY <1>1, WindowsInit, WindowsStep, PTL DEF LimiterSpec
=============================================================================
