----------------------------- MODULE KeyCacheProofs -----------------------------
(* Theorems about KeyCache, for any keys and lookups and any intervals with a   *)
(* fetch shorter than the refresh interval, and that no longer than a lifetime. *)
EXTENDS KeyCache, TLAPS, SequenceTheorems

Soft(r) == req[r].mode = "soft"
Forcing(r) == req[r].mode = "force"
Fetching == fetch.stage # "none"
Places == 1 .. Len(queue)

\* The lookups that wait are those in the queue, in the order they came.
QueueShape ==
    /\ \A i, j \in Places : queue[i] = queue[j] => i = j
    /\ \A r \in Requests : Pending(r) <=> \E i \in Places : queue[i] = r
    /\ \A r \in Requests : Pending(r) => req[r].began <= now
    /\ \A i, j \in Places : i < j => req[queue[i]].began <= req[queue[j]].began

\* A lookup is soft when it came to an expired set and forced when it came to a
\* fresh one. So a soft one behind a forced one came later, a forced one behind a
\* soft one saw a set that was installed meanwhile, and a forced one that has
\* waited for somebody's fetch need not make its own.
ModeShape ==
    /\ \A r \in Requests : Forcing(r) => ~req[r].cached /\ req[r].began < cache.expiresAt
    /\ \A i, j \in Places :
          i < j /\ Forcing(queue[i]) /\ Soft(queue[j]) =>
              req[queue[i]].began < req[queue[j]].began
    /\ \A i, j \in Places :
          i < j /\ Soft(queue[i]) /\ Forcing(queue[j]) => Fresh /\ ~Fetching
    /\ \A r \in Requests : Soft(r) /\ Fetching => ~Fresh
    /\ \A r \in Requests : Forcing(r) /\ ~Fetching /\ req[r].began < now => Forced

\* A fetch is the head's, and short. A soft head fetches for an expired set, and
\* nobody behind it has seen another.
FetchShape ==
    Fetching =>
        /\ queue # <<>>
        /\ fetch.at <= now
        /\ now <= fetch.at + FetchTime
        /\ calls.last = fetch.at
        /\ Forcing(queue[1]) => cache.lastForced = fetch.at
        /\ Soft(queue[1]) =>
              /\ cache.expiresAt <= fetch.at
              /\ \A r \in Requests : ~Forcing(r)

\* What a lookup remembers of its key, and how old a withdrawn key can be.
KeyShape ==
    /\ \A r \in Requests :
          Soft(r) /\ req[r].cached => req[r].kid \in cache.keys \/ (Fresh /\ ~Fetching)
    /\ \A k \in cache.keys \ published :
          /\ cache.expiresAt <= changed[k] + MaxTtl
          /\ cache.staleUntil <= changed[k] + MaxTtl + StaleTtl
    /\ cache.expiresAt <= now + MaxTtl
    /\ cache.staleUntil <= now + MaxTtl + StaleTtl
    /\ fetch.stage = "answered" =>
          \A k \in fetch.keys \ published : changed[k] >= fetch.at

IInv == TypeOK /\ QueueShape /\ ModeShape /\ FetchShape /\ KeyShape

--------------------------------------------------------------------------------
(* Lemmas.                                                                      *)

LEMMA Constants ==
    /\ Interval \in Nat /\ MinTtl \in Nat /\ MaxTtl \in Nat /\ DefaultTtl \in Nat
    /\ StaleTtl \in Nat /\ FetchTime \in Nat /\ MaxTime \in Nat
    /\ FetchTime < Interval /\ Interval <= MinTtl
    /\ MinTtl <= DefaultTtl /\ DefaultTtl <= MaxTtl
  BY ConstantsAssumption

\* A lifetime is within its bounds.
LEMMA TtlBounds ==
    \A ttl \in {DefaultTtl} \cup {Ttl(age) : age \in MaxAges} :
        ttl \in Nat /\ MinTtl <= ttl /\ ttl <= MaxTtl
  BY Constants, ConstantsAssumption DEF Ttl

\* A lookup is idle, soft or forced.
LEMMA Modes ==
    ASSUME TypeOK, NEW r \in Requests
    PROVE  /\ Pending(r) <=> Soft(r) \/ Forcing(r)
           /\ Soft(r) => ~Forcing(r)
           /\ Pending(r) => req[r] \in Lookup
           /\ Pending(r) => /\ req[r].kid \in Kids
                            /\ req[r].began \in Int /\ 0 <= req[r].began
                            /\ req[r].cached \in BOOLEAN
  <1>1. req[r] \in Lookup \cup {Idle}
    BY DEF TypeOK
  <1>2. CASE req[r] = Idle
    BY <1>2 DEF Pending, Idle, Soft, Forcing
  <1>3. CASE req[r] \in Lookup
    <2>1. /\ req[r].mode \in {"soft", "force"}
          /\ req[r].kid \in Kids
          /\ req[r].began \in 0 .. MaxTime
          /\ req[r].cached \in BOOLEAN
      BY <1>3 DEF Lookup
    <2>2. req[r] # Idle
      BY <2>1 DEF Idle
    <2> QED BY <1>3, <2>1, <2>2, Constants DEF Pending, Soft, Forcing
  <1> QED BY <1>1, <1>2, <1>3

\* The holder of the lock waits first.
LEMMA Holder ==
    ASSUME TypeOK, QueueShape, NEW r \in Requests, Holds(r)
    PROVE  /\ 1 \in Places /\ queue[1] = r /\ Pending(r)
           /\ Len(queue) \in Nat
  <1>1. queue \in Seq(Requests) /\ queue # <<>> /\ Head(queue) = r
    BY DEF Holds, TypeOK
  <1>2. Len(queue) \in Nat \ {0} /\ queue[1] = r
    BY <1>1
  <1> QED BY <1>2 DEF QueueShape, Places

\* A lookup joins the queue.
LEMMA Joins ==
    ASSUME TypeOK, QueueShape, NEW r \in Requests, NEW x \in Lookup, ~Pending(r),
           x.began = now, now' = now,
           req' = [req EXCEPT ![r] = x], queue' = Append(queue, r)
    PROVE  /\ req' \in [Requests -> Lookup \cup {Idle}]
           /\ queue' \in Seq(Requests)
           /\ QueueShape'
           /\ req'[r] = x
           /\ \A t \in Requests : t # r => req'[t] = req[t]
           /\ Len(queue) \in Nat /\ Len(queue') = Len(queue) + 1
           /\ queue'[Len(queue) + 1] = r
           /\ \A i \in Places : /\ i \in Places'
                                /\ queue[i] \in Requests
                                /\ queue[i] # r
                                /\ queue'[i] = queue[i]
  <1>1. queue \in Seq(Requests) /\ req \in [Requests -> Lookup \cup {Idle}] /\ now \in Int
    BY Constants DEF TypeOK
  <1>2. /\ Len(queue) \in Nat
        /\ queue' \in Seq(Requests)
        /\ Len(queue') = Len(queue) + 1
        /\ queue'[Len(queue) + 1] = r
        /\ \A i \in Places : i \in Places' /\ queue'[i] = queue[i] /\ queue[i] \in Requests
    BY <1>1 DEF Places
  <1>3. /\ req' \in [Requests -> Lookup \cup {Idle}]
        /\ req'[r] = x
        /\ \A t \in Requests : t # r => req'[t] = req[t]
    BY <1>1
  <1>4. \A i \in Places : queue[i] # r
    BY DEF QueueShape
  <1>5. \A i \in Places' : i = Len(queue) + 1 \/ i \in Places
    BY <1>2 DEF Places
  <1>6. \A i, j \in Places' : queue'[i] = queue'[j] => i = j
    BY <1>2, <1>4, <1>5 DEF QueueShape
  <1>7. x # Idle
    BY DEF Lookup, Idle
  <1>8. \A t \in Requests : Pending(t)' <=> \E i \in Places' : queue'[i] = t
    <2> SUFFICES ASSUME NEW t \in Requests
                 PROVE  Pending(t)' <=> \E i \in Places' : queue'[i] = t
      OBVIOUS
    <2>1. CASE t = r
      BY <1>2, <1>3, <1>7, <2>1 DEF Pending, Places
    <2>2. CASE t # r
      <3>1. Pending(t)' <=> Pending(t)
        BY <1>3, <2>2 DEF Pending
      <3> QED BY <1>2, <1>5, <2>2, <3>1 DEF QueueShape
    <2> QED BY <2>1, <2>2
  <1>9. \A t \in Requests : Pending(t)' => req'[t].began <= now'
    BY <1>1, <1>3 DEF QueueShape, Pending
  <1>10. \A i, j \in Places' : i < j => req'[queue'[i]].began <= req'[queue'[j]].began
    <2> SUFFICES ASSUME NEW i \in Places', NEW j \in Places', i < j
                 PROVE  req'[queue'[i]].began <= req'[queue'[j]].began
      OBVIOUS
    <2>1. i \in Places
      BY <1>2, <1>5 DEF Places
    <2>2. req'[queue'[i]] = req[queue[i]] /\ queue[i] \in Requests
      BY <1>2, <1>3, <1>4, <2>1
    <2>3. CASE j = Len(queue) + 1
      <3>1. Pending(queue[i])
        BY <2>1, <2>2 DEF QueueShape
      <3>2. req[queue[i]].began <= now
        BY <2>2, <3>1 DEF QueueShape
      <3> QED BY <1>2, <1>3, <2>2, <2>3, <3>2
    <2>4. CASE j \in Places
      <3>1. req'[queue'[j]] = req[queue[j]]
        BY <1>2, <1>3, <1>4, <2>4
      <3> QED BY <2>1, <2>2, <2>4, <3>1 DEF QueueShape
    <2> QED BY <1>5, <2>3, <2>4
  <1> QED BY <1>2, <1>3, <1>4, <1>6, <1>8, <1>9, <1>10 DEF QueueShape

\* The head leaves the queue.
LEMMA Leaves ==
    ASSUME TypeOK, QueueShape, NEW r \in Requests, Holds(r), now' = now,
           req' = [req EXCEPT ![r] = Idle], queue' = Tail(queue)
    PROVE  /\ req' \in [Requests -> Lookup \cup {Idle}]
           /\ queue' \in Seq(Requests)
           /\ QueueShape'
           /\ req'[r] = Idle
           /\ \A t \in Requests : t # r => req'[t] = req[t]
           /\ \A i \in Places' : /\ i \in Int /\ i + 1 \in Places
                                 /\ queue'[i] = queue[i + 1]
                                 /\ queue'[i] \in Requests
                                 /\ queue'[i] # r
  <1>1. queue \in Seq(Requests) /\ req \in [Requests -> Lookup \cup {Idle}]
        /\ queue # <<>> /\ Head(queue) = r
    BY DEF TypeOK, Holds
  <1>2. /\ Len(queue) \in Nat \ {0}
        /\ queue' \in Seq(Requests)
        /\ Len(queue') = Len(queue) - 1
        /\ \A i \in 1 .. Len(queue') : queue'[i] = queue[i + 1]
        /\ queue[1] = r
    BY <1>1, HeadTailProperties
  <1>3. /\ req' \in [Requests -> Lookup \cup {Idle}]
        /\ req'[r] = Idle
        /\ \A t \in Requests : t # r => req'[t] = req[t]
    BY <1>1
  <1>4. ASSUME NEW i \in Places'
        PROVE  /\ i \in Int /\ i + 1 \in Places
               /\ queue'[i] = queue[i + 1]
               /\ queue'[i] \in Requests
               /\ queue'[i] # r
    <2>1. i \in Int /\ i + 1 \in Places /\ 1 \in Places /\ i + 1 # 1
      BY <1>2 DEF Places
    <2>2. queue'[i] = queue[i + 1]
      BY <1>2 DEF Places
    <2>3. queue[i + 1] \in Requests
      BY <1>1, <2>1, ElementOfSeq DEF Places
    <2>4. queue[i + 1] # queue[1]
      BY <2>1 DEF QueueShape
    <2> QED BY <1>2, <2>1, <2>2, <2>3, <2>4
  <1>5. \A i, j \in Places' : queue'[i] = queue'[j] => i = j
    <2> SUFFICES ASSUME NEW i \in Places', NEW j \in Places', queue'[i] = queue'[j]
                 PROVE  i = j
      OBVIOUS
    <2>1. /\ i \in Int /\ j \in Int /\ i + 1 \in Places /\ j + 1 \in Places
          /\ queue[i + 1] = queue[j + 1]
      BY <1>4
    <2>2. i + 1 = j + 1
      BY <2>1 DEF QueueShape
    <2> QED BY <2>1, <2>2
  <1>6. ASSUME NEW t \in Requests
        PROVE  Pending(t)' <=> \E i \in Places' : queue'[i] = t
    <2>1. CASE t = r
      BY <1>3, <1>4, <2>1 DEF Pending
    <2>2. CASE t # r
      <3>1. Pending(t)' <=> Pending(t)
        BY <1>3, <2>2 DEF Pending
      <3>2. ASSUME NEW i \in Places, queue[i] = t
            PROVE  \E j \in Places' : queue'[j] = t
        <4>1. i # 1
          BY <1>2, <2>2, <3>2
        <4>2. i - 1 \in Places' /\ i - 1 + 1 = i
          BY <1>2, <4>1 DEF Places
        <4> QED BY <1>4, <3>2, <4>2
      <3>3. ASSUME NEW i \in Places', queue'[i] = t
            PROVE  \E j \in Places : queue[j] = t
        BY <1>4, <3>3
      <3> QED BY <3>1, <3>2, <3>3 DEF QueueShape
    <2> QED BY <2>1, <2>2
  <1>7. \A t \in Requests : Pending(t)' => req'[t].began <= now'
    BY <1>3 DEF QueueShape, Pending
  <1>8. \A i, j \in Places' : i < j => req'[queue'[i]].began <= req'[queue'[j]].began
    <2> SUFFICES ASSUME NEW i \in Places', NEW j \in Places', i < j
                 PROVE  req'[queue'[i]].began <= req'[queue'[j]].began
      OBVIOUS
    <2>1. req'[queue'[i]] = req[queue[i + 1]] /\ req'[queue'[j]] = req[queue[j + 1]]
      BY <1>3, <1>4
    <2>2. i + 1 \in Places /\ j + 1 \in Places /\ i + 1 < j + 1
      BY <1>4
    <2> QED BY <2>1, <2>2 DEF QueueShape
  <1> QED BY <1>2, <1>3, <1>4, <1>5, <1>6, <1>7, <1>8 DEF QueueShape

--------------------------------------------------------------------------------
(* What the parts of an action do to the verifier's fields.                     *)

\* The set is the one the refresh left, and at most one id is noted as unknown.
LEMMA Concludes ==
    ASSUME TypeOK, NEW r \in Requests, Pending(r), NEW c \in Cache, Conclude(r, c)
    PROVE  /\ cache' \in Cache
           /\ cache'.keys = c.keys
           /\ cache'.expiresAt = c.expiresAt
           /\ cache'.staleUntil = c.staleUntil
           /\ cache'.retryAt = c.retryAt
           /\ cache'.lastForced = c.lastForced
           /\ \A k \in Kids : \/ cache'.negative[k] = c.negative[k]
                              \/ /\ k = req[r].kid /\ k \notin c.keys
                                 /\ cache'.negative[k] = req[r].began + Interval
           /\ queue' = Tail(queue)
           /\ req' = [req EXCEPT ![r] = Idle]
           /\ verdict' \in Verdict
           /\ verdict'.kid = req[r].kid
           /\ verdict'.began = req[r].began
           /\ verdict'.outcome = "accepted" => req[r].kid \in c.keys
           /\ verdict'.outcome = "unknown" => req[r].kid \notin c.keys
           /\ verdict'.outcome \notin {"unavailable", "invalid"}
  <1>1. /\ req[r].kid \in Kids /\ req[r].began \in 0 .. MaxTime
    BY Modes DEF Lookup
  <1>2. /\ queue' = Tail(queue)
        /\ req' = [req EXCEPT ![r] = Idle]
        /\ verdict' = [outcome |-> IF req[r].kid \in c.keys THEN "accepted" ELSE "unknown",
                       kid |-> req[r].kid, began |-> req[r].began]
    BY DEF Conclude, Finish, Told, Found
  <1>3. \/ cache' = c
        \/ /\ req[r].kid \notin c.keys
           /\ cache' = [c EXCEPT !.negative[req[r].kid] = req[r].began + Interval]
    BY DEF Conclude, Found
  <1>4. req[r].began + Interval \in 0 .. MaxTime + Interval
    BY <1>1, Constants
  <1>5. /\ cache' \in Cache
        /\ cache'.keys = c.keys
        /\ cache'.expiresAt = c.expiresAt
        /\ cache'.staleUntil = c.staleUntil
        /\ cache'.retryAt = c.retryAt
        /\ cache'.lastForced = c.lastForced
        /\ \A k \in Kids : \/ cache'.negative[k] = c.negative[k]
                           \/ /\ k = req[r].kid /\ k \notin c.keys
                              /\ cache'.negative[k] = req[r].began + Interval
    <2>1. CASE cache' = c
      BY <2>1
    <2>2. CASE /\ req[r].kid \notin c.keys
               /\ cache' = [c EXCEPT !.negative[req[r].kid] = req[r].began + Interval]
      BY <1>1, <1>4, <2>2 DEF Cache
    <2> QED BY <1>3, <2>1, <2>2
  <1>6. verdict' \in Verdict
    BY <1>1, <1>2 DEF Verdict
  <1> QED BY <1>2, <1>5, <1>6

\* A lookup that cannot refresh is answered from what it found before or not at all.
LEMMA GivesUp ==
    ASSUME TypeOK, NEW r \in Requests, Pending(r), GiveUp(r)
    PROVE  /\ queue' = Tail(queue)
           /\ req' = [req EXCEPT ![r] = Idle]
           /\ verdict' \in Verdict
           /\ verdict'.kid = req[r].kid
           /\ verdict'.began = req[r].began
           /\ verdict'.outcome = "accepted" => StaleUsable(r)
           /\ verdict'.outcome = "unavailable" => ~StaleUsable(r)
           /\ verdict'.outcome \notin {"unknown", "invalid"}
  <1>1. /\ req[r].kid \in Kids /\ req[r].began \in 0 .. MaxTime
    BY Modes DEF Lookup
  <1>2. /\ queue' = Tail(queue)
        /\ req' = [req EXCEPT ![r] = Idle]
        /\ verdict' = [outcome |-> IF StaleUsable(r) THEN "accepted" ELSE "unavailable",
                       kid |-> req[r].kid, began |-> req[r].began]
    BY DEF GiveUp, Finish, Told
  <1> QED BY <1>1, <1>2 DEF Verdict

\* The types of the clock, the fields and the fetch, one by one.
LEMMA Fields ==
    ASSUME TypeOK
    PROVE  /\ now \in Int /\ 0 <= now /\ now <= MaxTime
           /\ cache.keys \subseteq Kids
           /\ cache.expiresAt \in Int /\ cache.staleUntil \in Int
           /\ cache.retryAt \in Int /\ cache.lastForced \in Int
           /\ \A k \in Kids : cache.negative[k] \in Int /\ changed[k] \in Int
           /\ \A k \in Kids : 0 <= changed[k]
           /\ fetch.at \in 0 .. MaxTime /\ fetch.keys \subseteq Kids
           /\ fetch.stage \in {"none", "sent", "answered"}
           /\ calls.last \in Int /\ calls.before \in Int /\ calls.failed \in BOOLEAN
           /\ published \subseteq Kids
  <1>1. now \in 0 .. MaxTime /\ changed \in [Kids -> 0 .. MaxTime] /\ published \subseteq Kids
    BY DEF TypeOK
  <1>2. cache \in Cache /\ fetch \in Fetch
    BY DEF TypeOK
  <1>3. calls \in [last : -Interval .. MaxTime, before : -Interval .. MaxTime,
                   failed : BOOLEAN]
    BY DEF TypeOK
  <1>4. /\ cache.keys \subseteq Kids
        /\ cache.expiresAt \in Int /\ cache.staleUntil \in Int
        /\ cache.retryAt \in Int /\ cache.lastForced \in Int
        /\ \A k \in Kids : cache.negative[k] \in Int
    BY <1>2, Constants DEF Cache
  <1>5. /\ fetch.at \in 0 .. MaxTime /\ fetch.keys \subseteq Kids
        /\ fetch.stage \in {"none", "sent", "answered"}
    BY <1>2 DEF Fetch
  <1>6. calls.last \in Int /\ calls.before \in Int /\ calls.failed \in BOOLEAN
    BY <1>3, Constants
  <1> QED BY <1>1, <1>4, <1>5, <1>6, Constants

\* A failed fetch moves the time of the next one only.
LEMMA Fails ==
    ASSUME TypeOK
    PROVE  /\ FailedAt \in Cache
           /\ FailedAt.keys = cache.keys
           /\ FailedAt.expiresAt = cache.expiresAt
           /\ FailedAt.staleUntil = cache.staleUntil
           /\ FailedAt.retryAt = fetch.at + Interval
           /\ FailedAt.lastForced = cache.lastForced
           /\ FailedAt.negative = cache.negative
  <1>1. cache \in Cache /\ fetch.at + Interval \in 0 .. MaxTime + Interval
    BY Fields, Constants DEF TypeOK
  <1> QED BY <1>1 DEF FailedAt, Cache

\* An installed set replaces the fields, the entries that are over are dropped.
Installed(ttl) ==
    [cache EXCEPT !.keys = fetch.keys,
                  !.expiresAt = fetch.at + ttl,
                  !.staleUntil = fetch.at + ttl + StaleTtl,
                  !.retryAt = 0,
                  !.negative = Purged]

LEMMA Installs ==
    ASSUME TypeOK, NEW ttl \in {DefaultTtl} \cup {Ttl(age) : age \in MaxAges}
    PROVE  /\ Installed(ttl) \in Cache
           /\ Installed(ttl).keys = fetch.keys
           /\ Installed(ttl).expiresAt = fetch.at + ttl
           /\ Installed(ttl).staleUntil = fetch.at + ttl + StaleTtl
           /\ Installed(ttl).retryAt = 0
           /\ Installed(ttl).lastForced = cache.lastForced
           /\ \A k \in Kids : Installed(ttl).negative[k] \in {0, cache.negative[k]}
           /\ ttl \in Nat /\ Interval <= ttl /\ ttl <= MaxTtl
  <1>1. ttl \in Nat /\ Interval <= ttl /\ ttl <= MaxTtl
    BY TtlBounds, Constants
  <1>2. cache \in Cache /\ fetch.at \in 0 .. MaxTime /\ fetch.keys \subseteq Kids
    BY Fields DEF TypeOK
  <1>3. /\ Purged \in [Kids -> 0 .. MaxTime + Interval]
        /\ \A k \in Kids : Purged[k] \in {0, cache.negative[k]}
    BY <1>2, Constants DEF Purged, Cache
  <1>4. /\ fetch.at + ttl \in 0 .. MaxTime + MaxTtl
        /\ fetch.at + ttl + StaleTtl \in 0 .. MaxTime + MaxTtl + StaleTtl
        /\ 0 \in 0 .. MaxTime + Interval
    BY <1>1, <1>2, Constants
  <1> QED BY <1>1, <1>2, <1>3, <1>4 DEF Installed, Cache

--------------------------------------------------------------------------------
(* The five ways a lookup leaves the lock, together.                            *)

SameSet ==
    /\ cache'.keys = cache.keys
    /\ cache'.expiresAt = cache.expiresAt
    /\ cache'.staleUntil = cache.staleUntil

NewSet ==
    /\ fetch.stage = "answered"
    /\ cache'.keys = fetch.keys
    /\ \E ttl \in Nat : /\ Interval <= ttl /\ ttl <= MaxTtl
                        /\ cache'.expiresAt = fetch.at + ttl
                        /\ cache'.staleUntil = fetch.at + ttl + StaleTtl

Departure(r) ==
    /\ Holds(r)
    /\ queue' = Tail(queue)
    /\ req' = [req EXCEPT ![r] = Idle]
    /\ UNCHANGED <<now, published, changed>>
    /\ cache' \in Cache /\ cache'.lastForced = cache.lastForced
    /\ SameSet \/ NewSet
    /\ fetch' \in Fetch /\ fetch'.stage = "none"
    /\ calls'.last = calls.last /\ calls'.before = calls.before
    /\ calls' \in [last : -Interval .. MaxTime, before : -Interval .. MaxTime,
                   failed : BOOLEAN]
    /\ verdict' \in Verdict
    /\ verdict'.kid = req[r].kid
    /\ verdict'.began = req[r].began

LEMMA NoneFetched == NoFetch \in Fetch /\ NoFetch.stage = "none"
  BY Constants DEF NoFetch, Fetch

\* Nothing but the answer comes of a skipped refresh, except perhaps a negative
\* entry.
LEMMA Skips ==
    ASSUME IInv, NEW r \in Requests, Skip(r)
    PROVE  /\ Departure(r) /\ SameSet /\ ~Fetching
           /\ Pending(r)
           /\ calls' = calls
           /\ Soft(r) => Fresh
           /\ Forcing(r) => Forced /\ now >= cache.retryAt
           /\ cache'.retryAt = cache.retryAt
           /\ \A k \in Kids : \/ cache'.negative[k] = cache.negative[k]
                              \/ /\ k = req[r].kid /\ k \notin cache.keys
                                 /\ cache'.negative[k] = req[r].began + Interval
           /\ verdict'.outcome = "accepted" => req[r].kid \in cache.keys
           /\ verdict'.outcome = "unknown" => req[r].kid \notin cache.keys
           /\ verdict'.outcome \notin {"unavailable", "invalid"}
  <1> USE DEF IInv
  <1>1. Pending(r) /\ cache \in Cache
    BY Holder DEF Skip, TypeOK
  <1>2. /\ Holds(r) /\ fetch.stage = "none" /\ Conclude(r, cache)
        /\ UNCHANGED <<now, published, changed, fetch, calls>>
        /\ Soft(r) => Fresh
        /\ Forcing(r) => Forced /\ now >= cache.retryAt
    BY Modes DEF Skip, endpoint, Soft, Forcing
  <1> QED BY <1>1, <1>2, Concludes DEF Departure, SameSet, Fetching, TypeOK

LEMMA Refuses ==
    ASSUME IInv, NEW r \in Requests, Refuse(r)
    PROVE  /\ Departure(r) /\ SameSet /\ ~Fetching
           /\ Pending(r)
           /\ calls' = calls /\ cache' = cache
           /\ Soft(r) => ~Fresh
           /\ now < cache.retryAt
           /\ verdict'.outcome = "accepted" => StaleUsable(r)
           /\ verdict'.outcome = "unavailable" => ~StaleUsable(r)
           /\ verdict'.outcome \notin {"unknown", "invalid"}
  <1> USE DEF IInv
  <1>1. Pending(r) /\ cache \in Cache
    BY Holder DEF Refuse, TypeOK
  <1>2. /\ Holds(r) /\ fetch.stage = "none" /\ GiveUp(r)
        /\ UNCHANGED <<now, published, changed, cache, fetch, calls>>
        /\ Soft(r) => ~Fresh
        /\ now < cache.retryAt
    BY Modes DEF Refuse, endpoint, Soft, Forcing
  <1> QED BY <1>1, <1>2, GivesUp DEF Departure, SameSet, Fetching, TypeOK

LEMMA Replaces ==
    ASSUME IInv, NEW r \in Requests, Install(r)
    PROVE  /\ Departure(r) /\ NewSet /\ Fetching
           /\ Pending(r)
           /\ calls'.failed = FALSE
           /\ cache'.retryAt = 0
           /\ \A k \in Kids : \/ cache'.negative[k] \in {0, cache.negative[k]}
                              \/ /\ k = req[r].kid /\ k \notin fetch.keys
                                 /\ cache'.negative[k] = req[r].began + Interval
           /\ verdict'.outcome = "accepted" => req[r].kid \in fetch.keys
           /\ verdict'.outcome = "unknown" => req[r].kid \notin fetch.keys
           /\ verdict'.outcome \notin {"unavailable", "invalid"}
  <1> USE DEF IInv
  <1>1. Pending(r)
    BY Holder DEF Install
  <1>2. PICK ttl \in {DefaultTtl} \cup {Ttl(age) : age \in MaxAges} :
            Conclude(r, Installed(ttl))
    BY DEF Install, Installed
  <1>3. /\ Holds(r) /\ fetch.stage = "answered" /\ fetch' = NoFetch
        /\ calls' = [calls EXCEPT !.failed = FALSE]
        /\ UNCHANGED <<now, published, changed>>
    BY DEF Install, endpoint
  <1>4. /\ calls'.last = calls.last /\ calls'.before = calls.before
        /\ calls'.failed = FALSE
        /\ calls' \in [last : -Interval .. MaxTime, before : -Interval .. MaxTime,
                       failed : BOOLEAN]
    BY <1>3 DEF TypeOK
  <1>5. /\ Installed(ttl) \in Cache
        /\ Installed(ttl).keys = fetch.keys
        /\ Installed(ttl).expiresAt = fetch.at + ttl
        /\ Installed(ttl).staleUntil = fetch.at + ttl + StaleTtl
        /\ Installed(ttl).retryAt = 0
        /\ Installed(ttl).lastForced = cache.lastForced
        /\ \A k \in Kids : Installed(ttl).negative[k] \in {0, cache.negative[k]}
        /\ ttl \in Nat /\ Interval <= ttl /\ ttl <= MaxTtl
    BY Installs
  <1>6. NewSet
    BY <1>1, <1>2, <1>3, <1>5, Concludes DEF NewSet
  <1>7. /\ cache' \in Cache /\ cache'.lastForced = cache.lastForced /\ cache'.retryAt = 0
        /\ \A k \in Kids : \/ cache'.negative[k] \in {0, cache.negative[k]}
                           \/ /\ k = req[r].kid /\ k \notin fetch.keys
                              /\ cache'.negative[k] = req[r].began + Interval
        /\ queue' = Tail(queue)
        /\ req' = [req EXCEPT ![r] = Idle]
        /\ verdict' \in Verdict
        /\ verdict'.kid = req[r].kid
        /\ verdict'.began = req[r].began
        /\ verdict'.outcome = "accepted" => req[r].kid \in fetch.keys
        /\ verdict'.outcome = "unknown" => req[r].kid \notin fetch.keys
        /\ verdict'.outcome \notin {"unavailable", "invalid"}
    BY <1>1, <1>2, <1>5, Concludes
  <1> QED BY <1>1, <1>3, <1>4, <1>6, <1>7, NoneFetched DEF Departure, Fetching

LEMMA FailsAway ==
    ASSUME IInv, NEW r \in Requests, FetchFails(r)
    PROVE  /\ Departure(r) /\ SameSet /\ Fetching
           /\ Pending(r)
           /\ calls'.failed = TRUE
           /\ cache'.retryAt = fetch.at + Interval
           /\ cache'.negative = cache.negative
           /\ verdict'.outcome = "accepted" => StaleUsable(r)
           /\ verdict'.outcome = "unavailable" => ~StaleUsable(r)
           /\ verdict'.outcome \notin {"unknown", "invalid"}
  <1> USE DEF IInv
  <1>1. Pending(r)
    BY Holder DEF FetchFails
  <1>2. /\ Holds(r) /\ fetch.stage # "none" /\ fetch' = NoFetch
        /\ calls' = [calls EXCEPT !.failed = TRUE]
        /\ cache' = FailedAt /\ GiveUp(r)
        /\ UNCHANGED <<now, published, changed>>
    BY DEF FetchFails, endpoint
  <1>3. /\ calls'.last = calls.last /\ calls'.before = calls.before
        /\ calls'.failed = TRUE
        /\ calls' \in [last : -Interval .. MaxTime, before : -Interval .. MaxTime,
                       failed : BOOLEAN]
    BY <1>2 DEF TypeOK
  <1> QED BY <1>1, <1>2, <1>3, GivesUp, Fails, NoneFetched DEF Departure, SameSet, Fetching

LEMMA RaisesAway ==
    ASSUME IInv, NEW r \in Requests, FetchRaises(r)
    PROVE  /\ Departure(r) /\ SameSet /\ Fetching
           /\ UnreadableKeyMayBeServed
           /\ verdict'.outcome = "invalid"
  <1> USE DEF IInv
  <1>1. Pending(r) /\ req[r].kid \in Kids /\ req[r].began \in 0 .. MaxTime
    BY Holder, Modes DEF FetchRaises, Lookup
  <1>2. /\ Holds(r) /\ fetch.stage # "none" /\ fetch' = NoFetch
        /\ calls' = [calls EXCEPT !.failed = TRUE]
        /\ cache' = cache /\ queue' = Tail(queue)
        /\ req' = [req EXCEPT ![r] = Idle]
        /\ verdict' = [outcome |-> "invalid", kid |-> req[r].kid, began |-> req[r].began]
        /\ UNCHANGED <<now, published, changed>>
        /\ UnreadableKeyMayBeServed
    BY DEF FetchRaises, endpoint, Finish, Told
  <1>3. /\ calls'.last = calls.last /\ calls'.before = calls.before
        /\ calls' \in [last : -Interval .. MaxTime, before : -Interval .. MaxTime,
                       failed : BOOLEAN]
    BY <1>2 DEF TypeOK
  <1>4. verdict' \in Verdict /\ verdict'.kid = req[r].kid /\ verdict'.began = req[r].began
        /\ verdict'.outcome = "invalid"
    BY <1>1, <1>2 DEF Verdict
  <1>5. cache' \in Cache
    BY <1>2 DEF TypeOK
  <1> QED BY <1>2, <1>3, <1>4, <1>5, NoneFetched DEF Departure, SameSet, Fetching

--------------------------------------------------------------------------------
(* IInv is inductive: a lookup that leaves, one that comes, a call, and the rest. *)

LEMMA DepartureStep ==
    ASSUME IInv, NEW r \in Requests, Departure(r)
    PROVE  IInv'
  <1> USE DEF IInv
  <1> USE Constants, Fields
  <1>1. /\ now' = now /\ published' = published /\ changed' = changed
        /\ Holds(r) /\ queue' = Tail(queue) /\ req' = [req EXCEPT ![r] = Idle]
        /\ cache' \in Cache /\ cache'.lastForced = cache.lastForced
        /\ SameSet \/ NewSet
        /\ ~Fetching'
    BY DEF Departure, Fetching
  <1>2. /\ QueueShape'
        /\ req' \in [Requests -> Lookup \cup {Idle}]
        /\ queue' \in Seq(Requests)
        /\ req'[r] = Idle
        /\ \A t \in Requests : t # r => req'[t] = req[t]
        /\ \A i \in Places' : /\ i \in Int /\ i + 1 \in Places
                              /\ queue'[i] = queue[i + 1]
                              /\ queue'[i] \in Requests
                              /\ queue'[i] # r
    BY <1>1, Leaves
  <1>3. TypeOK'
    BY <1>1, <1>2 DEF Departure, TypeOK
  <1>4. /\ cache'.expiresAt \in Int /\ cache'.staleUntil \in Int /\ cache'.lastForced \in Int
        /\ cache'.keys \subseteq Kids
    BY <1>1 DEF Cache
  <1>5. queue[1] = r /\ Pending(r) /\ 1 \in Places
    BY <1>1, Holder
  <1>6. NewSet => /\ now < cache'.expiresAt
                  /\ Fetching
    BY <1>4 DEF NewSet, FetchShape, Fetching
  <1>7. Fresh /\ ~Fetching => Fresh'
    BY <1>1, <1>4, <1>6 DEF SameSet, Fresh
  <1>8. ASSUME NEW t \in Requests, Soft(t)' \/ Forcing(t)'
        PROVE  t # r /\ req'[t] = req[t] /\ Pending(t)
    BY <1>2, <1>8, Modes DEF Soft, Forcing, Idle
  <1>9. ModeShape'
    <2>1. ASSUME NEW t \in Requests, Forcing(t)'
          PROVE  ~req'[t].cached /\ req'[t].began < cache'.expiresAt
      <3>1. req'[t] = req[t] /\ Pending(t)
        BY <1>8, <2>1
      <3>2. ~req[t].cached /\ req[t].began < cache.expiresAt
        BY <2>1, <3>1 DEF Forcing, ModeShape
      <3>3. req[t].began <= now /\ req[t].began \in Int
        BY <3>1, Modes DEF QueueShape
      <3> QED BY <1>1, <1>4, <1>6, <3>1, <3>2, <3>3 DEF SameSet
    <2>2. ASSUME NEW i \in Places', NEW j \in Places', i < j
          PROVE  /\ Forcing(queue[i])' /\ Soft(queue[j])' =>
                        req'[queue'[i]].began < req'[queue'[j]].began
                 /\ Soft(queue[i])' /\ Forcing(queue[j])' => Fresh' /\ ~Fetching'
      <3>1. /\ i + 1 \in Places /\ j + 1 \in Places /\ i + 1 < j + 1
            /\ req'[queue'[i]] = req[queue[i + 1]]
            /\ req'[queue'[j]] = req[queue[j + 1]]
        BY <1>2, <2>2
      <3>2. /\ Forcing(queue[i])' <=> Forcing(queue[i + 1])
            /\ Forcing(queue[j])' <=> Forcing(queue[j + 1])
            /\ Soft(queue[i])' <=> Soft(queue[i + 1])
            /\ Soft(queue[j])' <=> Soft(queue[j + 1])
        BY <3>1 DEF Forcing, Soft
      <3>3. Forcing(queue[i + 1]) /\ Soft(queue[j + 1]) =>
                req[queue[i + 1]].began < req[queue[j + 1]].began
        BY <3>1 DEF ModeShape
      <3>4. Soft(queue[i + 1]) /\ Forcing(queue[j + 1]) => Fresh /\ ~Fetching
        BY <3>1 DEF ModeShape
      <3> QED BY <1>1, <1>7, <3>1, <3>2, <3>3, <3>4
    <2>3. ASSUME NEW t \in Requests, Forcing(t)', req'[t].began < now'
          PROVE  Forced'
      <3>1. req'[t] = req[t] /\ Forcing(t) /\ req[t].began < now
        BY <1>1, <1>8, <2>3 DEF Forcing
      <3>2. CASE ~Fetching
        BY <1>1, <3>1, <3>2 DEF ModeShape, Forced
      <3>3. CASE Fetching
        <4>1. Forcing(r)
          BY <1>5, <3>1, <3>3, Modes DEF FetchShape
        <4>2. cache.lastForced = fetch.at /\ now <= fetch.at + FetchTime
          BY <1>5, <3>3, <4>1 DEF FetchShape
        <4> QED BY <1>1, <4>2 DEF Forced
      <3> QED BY <3>2, <3>3
    <2>4. \A t \in Requests : Soft(t)' /\ Fetching' => ~Fresh'
      BY <1>1
    <2> QED BY <2>1, <2>2, <2>3, <2>4 DEF ModeShape
  <1>10. KeyShape'
    <2>1. ASSUME NEW t \in Requests, Soft(t)', req'[t].cached
          PROVE  req'[t].kid \in cache'.keys \/ (Fresh' /\ ~Fetching')
      <3>1. req'[t] = req[t] /\ Soft(t)
        BY <1>8, <2>1 DEF Soft
      <3>2. req[t].kid \in cache.keys \/ (Fresh /\ ~Fetching)
        BY <2>1, <3>1 DEF KeyShape
      <3>3. NewSet => Fresh'
        BY <1>1, <1>6 DEF Fresh
      <3> QED BY <1>1, <1>7, <3>1, <3>2, <3>3 DEF SameSet
    <2>2. ASSUME NEW k \in cache'.keys \ published'
          PROVE  /\ cache'.expiresAt <= changed'[k] + MaxTtl
                 /\ cache'.staleUntil <= changed'[k] + MaxTtl + StaleTtl
      <3>1. k \in Kids
        BY <1>4
      <3>2. CASE SameSet
        BY <1>1, <3>2 DEF SameSet, KeyShape
      <3>3. CASE NewSet
        <4>1. changed[k] >= fetch.at
          BY <1>1, <3>3 DEF NewSet, KeyShape
        <4>2. PICK ttl \in Nat : /\ ttl <= MaxTtl
                                 /\ cache'.expiresAt = fetch.at + ttl
                                 /\ cache'.staleUntil = fetch.at + ttl + StaleTtl
          BY <3>3 DEF NewSet
        <4>3. changed'[k] = changed[k] /\ changed[k] \in Int /\ fetch.at \in Int
          BY <1>1, <3>1
        <4> QED BY <4>1, <4>2, <4>3
      <3> QED BY <1>1, <3>2, <3>3
    <2>3. /\ cache'.expiresAt <= now' + MaxTtl
          /\ cache'.staleUntil <= now' + MaxTtl + StaleTtl
      <3>1. CASE SameSet
        BY <1>1, <3>1 DEF SameSet, KeyShape
      <3>2. CASE NewSet
        <4>1. PICK ttl \in Nat : /\ ttl <= MaxTtl
                                 /\ cache'.expiresAt = fetch.at + ttl
                                 /\ cache'.staleUntil = fetch.at + ttl + StaleTtl
          BY <3>2 DEF NewSet
        <4>2. fetch.at <= now
          BY <1>6, <3>2 DEF FetchShape
        <4>3. now' = now /\ now \in Int /\ fetch.at \in Int
          BY <1>1
        <4>4. cache'.expiresAt <= now' + MaxTtl
          BY <4>1, <4>2, <4>3
        <4>5. cache'.staleUntil <= now' + MaxTtl + StaleTtl
          BY <4>1, <4>2, <4>3
        <4> QED BY <4>4, <4>5
      <3> QED BY <1>1, <3>1, <3>2
    <2>4. ~(fetch'.stage = "answered")
      BY <1>1 DEF Fetching
    <2> QED BY <2>1, <2>2, <2>3, <2>4 DEF KeyShape
  <1>11. FetchShape'
    BY <1>1 DEF FetchShape
  <1> QED BY <1>2, <1>3, <1>9, <1>10, <1>11

\* What a lookup is when it has to wait.
LEMMA Waits ==
    ASSUME IInv, NEW r \in Requests, NEW k \in Kids, StartWait(r, k)
    PROVE  \E x \in Lookup :
              /\ ~Pending(r)
              /\ x.kid = k /\ x.began = now
              /\ x.mode = "force" \/ x.mode = "soft"
              /\ x.mode = "force" => Fresh
              /\ x.mode = "soft" => ~Fresh
              /\ x.cached <=> k \in cache.keys
              /\ x.mode = "force" => ~x.cached /\ cache.negative[k] <= now
              /\ req' = [req EXCEPT ![r] = x]
              /\ queue' = Append(queue, r)
              /\ verdict' = NoVerdict
              /\ UNCHANGED <<now, published, changed, cache, fetch, calls>>
  <1> DEFINE x == [mode |-> IF Fresh THEN "force" ELSE "soft", kid |-> k, began |-> now,
                   cached |-> k \in cache.keys]
  <1>1. x \in Lookup
    BY DEF Lookup, IInv, TypeOK
  <1>2. x.mode = "force" => ~x.cached /\ cache.negative[k] <= now
    <2>1. now \in Int /\ cache.negative[k] \in Int
      BY Fields DEF IInv
    <2>2. Fresh => k \notin cache.keys /\ ~(cache.negative[k] > now)
      BY DEF StartWait, Answered
    <2>3. x.mode = "force" => Fresh
      OBVIOUS
    <2>4. x.cached = (k \in cache.keys)
      OBVIOUS
    <2>5. Fresh => cache.negative[k] <= now
      BY <2>1, <2>2
    <2> HIDE DEF x
    <2>6. x.mode = "force" => ~x.cached
      BY <2>2, <2>3, <2>4
    <2> QED BY <2>3, <2>5, <2>6
  <1>3. /\ ~Pending(r)
        /\ req' = [req EXCEPT ![r] = x]
        /\ queue' = Append(queue, r)
        /\ verdict' = NoVerdict
        /\ UNCHANGED <<now, published, changed, cache, fetch, calls>>
    BY DEF StartWait, Quiet, endpoint
  <1> WITNESS x \in Lookup
  <1> QED BY <1>2, <1>3

LEMMA StartWaitStep ==
    ASSUME IInv, NEW r \in Requests, NEW k \in Kids, StartWait(r, k)
    PROVE  IInv'
  <1> USE DEF IInv
  <1> USE Constants, Fields
  <1>1. PICK x \in Lookup :
              /\ ~Pending(r)
              /\ x.kid = k /\ x.began = now
              /\ x.mode = "force" \/ x.mode = "soft"
              /\ x.mode = "force" => Fresh
              /\ x.mode = "soft" => ~Fresh
              /\ x.cached <=> k \in cache.keys
              /\ x.mode = "force" => ~x.cached
              /\ req' = [req EXCEPT ![r] = x]
              /\ queue' = Append(queue, r)
              /\ verdict' = NoVerdict
              /\ UNCHANGED <<now, published, changed, cache, fetch, calls>>
    BY Waits
  <1>2. /\ req' \in [Requests -> Lookup \cup {Idle}]
        /\ queue' \in Seq(Requests)
        /\ QueueShape'
        /\ req'[r] = x
        /\ \A t \in Requests : t # r => req'[t] = req[t]
        /\ Len(queue) \in Nat /\ Len(queue') = Len(queue) + 1
        /\ queue'[Len(queue) + 1] = r
        /\ \A i \in Places : /\ i \in Places'
                             /\ queue[i] \in Requests
                             /\ queue[i] # r
                             /\ queue'[i] = queue[i]
    BY <1>1, Joins
  <1>3. TypeOK'
    BY <1>1, <1>2 DEF TypeOK
  <1>4. /\ Fresh' <=> Fresh
        /\ Fetching' <=> Fetching
        /\ Forced' <=> Forced
    BY <1>1 DEF Fresh, Fetching, Forced
  <1>5. \A i \in Places' : i = Len(queue) + 1 \/ i \in Places
    BY <1>2 DEF Places
  <1>6. \A i \in Places : /\ Forcing(queue[i])' <=> Forcing(queue[i])
                          /\ Soft(queue[i])' <=> Soft(queue[i])
                          /\ req'[queue'[i]] = req[queue[i]]
    BY <1>2 DEF Forcing, Soft
  <1>7. \A t \in Requests : t # r => /\ Forcing(t)' <=> Forcing(t)
                                     /\ Soft(t)' <=> Soft(t)
    BY <1>2 DEF Forcing, Soft
  <1>8. /\ Forcing(r)' <=> x.mode = "force"
        /\ Soft(r)' <=> x.mode = "soft"
    BY <1>2 DEF Forcing, Soft
  <1>9. ModeShape'
    <2>1. ASSUME NEW t \in Requests, Forcing(t)'
          PROVE  ~req'[t].cached /\ req'[t].began < cache'.expiresAt
      <3>1. CASE t = r
        BY <1>1, <1>2, <1>8, <2>1, <3>1 DEF Fresh
      <3>2. CASE t # r
        BY <1>1, <1>2, <1>7, <2>1, <3>2 DEF ModeShape
      <3> QED BY <3>1, <3>2
    <2>2. ASSUME NEW i \in Places', NEW j \in Places', i < j
          PROVE  /\ Forcing(queue[i])' /\ Soft(queue[j])' =>
                        req'[queue'[i]].began < req'[queue'[j]].began
                 /\ Soft(queue[i])' /\ Forcing(queue[j])' => Fresh' /\ ~Fetching'
      <3>1. i \in Places
        BY <1>2, <1>5, <2>2 DEF Places
      <3>2. CASE j \in Places
        BY <1>4, <1>6, <2>2, <3>1, <3>2 DEF ModeShape
      <3>3. CASE j = Len(queue) + 1
        <4>1. queue[i] \in Requests /\ queue'[j] = r /\ req'[queue'[j]].began = now
          BY <1>1, <1>2, <3>1, <3>3
        <4>2. ASSUME Forcing(queue[i]), x.mode = "soft"
              PROVE  req[queue[i]].began < now
          BY <1>1, <4>1, <4>2, Modes DEF ModeShape, Fresh
        <4>3. ASSUME Soft(queue[i]), x.mode = "force"
              PROVE  Fresh /\ ~Fetching
          BY <1>1, <4>1, <4>3 DEF ModeShape
        <4>4. /\ Soft(queue[j])' <=> x.mode = "soft"
              /\ Forcing(queue[j])' <=> x.mode = "force"
          BY <1>8, <4>1 DEF Soft, Forcing
        <4> QED BY <1>4, <1>6, <3>1, <4>1, <4>2, <4>3, <4>4
      <3> QED BY <1>5, <3>2, <3>3
    <2>3. ASSUME NEW t \in Requests, Forcing(t)', ~Fetching', req'[t].began < now'
          PROVE  Forced'
      <3>1. t # r
        BY <1>1, <1>2, <2>3
      <3> QED BY <1>1, <1>2, <1>4, <1>7, <2>3, <3>1 DEF ModeShape
    <2>4. ASSUME NEW t \in Requests, Soft(t)', Fetching'
          PROVE  ~Fresh'
      BY <1>1, <1>4, <1>7, <1>8, <2>4 DEF ModeShape
    <2> QED BY <2>1, <2>2, <2>3, <2>4 DEF ModeShape
  <1>10. KeyShape'
    <2>1. ASSUME NEW t \in Requests, Soft(t)', req'[t].cached
          PROVE  req'[t].kid \in cache'.keys \/ (Fresh' /\ ~Fetching')
      <3>1. CASE t = r
        BY <1>1, <1>2, <2>1, <3>1
      <3>2. CASE t # r
        BY <1>1, <1>2, <1>4, <1>7, <2>1, <3>2 DEF KeyShape
      <3> QED BY <3>1, <3>2
    <2> QED BY <1>1, <2>1 DEF KeyShape
  <1>11. FetchShape'
    <2> SUFFICES ASSUME Fetching PROVE FetchShape'
      BY <1>4 DEF FetchShape
    <2>1. 1 \in Places /\ queue' # <<>>
      BY <1>1, <1>2 DEF FetchShape, Places, TypeOK
    <2>2. ASSUME Soft(queue[1])
          PROVE  \A t \in Requests : ~Forcing(t)'
      <3>1. ~Fresh
        BY <2>2 DEF FetchShape, Fresh
      <3> QED BY <1>1, <1>7, <1>8, <2>2, <3>1 DEF FetchShape
    <2> QED BY <1>1, <1>4, <1>6, <2>1, <2>2 DEF FetchShape
  <1> QED BY <1>2, <1>3, <1>9, <1>10, <1>11

\* Whoever calls the endpoint for an expired set has none behind it that came to
\* a fresh one; whoever calls it for an unknown id came this instant, and so did
\* all behind it, to a fresh set.
LEMMA Sends ==
    ASSUME IInv, NEW r \in Requests, Send(r)
    PROVE  /\ Pending(r) /\ queue[1] = r /\ 1 \in Places /\ Len(queue) \in Nat /\ queue # <<>>
           /\ ~Fetching
           /\ UNCHANGED <<now, published, changed, queue, req>>
           /\ verdict' = NoVerdict
           /\ fetch' = [stage |-> "sent", at |-> now, keys |-> {}]
           /\ calls' = [calls EXCEPT !.before = calls.last, !.last = now]
           /\ cache' \in Cache
           /\ cache'.keys = cache.keys
           /\ cache'.expiresAt = cache.expiresAt
           /\ cache'.staleUntil = cache.staleUntil
           /\ cache'.retryAt = cache.retryAt
           /\ cache'.negative = cache.negative
           /\ Soft(r) => /\ ~Fresh /\ now >= cache.retryAt
                         /\ cache' = cache
                         /\ \A t \in Requests : ~Forcing(t)
           /\ Forcing(r) => /\ ~Forced
                            /\ cache'.lastForced = now
                            /\ \A t \in Requests : Pending(t) => req[t].began = now
                            /\ \A t \in Requests : ~Soft(t)
  <1> USE DEF IInv
  <1> USE Constants, Fields
  <1>1. /\ Pending(r) /\ queue[1] = r /\ 1 \in Places /\ Len(queue) \in Nat /\ queue # <<>>
    BY Holder DEF Send, Holds
  <1>2. /\ ~Fetching
        /\ UNCHANGED <<now, published, changed, queue, req>>
        /\ verdict' = NoVerdict
        /\ fetch' = [stage |-> "sent", at |-> now, keys |-> {}]
        /\ calls' = [calls EXCEPT !.before = calls.last, !.last = now]
        /\ Soft(r) => ~Fresh /\ now >= cache.retryAt /\ cache' = cache
        /\ Forcing(r) => ~Forced /\ cache' = [cache EXCEPT !.lastForced = now]
    BY DEF Send, Fetching, endpoint, Quiet, Soft, Forcing
  <1>3. Soft(r) \/ Forcing(r)
    BY <1>1, Modes
  <1>4. cache \in Cache /\ now \in -Interval .. MaxTime
    BY DEF TypeOK
  <1>5. /\ cache' \in Cache
        /\ cache'.keys = cache.keys
        /\ cache'.expiresAt = cache.expiresAt
        /\ cache'.staleUntil = cache.staleUntil
        /\ cache'.retryAt = cache.retryAt
        /\ cache'.negative = cache.negative
        /\ Forcing(r) => cache'.lastForced = now
    <2>1. CASE Soft(r)
      BY <1>1, <1>2, <1>4, <2>1, Modes
    <2>2. CASE Forcing(r)
      BY <1>2, <1>4, <2>2 DEF Cache
    <2> QED BY <1>3, <2>1, <2>2
  <1>6. ASSUME Soft(r), NEW t \in Requests
        PROVE  ~Forcing(t)
    <2> SUFFICES ASSUME Forcing(t) PROVE FALSE
      OBVIOUS
    <2>1. PICK i \in Places : queue[i] = t
      BY Modes DEF QueueShape
    <2>2. i # 1
      BY <1>1, <1>6, <2>1, Modes
    <2>3. 1 < i
      BY <2>2 DEF Places
    <2> QED BY <1>1, <1>2, <1>6, <2>1, <2>3 DEF ModeShape
  <1>7. ASSUME Forcing(r), NEW t \in Requests
        PROVE  /\ Pending(t) => req[t].began = now
               /\ ~Soft(t)
    <2>1. req[r].began = now
      BY <1>1, <1>2, <1>7, Modes DEF ModeShape, QueueShape
    <2> SUFFICES ASSUME Pending(t)
                 PROVE  req[t].began = now /\ ~Soft(t)
      BY Modes
    <2>2. PICK i \in Places : queue[i] = t
      BY DEF QueueShape
    <2>3. CASE i = 1
      BY <1>1, <1>7, <2>1, <2>2, <2>3, Modes
    <2>4. CASE 1 < i
      <3>1. req[r].began <= req[t].began /\ req[t].began <= now /\ req[t].began \in Int
        BY <1>1, <2>2, <2>4, Modes DEF QueueShape
      <3>2. Soft(t) => req[r].began < req[t].began
        BY <1>1, <1>7, <2>2, <2>4 DEF ModeShape
      <3> QED BY <2>1, <3>1, <3>2
    <2> QED BY <2>3, <2>4 DEF Places
  <1> QED BY <1>1, <1>2, <1>5, <1>6, <1>7

LEMMA SendStep ==
    ASSUME IInv, NEW r \in Requests, Send(r)
    PROVE  IInv'
  <1> USE DEF IInv
  <1> USE Constants, Fields
  <1>1. /\ Pending(r) /\ queue[1] = r /\ 1 \in Places /\ Len(queue) \in Nat /\ queue # <<>>
        /\ ~Fetching
        /\ UNCHANGED <<now, published, changed, queue, req>>
        /\ verdict' = NoVerdict
        /\ fetch' = [stage |-> "sent", at |-> now, keys |-> {}]
        /\ calls' = [calls EXCEPT !.before = calls.last, !.last = now]
        /\ cache' \in Cache
        /\ cache'.keys = cache.keys
        /\ cache'.expiresAt = cache.expiresAt
        /\ cache'.staleUntil = cache.staleUntil
        /\ Soft(r) => ~Fresh /\ \A t \in Requests : ~Forcing(t)
        /\ Forcing(r) => /\ cache'.lastForced = now
                         /\ \A t \in Requests : ~Soft(t)
    BY Sends
  <1>2. Soft(r) \/ Forcing(r)
    BY <1>1, Modes
  <1>3. fetch' \in Fetch
    BY <1>1 DEF Fetch
  <1>4. /\ calls' \in [last : -Interval .. MaxTime, before : -Interval .. MaxTime,
                       failed : BOOLEAN]
        /\ calls'.last = now
    <2>1. now \in -Interval .. MaxTime
      BY DEF TypeOK
    <2> QED BY <1>1, <2>1 DEF TypeOK
  <1>5. TypeOK'
    BY <1>1, <1>3, <1>4 DEF TypeOK
  <1>6. /\ QueueShape'
        /\ \A t \in Requests : (Soft(t)' <=> Soft(t)) /\ (Forcing(t)' <=> Forcing(t))
        /\ Places' = Places
        /\ Fetching'
        /\ Fresh' <=> Fresh
    <2>1. Places' = Places
      BY <1>1 DEF Places
    <2>2. Fetching' /\ (Fresh' <=> Fresh)
      BY <1>1 DEF Fetching, Fresh
    <2>3. QueueShape'
      BY <1>1 DEF QueueShape, Pending, Places
    <2>4. req' = req /\ queue' = queue
      BY <1>1
    <2>5. \A t \in Requests : (Soft(t)' <=> Soft(t)) /\ (Forcing(t)' <=> Forcing(t))
      BY <2>4 DEF Soft, Forcing
    <2> QED BY <2>1, <2>2, <2>3, <2>5
  <1>7. ModeShape'
    <2>1. \A t \in Requests : Forcing(t)' => ~req'[t].cached /\ req'[t].began < cache'.expiresAt
      BY <1>1, <1>6 DEF ModeShape
    <2>2. \A i, j \in Places' :
              i < j /\ Forcing(queue[i])' /\ Soft(queue[j])' =>
                  req'[queue'[i]].began < req'[queue'[j]].began
      <3> SUFFICES ASSUME NEW i \in Places, NEW j \in Places, i < j,
                          Forcing(queue[i])', Soft(queue[j])'
                   PROVE  req'[queue'[i]].began < req'[queue'[j]].began
        BY <1>6 DEF Soft, Forcing
      <3>1. Forcing(queue[i]) /\ Soft(queue[j])
        BY <1>1 DEF Soft, Forcing
      <3>2. req[queue[i]].began < req[queue[j]].began
        BY <3>1 DEF ModeShape
      <3> QED BY <1>1, <3>2
    <2>3. \A i \in Places : queue[i] \in Requests
      BY DEF TypeOK, Places
    <2>4. \A i, j \in Places' : ~(Soft(queue[i])' /\ Forcing(queue[j])')
      <3> SUFFICES ASSUME NEW i \in Places, NEW j \in Places,
                          Soft(queue[i])', Forcing(queue[j])'
                   PROVE  FALSE
        BY <1>6 DEF Soft, Forcing
      <3>1. Soft(queue[i]) /\ Forcing(queue[j])
        BY <1>1 DEF Soft, Forcing
      <3> QED BY <1>1, <1>2, <2>3, <3>1
    <2>5. \A t \in Requests : Soft(t)' => ~Fresh'
      BY <1>1, <1>2, <1>6
    <2> QED BY <1>6, <2>1, <2>2, <2>4, <2>5 DEF ModeShape
  <1>8. FetchShape'
    <2>1. /\ queue'[1] = r /\ queue' # <<>> /\ fetch'.at = now' /\ now' = now
          /\ (Soft(queue[1])' <=> Soft(r)) /\ (Forcing(queue[1])' <=> Forcing(r))
      BY <1>1 DEF Soft, Forcing
    <2>2. Soft(r) => cache'.expiresAt <= now /\ \A t \in Requests : ~Forcing(t)'
      BY <1>1, <1>6 DEF Fresh
    <2>3. calls'.last = fetch'.at /\ (Forcing(r) => cache'.lastForced = fetch'.at)
      BY <1>1, <1>4
    <2> QED BY <2>1, <2>2, <2>3 DEF FetchShape
  <1>9. KeyShape'
    <2>1. ASSUME NEW t \in Requests, Soft(t)', req'[t].cached
          PROVE  req'[t].kid \in cache'.keys
      BY <1>1, <1>2, <1>6, <2>1 DEF KeyShape
    <2>2. fetch'.stage # "answered"
      BY <1>1
    <2> QED BY <1>1, <2>1, <2>2 DEF KeyShape
  <1> QED BY <1>5, <1>6, <1>7, <1>8, <1>9

\* The steps that leave the lookups as they are.
LEMMA StartHitStep ==
    ASSUME IInv, NEW r \in Requests, NEW k \in Kids, StartHit(r, k)
    PROVE  IInv'
  <1>1. /\ UNCHANGED <<now, published, changed, cache, queue, req, fetch, calls>>
        /\ verdict' = [outcome |-> IF k \in cache.keys THEN "accepted" ELSE "unknown",
                       kid |-> k, began |-> now]
    BY DEF StartHit, endpoint, Told
  <1>2. verdict' \in Verdict
    BY <1>1 DEF Verdict, IInv, TypeOK
  <1>3. TypeOK'
    BY <1>1, <1>2 DEF IInv, TypeOK
  <1>4. QueueShape' /\ ModeShape'
    BY <1>1 DEF IInv, QueueShape, ModeShape, Pending, Places, Soft, Forcing, Fetching,
                Fresh, Forced
  <1>5. FetchShape' /\ KeyShape'
    BY <1>1 DEF IInv, FetchShape, KeyShape, Soft, Forcing, Fetching, Fresh
  <1> QED BY <1>3, <1>4, <1>5 DEF IInv

LEMMA AnswerStep ==
    ASSUME IInv, Answer
    PROVE  IInv'
  <1> USE DEF IInv
  <1>1. /\ fetch.stage = "sent"
        /\ fetch' = [fetch EXCEPT !.stage = "answered", !.keys = published]
        /\ verdict' = NoVerdict
        /\ UNCHANGED <<now, published, changed, cache, queue, req, calls>>
    BY DEF Answer, endpoint, Quiet
  <1>2. /\ fetch' \in Fetch /\ fetch'.at = fetch.at /\ fetch'.keys = published
        /\ fetch'.stage = "answered" /\ Fetching /\ Fetching'
    BY <1>1 DEF Fetch, TypeOK, Fetching
  <1>3. TypeOK'
    BY <1>1, <1>2 DEF TypeOK
  <1>4. QueueShape' /\ ModeShape'
    BY <1>1, <1>2 DEF QueueShape, ModeShape, Pending, Places, Soft, Forcing, Fresh, Forced
  <1>5. FetchShape' /\ KeyShape'
    BY <1>1, <1>2 DEF FetchShape, KeyShape, Soft, Forcing, Fresh
  <1> QED BY <1>3, <1>4, <1>5

LEMMA RotateStep ==
    ASSUME IInv, NEW k \in Kids, Rotate(k)
    PROVE  IInv'
  <1> USE DEF IInv
  <1> USE Constants, Fields
  <1>1. /\ published' = IF k \in published THEN published \ {k} ELSE published \cup {k}
        /\ changed' = [changed EXCEPT ![k] = now]
        /\ verdict' = NoVerdict
        /\ UNCHANGED <<now, cache, queue, req, fetch, calls>>
    BY DEF Rotate, Quiet
  <1>2. /\ published' \subseteq Kids
        /\ changed' \in [Kids -> 0 .. MaxTime]
        /\ changed'[k] = now
        /\ \A l \in Kids : l # k =>
              changed'[l] = changed[l] /\ (l \in published' <=> l \in published)
    BY <1>1 DEF TypeOK
  <1>3. TypeOK'
    BY <1>1, <1>2 DEF TypeOK
  <1>4. QueueShape' /\ ModeShape' /\ FetchShape'
    BY <1>1 DEF QueueShape, ModeShape, FetchShape, Pending, Places, Soft, Forcing, Fetching,
                Fresh, Forced
  <1>5. KeyShape'
    <2>1. ASSUME NEW l \in cache'.keys \ published'
          PROVE  /\ cache'.expiresAt <= changed'[l] + MaxTtl
                 /\ cache'.staleUntil <= changed'[l] + MaxTtl + StaleTtl
      <3>1. l \in Kids
        BY <1>1
      <3>2. CASE l = k
        BY <1>1, <1>2, <3>2 DEF KeyShape
      <3>3. CASE l # k
        BY <1>1, <1>2, <3>1, <3>3 DEF KeyShape
      <3> QED BY <3>2, <3>3
    <2>2. ASSUME fetch'.stage = "answered", NEW l \in fetch'.keys \ published'
          PROVE  changed'[l] >= fetch'.at
      <3>1. l \in Kids
        BY <1>1
      <3>2. CASE l = k
        BY <1>1, <1>2, <2>2, <3>2 DEF FetchShape, Fetching
      <3>3. CASE l # k
        BY <1>1, <1>2, <2>2, <3>1, <3>3 DEF KeyShape
      <3> QED BY <3>2, <3>3
    <2>3. /\ \A r \in Requests : Soft(r)' /\ req'[r].cached =>
                req'[r].kid \in cache'.keys \/ (Fresh' /\ ~Fetching')
          /\ cache'.expiresAt <= now' + MaxTtl
          /\ cache'.staleUntil <= now' + MaxTtl + StaleTtl
      BY <1>1 DEF KeyShape, Soft, Fetching, Fresh
    <2> QED BY <2>1, <2>2, <2>3 DEF KeyShape
  <1> QED BY <1>3, <1>4, <1>5

LEMMA TickStep ==
    ASSUME IInv, Tick
    PROVE  IInv'
  <1> USE DEF IInv
  <1> USE Constants, Fields
  <1>1. /\ now < MaxTime
        /\ ~Fetching => queue = <<>>
        /\ Fetching => now < fetch.at + FetchTime
        /\ now' = now + 1
        /\ verdict' = NoVerdict
        /\ UNCHANGED <<published, changed, cache, queue, req, fetch, calls>>
    BY DEF Tick, endpoint, Quiet, Fetching
  <1>2. ~Fetching => \A r \in Requests : ~Pending(r)
    <2>1. queue = <<>> => Places = {}
      BY DEF Places
    <2> QED BY <1>1, <2>1 DEF QueueShape
  <1>3. TypeOK'
    BY <1>1 DEF TypeOK
  <1>4. QueueShape'
    <2>1. \A r \in Requests : Pending(r) => req[r].began \in Int
      BY Modes
    <2> QED BY <1>1, <2>1 DEF QueueShape, Pending, Places
  <1>5. /\ Fetching' <=> Fetching
        /\ \A r : (Soft(r)' <=> Soft(r)) /\ (Forcing(r)' <=> Forcing(r))
        /\ Fresh' => Fresh
        /\ Places' = Places
    BY <1>1 DEF Fetching, Soft, Forcing, Fresh, Places
  <1>6. ModeShape'
    <2>1. \A r \in Requests : Forcing(r)' => ~req'[r].cached /\ req'[r].began < cache'.expiresAt
      BY <1>1, <1>5 DEF ModeShape
    <2>2. \A i \in Places : queue[i] \in Requests
      BY DEF TypeOK, Places
    <2>3. \A i, j \in Places' :
              /\ i < j /\ Forcing(queue[i])' /\ Soft(queue[j])' =>
                     req'[queue'[i]].began < req'[queue'[j]].began
              /\ ~(i < j /\ Soft(queue[i])' /\ Forcing(queue[j])')
      <3>1. CASE Fetching
        BY <1>1, <1>5, <3>1 DEF ModeShape, Soft, Forcing
      <3>2. CASE ~Fetching
        BY <1>1, <1>5, <3>2 DEF Places
      <3> QED BY <3>1, <3>2
    <2>4. \A r \in Requests : Soft(r)' /\ Fetching' => ~Fresh'
      BY <1>5 DEF ModeShape
    <2>5. \A r \in Requests : Forcing(r)' => Fetching'
      BY <1>2, <1>5, Modes
    <2> QED BY <2>1, <2>3, <2>4, <2>5 DEF ModeShape
  <1>7. FetchShape'
    BY <1>1, <1>5 DEF FetchShape, Soft, Forcing
  <1>8. KeyShape'
    <2>1. ASSUME NEW r \in Requests, Soft(r)', req'[r].cached
          PROVE  req'[r].kid \in cache'.keys
      <3>1. Soft(r) /\ Pending(r) /\ Fetching
        BY <1>2, <1>5, <2>1, Modes
      <3> QED BY <1>1, <2>1, <3>1 DEF KeyShape
    <2>2. cache' = cache /\ now' = now + 1 /\ now \in Int
      BY <1>1
    <2>3. cache'.expiresAt <= now' + MaxTtl
      BY <2>2 DEF KeyShape
    <2>4. cache'.staleUntil <= now' + MaxTtl + StaleTtl
      BY <2>2 DEF KeyShape
    <2> QED BY <1>1, <2>1, <2>3, <2>4 DEF KeyShape
  <1> QED BY <1>3, <1>4, <1>6, <1>7, <1>8

LEMMA InitInv == Init => IInv
  <1> SUFFICES ASSUME Init PROVE IInv
    OBVIOUS
  <1> USE Constants DEF Init
  <1>1. 0 \in 0 .. MaxTime /\ -Interval \in -Interval .. MaxTime
    OBVIOUS
  <1>2. cache \in Cache
    BY <1>1 DEF Cache
  <1>3. /\ now \in 0 .. MaxTime /\ published \subseteq Kids
        /\ changed \in [Kids -> 0 .. MaxTime]
        /\ queue \in Seq(Requests) /\ req \in [Requests -> Lookup \cup {Idle}]
        /\ calls \in [last : -Interval .. MaxTime, before : -Interval .. MaxTime,
                      failed : BOOLEAN]
        /\ verdict \in Verdict \cup {NoVerdict}
    BY <1>1
  <1>4. fetch \in Fetch /\ ~Fetching
    BY NoneFetched DEF Fetching
  <1>5. TypeOK
    BY <1>2, <1>3, <1>4 DEF TypeOK
  <1>6. Places = {} /\ \A r \in Requests : ~Pending(r) /\ ~Soft(r) /\ ~Forcing(r)
    BY DEF Places, Pending, Soft, Forcing, Idle
  <1>7. QueueShape /\ ModeShape /\ FetchShape
    BY <1>4, <1>6 DEF QueueShape, ModeShape, FetchShape
  <1>8. cache.keys = {} /\ cache.expiresAt = 0 /\ cache.staleUntil = 0 /\ fetch.stage = "none"
    BY DEF NoFetch
  <1>9. KeyShape
    BY <1>1, <1>6, <1>8 DEF KeyShape
  <1> QED BY <1>5, <1>7, <1>9 DEF IInv

LEMMA StepInv == IInv /\ [Next]_vars => IInv'
  <1> SUFFICES ASSUME IInv, [Next]_vars PROVE IInv'
    OBVIOUS
  <1>1. ASSUME NEW r \in Requests, NEW k \in Kids, StartHit(r, k) PROVE IInv'
    BY <1>1, StartHitStep
  <1>2. ASSUME NEW r \in Requests, NEW k \in Kids, StartWait(r, k) PROVE IInv'
    BY <1>2, StartWaitStep
  <1>3. ASSUME NEW r \in Requests, Skip(r) PROVE IInv'
    BY <1>3, Skips, DepartureStep
  <1>4. ASSUME NEW r \in Requests, Refuse(r) PROVE IInv'
    BY <1>4, Refuses, DepartureStep
  <1>5. ASSUME NEW r \in Requests, Send(r) PROVE IInv'
    BY <1>5, SendStep
  <1>6. ASSUME NEW r \in Requests, Install(r) PROVE IInv'
    BY <1>6, Replaces, DepartureStep
  <1>7. ASSUME NEW r \in Requests, FetchFails(r) PROVE IInv'
    BY <1>7, FailsAway, DepartureStep
  <1>8. ASSUME NEW r \in Requests, FetchRaises(r) PROVE IInv'
    BY <1>8, RaisesAway, DepartureStep
  <1>9. ASSUME NEW k \in Rotating, Rotate(k) PROVE IInv'
    BY <1>9, RotateStep, ConstantsAssumption
  <1>10. CASE UNCHANGED vars
    <2>1. UNCHANGED <<now, published, changed, cache, queue, req, fetch, calls, verdict>>
      BY <1>10 DEF vars
    <2>2. TypeOK'
      BY <2>1 DEF IInv, TypeOK
    <2>3. QueueShape' /\ ModeShape'
      BY <2>1 DEF IInv, QueueShape, ModeShape, Pending, Places, Soft, Forcing, Fetching,
                  Fresh, Forced
    <2>4. FetchShape' /\ KeyShape'
      BY <2>1 DEF IInv, FetchShape, KeyShape, Soft, Forcing, Fetching, Fresh
    <2> QED BY <2>2, <2>3, <2>4 DEF IInv
  <1> QED BY <1>1, <1>2, <1>3, <1>4, <1>5, <1>6, <1>7, <1>8, <1>9, <1>10, AnswerStep,
             TickStep DEF Next

LEMMA Invariance == Spec => []IInv
  BY InitInv, StepInv, PTL DEF Spec

\* Every variable keeps its shape, whatever the answers of the endpoint: no expiry
\* is further away than the longest lifetime (the bounds of _cache_ttl), and no
\* refusal or negative entry outlasts an interval after the last lookup.
THEOREM Types == Spec => []TypeOK
  BY Invariance, PTL DEF IInv

--------------------------------------------------------------------------------
(* What a lookup is told.                                                       *)

\* Which steps answer, and from what.
LEMMA Accepts ==
    ASSUME IInv, [Next]_vars, verdict'.outcome = "accepted", ~UNCHANGED vars
    PROVE  /\ verdict'.kid \in cache'.keys
           /\ \/ verdict'.kid \in published'
              \/ verdict'.began < changed'[verdict'.kid] + MaxTtl + StaleTtl
  <1> USE Constants, Fields
  <1> USE DEF IInv
  <1> DEFINE Goal == /\ verdict'.kid \in cache'.keys
                     /\ \/ verdict'.kid \in published'
                        \/ verdict'.began < changed'[verdict'.kid] + MaxTtl + StaleTtl
  <1>1. ASSUME NEW k \in cache.keys, k \notin published
        PROVE  /\ k \in Kids
               /\ cache.expiresAt <= changed[k] + MaxTtl
               /\ cache.staleUntil <= changed[k] + MaxTtl + StaleTtl
    BY <1>1 DEF KeyShape
  <1>2. ASSUME NEW r \in Requests, StaleUsable(r), Departure(r), SameSet, Fresh => Fetching
        PROVE  Goal
    <2>1. Soft(r) /\ req[r].cached /\ req[r].began < cache.staleUntil /\ req[r].began \in Int
      BY <1>2, Modes DEF StaleUsable, Soft
    <2>2. req[r].kid \in cache.keys
      BY <1>2, <2>1 DEF KeyShape
    <2>3. /\ verdict'.kid = req[r].kid /\ verdict'.began = req[r].began
          /\ cache'.keys = cache.keys /\ published' = published /\ changed' = changed
      BY <1>2 DEF Departure, SameSet
    <2>4. req[r].kid \notin published =>
              req[r].began < changed[req[r].kid] + MaxTtl + StaleTtl
      BY <1>1, <2>1, <2>2
    <2> QED BY <2>2, <2>3, <2>4
  <1>3. ASSUME NEW r \in Requests, NEW k \in Kids, StartHit(r, k) PROVE Goal
    <2>1. /\ Fresh
          /\ UNCHANGED <<published, changed, cache>>
          /\ verdict' = [outcome |-> IF k \in cache.keys THEN "accepted" ELSE "unknown",
                         kid |-> k, began |-> now]
      BY <1>3 DEF StartHit, Answered, endpoint, Told
    <2>2. k \in cache.keys
      BY <2>1
    <2>3. k \notin published => now < changed[k] + MaxTtl + StaleTtl
      BY <1>1, <2>1, <2>2 DEF Fresh
    <2> QED BY <2>1, <2>2, <2>3
  <1>4. ASSUME NEW r \in Requests, Skip(r) PROVE Goal
    <2>1. /\ Departure(r) /\ SameSet /\ Pending(r)
          /\ Soft(r) => Fresh
          /\ req[r].kid \in cache.keys
      BY <1>4, Skips
    <2>2. req[r].began < cache.expiresAt /\ req[r].began \in Int
      BY <2>1, Modes DEF ModeShape, QueueShape, Fresh
    <2>3. /\ verdict'.kid = req[r].kid /\ verdict'.began = req[r].began
          /\ cache'.keys = cache.keys /\ published' = published /\ changed' = changed
      BY <2>1 DEF Departure, SameSet
    <2>4. req[r].kid \notin published =>
              req[r].began < changed[req[r].kid] + MaxTtl + StaleTtl
      BY <1>1, <2>1, <2>2
    <2> QED BY <2>1, <2>3, <2>4
  <1>5. ASSUME NEW r \in Requests, Refuse(r) PROVE Goal
    <2>1. Departure(r) /\ SameSet /\ StaleUsable(r) /\ (Soft(r) => ~Fresh)
      BY <1>5, Refuses
    <2>2. Soft(r)
      BY <2>1 DEF StaleUsable, Soft
    <2> QED BY <1>2, <2>1, <2>2
  <1>6. ASSUME NEW r \in Requests, Install(r) PROVE Goal
    <2>1. /\ Departure(r) /\ NewSet /\ Pending(r) /\ Fetching
          /\ req[r].kid \in fetch.keys
      BY <1>6, Replaces
    <2>2. /\ verdict'.kid = req[r].kid /\ verdict'.began = req[r].began
          /\ cache'.keys = fetch.keys /\ published' = published /\ changed' = changed
          /\ fetch.stage = "answered"
      BY <2>1 DEF Departure, NewSet
    <2>3. req[r].kid \in Kids /\ req[r].began \in Int /\ req[r].began <= now
          /\ now <= fetch.at + FetchTime
      BY <2>1, Modes DEF QueueShape, FetchShape
    <2>4. req[r].kid \notin published => changed[req[r].kid] >= fetch.at
      BY <2>1, <2>2 DEF KeyShape
    <2>5. req[r].kid \notin published =>
              req[r].began < changed[req[r].kid] + MaxTtl + StaleTtl
      BY <2>3, <2>4
    <2> QED BY <2>1, <2>2, <2>5
  <1>7. ASSUME NEW r \in Requests, FetchFails(r) PROVE Goal
    BY <1>2, <1>7, FailsAway
  <1>8. ASSUME NEW r \in Requests, FetchRaises(r) PROVE Goal
    BY <1>8, RaisesAway
  <1>9. NoVerdict.outcome # "accepted"
    BY DEF NoVerdict
  <1>10. ASSUME NEW r \in Requests, NEW k \in Kids, StartWait(r, k) PROVE Goal
    BY <1>9, <1>10 DEF StartWait, Quiet
  <1>11. ASSUME NEW r \in Requests, Send(r) PROVE Goal
    BY <1>9, <1>11 DEF Send, Quiet
  <1>12. ASSUME Answer \/ Tick \/ \E k \in Rotating : Rotate(k) PROVE Goal
    BY <1>9, <1>12 DEF Answer, Tick, Rotate, Quiet
  <1> QED BY <1>3, <1>4, <1>5, <1>6, <1>7, <1>8, <1>10, <1>11, <1>12 DEF Next

\* A key is accepted only if the set installed last holds it (_key_for reads
\* self._keys again after its refresh, and its stale fallback cannot meet a set
\* that somebody else installed meanwhile).
THEOREM CachedWhenAccepted == Spec => []AcceptedStillCached
  <1>1. Init => AcceptedStillCached
    BY DEF Init, AcceptedStillCached, NoVerdict
  <1>2. IInv /\ AcceptedStillCached /\ [Next]_vars => AcceptedStillCached'
    <2> SUFFICES ASSUME IInv, AcceptedStillCached, [Next]_vars PROVE AcceptedStillCached'
      OBVIOUS
    <2>1. CASE UNCHANGED vars
      BY <2>1 DEF vars, AcceptedStillCached
    <2>2. CASE ~UNCHANGED vars
      BY <2>2, Accepts DEF AcceptedStillCached
    <2> QED BY <2>1, <2>2
  <1> QED BY <1>1, <1>2, Invariance, PTL DEF Spec

\* A lookup that begins a lifetime and a stale window after a key was withdrawn
\* does not accept it, whatever fails and however lookups and fetches interleave.
THEOREM WithdrawalTakesEffect == Spec => []WithdrawnKeyRejected
  <1>1. Init => WithdrawnKeyRejected
    BY DEF Init, WithdrawnKeyRejected, NoVerdict
  <1>2. IInv /\ WithdrawnKeyRejected /\ [Next]_vars => WithdrawnKeyRejected'
    <2> SUFFICES ASSUME IInv, WithdrawnKeyRejected, [Next]_vars
                 PROVE  WithdrawnKeyRejected'
      OBVIOUS
    <2>1. CASE UNCHANGED vars
      BY <2>1 DEF vars, WithdrawnKeyRejected
    <2>2. CASE ~UNCHANGED vars
      BY <2>2, Accepts DEF WithdrawnKeyRejected
    <2> QED BY <2>1, <2>2
  <1> QED BY <1>1, <1>2, Invariance, PTL DEF Spec

--------------------------------------------------------------------------------
(* When every allowed key of the served sets can be read, so that no fetch ends *)
(* unnoticed: what waits, what is found and when the endpoint is called.        *)

\* Nobody waits for more than one fetch: a soft lookup that has waited finds a
\* set or a refusal, and who waits came after the fetch under way was sent.
WaitShape ==
    /\ ~Fetching => \A r \in Requests :
          Soft(r) /\ req[r].began < now => Fresh \/ now < cache.retryAt
    /\ Fetching => \A r \in Requests : Pending(r) => req[r].began >= fetch.at
    /\ OneFetchLong

\* A lookup whose key came while it waited is not refused: a fresh set has come,
\* no failure since, and it need not fetch.
ServedShape ==
    \A r \in Requests :
        Pending(r) /\ ~req[r].cached /\ req[r].kid \in cache.keys =>
            /\ ~Fetching
            /\ Fresh
            /\ now >= cache.retryAt
            /\ Forcing(r) => Forced

\* A published key that the set lacks was published after the last forced refresh
\* that succeeded, and neither a negative entry nor a lookup that lost its refresh
\* to another outlasts that by much.
NewShape ==
    /\ \A k \in Kids : cache.negative[k] <= now + Interval
    /\ cache.lastForced <= now
    /\ Fetching => cache.lastForced <= fetch.at
    /\ \A k \in published : k \notin cache.keys =>
          /\ cache.negative[k] <= changed[k] + 2 * Interval
          /\ \/ changed[k] >= cache.lastForced
             \/ cache.retryAt >= cache.lastForced + Interval
             \/ Fetching /\ Forcing(queue[1])
          /\ \A r \in Requests : Soft(r) /\ Fresh => req[r].began < changed[k] + Interval
    /\ fetch.stage = "answered" =>
          \A k \in published \ fetch.keys : changed[k] >= fetch.at

\* What the verifier remembers of its last two calls: an expiry or a refusal an
\* interval after the last, and after a failure a refusal, with no forced lookup
\* left that could ignore it.
CallShape ==
    /\ calls.before <= calls.last
    /\ calls.last <= now
    /\ calls.last >= calls.before + Interval \/ cache.lastForced >= calls.before
    /\ ~Fetching =>
          /\ \/ cache.expiresAt >= calls.last + Interval
             \/ cache.retryAt >= calls.last + Interval
          /\ calls.failed =>
                /\ cache.retryAt >= calls.last + Interval
                /\ \/ cache.lastForced = calls.last
                   \/ cache.expiresAt <= calls.last /\ \A r \in Requests : ~Forcing(r)

RInv == IInv /\ WaitShape /\ ServedShape /\ NewShape /\ CallShape

\* A departure, as far as the lookups that stay are concerned.
LEMMA Stays ==
    ASSUME IInv, NEW r \in Requests, Departure(r)
    PROVE  /\ ~Fetching'
           /\ now' = now /\ published' = published /\ changed' = changed
           /\ cache'.lastForced = cache.lastForced
           /\ calls'.last = calls.last /\ calls'.before = calls.before
           /\ cache'.expiresAt \in Int /\ cache'.retryAt \in Int
           /\ cache'.staleUntil \in Int
           /\ \A k \in Kids : cache'.negative[k] \in Int
           /\ queue[1] = r /\ Pending(r)
           /\ \A t \in Requests : Pending(t)' => Pending(t) /\ req'[t] = req[t]
           /\ \A t \in Requests : Soft(t)' => Soft(t) /\ Pending(t) /\ req'[t] = req[t]
           /\ \A t \in Requests : Forcing(t)' => Forcing(t) /\ Pending(t) /\ req'[t] = req[t]
  <1> USE DEF IInv
  <1>1. /\ Holds(r) /\ queue' = Tail(queue) /\ req' = [req EXCEPT ![r] = Idle]
        /\ now' = now /\ published' = published /\ changed' = changed
        /\ cache' \in Cache /\ cache'.lastForced = cache.lastForced
        /\ calls'.last = calls.last /\ calls'.before = calls.before
        /\ ~Fetching'
    BY DEF Departure, Fetching
  <1>2. /\ cache'.expiresAt \in Int /\ cache'.retryAt \in Int
        /\ cache'.staleUntil \in Int
        /\ \A k \in Kids : cache'.negative[k] \in Int
    BY <1>1, Constants DEF Cache
  <1>3. queue[1] = r /\ Pending(r)
    BY <1>1, Holder
  <1>4. req'[r] = Idle /\ \A t \in Requests : t # r => req'[t] = req[t]
    BY <1>1, Leaves
  <1>5. \A t \in Requests : Pending(t)' => Pending(t) /\ req'[t] = req[t]
    BY <1>4 DEF Pending
  <1>6. ASSUME NEW t \in Requests, Soft(t)' \/ Forcing(t)'
        PROVE  t # r
    BY <1>4, <1>6 DEF Soft, Forcing, Idle
  <1>7. \A t \in Requests : Soft(t)' => Soft(t) /\ Pending(t) /\ req'[t] = req[t]
    BY <1>4, <1>6, Modes DEF Soft
  <1>8. \A t \in Requests : Forcing(t)' => Forcing(t) /\ Pending(t) /\ req'[t] = req[t]
    BY <1>4, <1>6, Modes DEF Forcing
  <1> QED BY <1>1, <1>2, <1>3, <1>5, <1>7, <1>8

\* A fetch ends before an interval has passed since it was sent, and since the
\* last forced refresh if a forced lookup waits.
LEMMA FetchIsShort ==
    ASSUME IInv, Fetching
    PROVE  /\ fetch.at <= now /\ now < fetch.at + Interval /\ now <= fetch.at + FetchTime
           /\ calls.last = fetch.at
           /\ queue[1] \in Requests
           /\ \/ Forcing(queue[1]) /\ cache.lastForced = fetch.at
              \/ /\ Soft(queue[1]) /\ cache.expiresAt <= fetch.at
                 /\ \A t \in Requests : ~Forcing(t)
           /\ \A t \in Requests : Forcing(t) => Forced
  <1> USE DEF IInv
  <1>1. queue \in Seq(Requests) /\ queue # <<>>
    BY DEF TypeOK, FetchShape
  <1>2. 1 \in Places /\ queue[1] \in Requests
    BY <1>1 DEF Places
  <1>3. Soft(queue[1]) \/ Forcing(queue[1])
    BY <1>2, Modes DEF QueueShape
  <1> QED BY <1>2, <1>3, Fields, Constants DEF FetchShape, Forced

\* The steps that neither lookups nor time nor the verifier's fields notice.
Calm ==
    /\ UNCHANGED <<now, cache, queue, req, calls>>
    /\ Fetching' <=> Fetching
    /\ fetch'.at = fetch.at

LEMMA CalmSteps ==
    ASSUME IInv,
           \/ \E r \in Requests, k \in Kids : StartHit(r, k)
           \/ Answer
           \/ \E k \in Rotating : Rotate(k)
           \/ UNCHANGED vars
    PROVE  /\ Calm
           /\ Fresh' <=> Fresh
           /\ Forced' <=> Forced
           /\ \A t \in Requests : /\ Pending(t)' <=> Pending(t)
                                  /\ Soft(t)' <=> Soft(t)
                                  /\ Forcing(t)' <=> Forcing(t)
                                  /\ req'[t] = req[t]
  <1>1. CASE \E r \in Requests, k \in Kids : StartHit(r, k)
    BY <1>1 DEF StartHit, Calm, Fetching, Fresh, Forced, Pending, Soft, Forcing
  <1>2. CASE Answer
    <2>1. fetch \in Fetch
      BY DEF IInv, TypeOK
    <2>2. fetch'.at = fetch.at /\ Fetching' /\ Fetching
      BY <1>2, <2>1 DEF Answer, Fetch, Fetching
    <2> QED BY <1>2, <2>2 DEF Answer, Calm, Fresh, Forced, Pending, Soft, Forcing
  <1>3. CASE \E k \in Rotating : Rotate(k)
    BY <1>3 DEF Rotate, Calm, Fetching, Fresh, Forced, Pending, Soft, Forcing
  <1>4. CASE UNCHANGED vars
    BY <1>4 DEF vars, Calm, Fetching, Fresh, Forced, Pending, Soft, Forcing
  <1> QED BY <1>1, <1>2, <1>3, <1>4

\* A lookup that comes, as far as the others are concerned.
LEMMA Comes ==
    ASSUME IInv, NEW r \in Requests, NEW k \in Kids, StartWait(r, k)
    PROVE  /\ UNCHANGED <<now, published, changed, cache, fetch, calls>>
           /\ verdict' = NoVerdict
           /\ Fresh' <=> Fresh
           /\ Forced' <=> Forced
           /\ Fetching' <=> Fetching
           /\ \A t \in Requests : t # r => /\ req'[t] = req[t]
                                           /\ Pending(t)' <=> Pending(t)
                                           /\ Soft(t)' <=> Soft(t)
                                           /\ Forcing(t)' <=> Forcing(t)
           /\ req'[r].began = now
           /\ Soft(r)' => ~Fresh
           /\ Forcing(r)' => Fresh
           /\ ~req'[r].cached => req'[r].kid \notin cache.keys
           /\ Fetching => queue'[1] = queue[1] /\ (Forcing(queue[1])' <=> Forcing(queue[1]))
  <1>1. PICK x \in Lookup :
              /\ ~Pending(r)
              /\ x.kid = k /\ x.began = now
              /\ x.mode = "force" \/ x.mode = "soft"
              /\ x.mode = "force" => Fresh
              /\ x.mode = "soft" => ~Fresh
              /\ x.cached <=> k \in cache.keys
              /\ req' = [req EXCEPT ![r] = x]
              /\ queue' = Append(queue, r)
              /\ verdict' = NoVerdict
              /\ UNCHANGED <<now, published, changed, cache, fetch, calls>>
    BY Waits
  <1>2. /\ req'[r] = x
        /\ \A t \in Requests : t # r => req'[t] = req[t]
        /\ \A i \in Places : queue[i] \in Requests /\ queue[i] # r /\ queue'[i] = queue[i]
    BY <1>1, Joins DEF IInv
  <1>3. Fetching => 1 \in Places
    BY DEF IInv, TypeOK, FetchShape, Places
  <1>4. Fetching => queue'[1] = queue[1] /\ req'[queue'[1]] = req[queue[1]]
    BY <1>2, <1>3
  <1>5. \A t \in Requests : t # r => /\ Pending(t)' <=> Pending(t)
                                     /\ Soft(t)' <=> Soft(t)
                                     /\ Forcing(t)' <=> Forcing(t)
    BY <1>2 DEF Pending, Soft, Forcing
  <1>6. /\ Fresh' <=> Fresh
        /\ Forced' <=> Forced
        /\ Fetching' <=> Fetching
    BY <1>1 DEF Fresh, Forced, Fetching
  <1>7. (Soft(r)' => ~Fresh) /\ (Forcing(r)' => Fresh)
    BY <1>1, <1>2 DEF Soft, Forcing
  <1>8. ~req'[r].cached => req'[r].kid \notin cache.keys
    BY <1>1, <1>2
  <1>9. Fetching => (Forcing(queue[1])' <=> Forcing(queue[1]))
    BY <1>4 DEF Forcing
  <1> QED BY <1>1, <1>2, <1>4, <1>5, <1>6, <1>7, <1>8, <1>9

\* Time passes for lookups that wait for a fetch only.
LEMMA Ticks ==
    ASSUME IInv, Tick
    PROVE  /\ now' = now + 1
           /\ UNCHANGED <<published, changed, cache, queue, req, fetch, calls>>
           /\ verdict' = NoVerdict
           /\ Fetching' <=> Fetching
           /\ Fresh' => Fresh
           /\ ~Fetching => \A t \in Requests : ~Pending(t)
           /\ Fetching => now < fetch.at + FetchTime
           /\ \A t \in Requests : /\ Pending(t)' <=> Pending(t)
                                  /\ Soft(t)' <=> Soft(t)
                                  /\ Forcing(t)' <=> Forcing(t)
           /\ Forcing(queue[1])' <=> Forcing(queue[1])
  <1>1. /\ now' = now + 1
        /\ UNCHANGED <<published, changed, cache, queue, req, fetch, calls>>
        /\ verdict' = NoVerdict
        /\ ~Fetching => queue = <<>>
        /\ Fetching => now < fetch.at + FetchTime
    BY DEF Tick, endpoint, Quiet, Fetching
  <1>2. ~Fetching => Places = {}
    BY <1>1 DEF Places
  <1>3. ~Fetching => \A t \in Requests : ~Pending(t)
    BY <1>2 DEF IInv, QueueShape
  <1>4. Fresh' => Fresh
    BY <1>1, Fields DEF Fresh, IInv
  <1>5. req' = req /\ queue' = queue /\ fetch' = fetch
    BY <1>1
  <1> QED BY <1>1, <1>3, <1>4, <1>5 DEF Fetching, Pending, Soft, Forcing

\* Every lookup that waits when a call is sent came that instant.
LEMMA SentAtOnce ==
    ASSUME IInv, WaitShape, NEW r \in Requests, Send(r)
    PROVE  \A t \in Requests : Pending(t) => req[t].began = now
  <1> USE DEF IInv
  <1>1. /\ Pending(r) /\ queue[1] = r /\ 1 \in Places
        /\ ~Fetching
        /\ Soft(r) => ~Fresh /\ now >= cache.retryAt
        /\ Forcing(r) => \A t \in Requests : Pending(t) => req[t].began = now
    BY Sends
  <1>2. CASE Forcing(r)
    BY <1>1, <1>2
  <1>3. CASE Soft(r)
    <2>1. req[r].began = now
      BY <1>1, <1>3, Modes, Fields DEF WaitShape, QueueShape
    <2> SUFFICES ASSUME NEW t \in Requests, Pending(t)
                 PROVE  req[t].began = now
      OBVIOUS
    <2>2. PICK i \in Places : queue[i] = t
      BY DEF QueueShape
    <2>3. CASE i = 1
      BY <1>1, <2>1, <2>2, <2>3
    <2>4. CASE 1 < i
      <3>1. req[r].began <= req[t].began /\ req[t].began <= now /\ req[t].began \in Int
        BY <1>1, <2>2, <2>4, Modes DEF QueueShape
      <3> QED BY <2>1, <3>1, Fields
    <2> QED BY <2>3, <2>4 DEF Places
  <1> QED BY <1>1, <1>2, <1>3, Modes

LEMMA WaitStep ==
    ASSUME IInv, WaitShape, [Next]_vars, ~UnreadableKeyMayBeServed
    PROVE  WaitShape'
  <1> USE DEF IInv
  <1> USE Constants, Fields
  <1>1. ASSUME NEW r \in Requests, Departure(r), ~Fetching,
               cache'.expiresAt = cache.expiresAt, cache'.retryAt = cache.retryAt
        PROVE  WaitShape'
    <2>1. /\ ~Fetching' /\ now' = now
          /\ \A t \in Requests : Pending(t)' => Pending(t) /\ req'[t] = req[t]
          /\ \A t \in Requests : Soft(t)' => Soft(t) /\ req'[t] = req[t]
      BY <1>1, Stays
    <2>2. Fresh' <=> Fresh
      BY <1>1, <2>1 DEF Fresh
    <2> QED BY <1>1, <2>1, <2>2 DEF WaitShape, OneFetchLong
  <1>2. ASSUME NEW r \in Requests, Departure(r), Fresh' \/ now' < cache'.retryAt
        PROVE  WaitShape'
    <2>1. /\ ~Fetching' /\ now' = now
          /\ \A t \in Requests : Pending(t)' => Pending(t) /\ req'[t] = req[t]
      BY <1>2, Stays
    <2> QED BY <1>2, <2>1 DEF WaitShape, OneFetchLong
  <1>3. ASSUME NEW r \in Requests, Skip(r) PROVE WaitShape'
    BY <1>1, <1>3, Skips DEF SameSet
  <1>4. ASSUME NEW r \in Requests, Refuse(r) PROVE WaitShape'
    BY <1>1, <1>4, Refuses
  <1>5. ASSUME NEW r \in Requests, Install(r) PROVE WaitShape'
    <2>1. Departure(r) /\ NewSet /\ Fetching
      BY <1>5, Replaces
    <2>2. now < cache'.expiresAt /\ now' = now
      BY <2>1, FetchIsShort, Stays DEF NewSet
    <2> QED BY <1>2, <2>1, <2>2 DEF Fresh
  <1>6. ASSUME NEW r \in Requests, FetchFails(r) PROVE WaitShape'
    <2>1. Departure(r) /\ Fetching /\ cache'.retryAt = fetch.at + Interval
      BY <1>6, FailsAway
    <2>2. now < cache'.retryAt /\ now' = now
      BY <2>1, FetchIsShort, Stays
    <2> QED BY <1>2, <2>1, <2>2
  <1>7. ASSUME NEW r \in Requests, FetchRaises(r) PROVE WaitShape'
    BY <1>7, RaisesAway
  <1>8. ASSUME NEW r \in Requests, NEW k \in Kids, StartWait(r, k) PROVE WaitShape'
    <2>1. /\ now' = now /\ cache' = cache /\ fetch' = fetch
          /\ Fresh' <=> Fresh
          /\ Fetching' <=> Fetching
          /\ \A t \in Requests : t # r => /\ req'[t] = req[t]
                                          /\ Pending(t)' <=> Pending(t)
                                          /\ Soft(t)' <=> Soft(t)
          /\ req'[r].began = now
      BY <1>8, Comes
    <2>2. Fetching => fetch.at <= now
      BY FetchIsShort
    <2>3. ASSUME NEW t \in Requests
          PROVE  /\ ~Fetching' /\ Soft(t)' /\ req'[t].began < now' =>
                        Fresh' \/ now' < cache'.retryAt
                 /\ Fetching' /\ Pending(t)' => req'[t].began >= fetch'.at
                 /\ Pending(t)' => now' <= req'[t].began + FetchTime
      <3>1. CASE t = r
        BY <2>1, <2>2, <3>1
      <3>2. CASE t # r
        BY <2>1, <3>2 DEF WaitShape, OneFetchLong
      <3> QED BY <3>1, <3>2
    <2> QED BY <2>3 DEF WaitShape, OneFetchLong
  <1>9. ASSUME NEW r \in Requests, Send(r) PROVE WaitShape'
    <2>1. /\ now' = now /\ req' = req /\ fetch'.at = now /\ fetch'.stage = "sent"
      BY <1>9, Sends
    <2>2. \A t \in Requests : Pending(t)' => req'[t].began = now
      BY <1>9, <2>1, SentAtOnce DEF Pending
    <2> QED BY <2>1, <2>2 DEF WaitShape, OneFetchLong, Fetching
  <1>10. ASSUME Tick PROVE WaitShape'
    <2>1. /\ now' = now + 1 /\ req' = req /\ cache' = cache /\ fetch' = fetch
          /\ Fetching' <=> Fetching
          /\ ~Fetching => \A t \in Requests : ~Pending(t)
          /\ Fetching => now < fetch.at + FetchTime
          /\ \A t \in Requests : /\ Pending(t)' <=> Pending(t)
                                 /\ Soft(t)' <=> Soft(t)
      BY <1>10, Ticks
    <2>2. \A t \in Requests : Pending(t) =>
              Fetching /\ req[t].began >= fetch.at /\ req[t].began \in Int
      BY <2>1, Modes DEF WaitShape
    <2>3. \A t \in Requests : Pending(t)' => now' <= req'[t].began + FetchTime
      BY <2>1, <2>2
    <2>4. ~Fetching' => \A t \in Requests : ~Soft(t)'
      BY <2>1, Modes
    <2>5. \A t \in Requests : Pending(t)' => req'[t].began >= fetch'.at
      BY <2>1, <2>2
    <2> QED BY <2>3, <2>4, <2>5 DEF WaitShape, OneFetchLong
  <1>11. ASSUME \/ \E r \in Requests, k \in Kids : StartHit(r, k)
                \/ Answer
                \/ \E k \in Rotating : Rotate(k)
                \/ UNCHANGED vars
         PROVE  WaitShape'
    <2>1. /\ Calm
          /\ Fresh' <=> Fresh
          /\ \A t \in Requests : /\ Pending(t)' <=> Pending(t)
                                 /\ Soft(t)' <=> Soft(t)
                                 /\ req'[t] = req[t]
      BY <1>11, CalmSteps
    <2> QED BY <2>1 DEF WaitShape, OneFetchLong, Calm
  <1> QED BY <1>3, <1>4, <1>5, <1>6, <1>7, <1>8, <1>9, <1>10, <1>11 DEF Next

LEMMA ServedStep ==
    ASSUME IInv, ServedShape, [Next]_vars, ~UnreadableKeyMayBeServed
    PROVE  ServedShape'
  <1> USE DEF IInv
  <1> USE Constants, Fields
  <1>1. ASSUME NEW r \in Requests, Departure(r), SameSet, cache'.retryAt = cache.retryAt
        PROVE  ServedShape'
    <2>1. /\ ~Fetching' /\ now' = now /\ cache'.lastForced = cache.lastForced
          /\ \A t \in Requests : Pending(t)' => Pending(t) /\ req'[t] = req[t]
          /\ \A t \in Requests : Forcing(t)' => Forcing(t) /\ req'[t] = req[t]
      BY <1>1, Stays
    <2>2. (Fresh' <=> Fresh) /\ (Forced' <=> Forced) /\ cache'.keys = cache.keys
      BY <1>1, <2>1 DEF Fresh, Forced, SameSet
    <2> QED BY <1>1, <2>1, <2>2 DEF ServedShape
  <1>2. ASSUME NEW r \in Requests, Skip(r) PROVE ServedShape'
    BY <1>1, <1>2, Skips
  <1>3. ASSUME NEW r \in Requests, Refuse(r) PROVE ServedShape'
    BY <1>1, <1>3, Refuses
  <1>4. ASSUME NEW r \in Requests, Install(r) PROVE ServedShape'
    <2>1. Departure(r) /\ NewSet /\ Fetching /\ cache'.retryAt = 0
      BY <1>4, Replaces
    <2>2. /\ ~Fetching' /\ now' = now /\ cache'.lastForced = cache.lastForced
          /\ \A t \in Requests : Forcing(t)' => Forcing(t)
      BY <2>1, Stays
    <2>3. now < cache'.expiresAt
      BY <2>1, FetchIsShort DEF NewSet
    <2>4. \A t \in Requests : Forcing(t)' => Forced'
      BY <2>1, <2>2, FetchIsShort DEF Forced
    <2> QED BY <2>1, <2>2, <2>3, <2>4 DEF ServedShape, Fresh
  <1>5. ASSUME NEW r \in Requests, FetchFails(r) PROVE ServedShape'
    <2>1. Departure(r) /\ SameSet /\ Fetching
      BY <1>5, FailsAway
    <2>2. \A t \in Requests : Pending(t)' => Pending(t) /\ req'[t] = req[t]
      BY <2>1, Stays
    <2> QED BY <2>1, <2>2 DEF ServedShape, SameSet
  <1>6. ASSUME NEW r \in Requests, FetchRaises(r) PROVE ServedShape'
    BY <1>6, RaisesAway
  <1>7. ASSUME NEW r \in Requests, NEW k \in Kids, StartWait(r, k) PROVE ServedShape'
    <2>1. /\ now' = now /\ cache' = cache
          /\ Fresh' <=> Fresh
          /\ Forced' <=> Forced
          /\ Fetching' <=> Fetching
          /\ \A t \in Requests : t # r => /\ req'[t] = req[t]
                                          /\ Pending(t)' <=> Pending(t)
                                          /\ Forcing(t)' <=> Forcing(t)
          /\ ~req'[r].cached => req'[r].kid \notin cache.keys
      BY <1>7, Comes
    <2> SUFFICES ASSUME NEW t \in Requests, Pending(t)', ~req'[t].cached,
                        req'[t].kid \in cache'.keys
                 PROVE  /\ ~Fetching' /\ Fresh' /\ now' >= cache'.retryAt
                        /\ Forcing(t)' => Forced'
      BY DEF ServedShape
    <2>2. t # r
      BY <2>1
    <2> QED BY <2>1, <2>2 DEF ServedShape
  <1>8. ASSUME NEW r \in Requests, Send(r) PROVE ServedShape'
    <2>1. /\ req' = req /\ cache'.keys = cache.keys
          /\ Soft(r) => ~Fresh
          /\ Forcing(r) => ~Forced /\ \A t \in Requests : ~Soft(t)
          /\ Pending(r)
      BY <1>8, Sends
    <2> SUFFICES ASSUME NEW t \in Requests, Pending(t), ~req[t].cached,
                        req[t].kid \in cache.keys
                 PROVE  FALSE
      BY <2>1 DEF ServedShape, Pending
    <2>2. Fresh /\ (Forcing(t) => Forced)
      BY DEF ServedShape
    <2> QED BY <2>1, <2>2, Modes
  <1>9. ASSUME Tick PROVE ServedShape'
    <2>1. /\ req' = req /\ cache' = cache
          /\ Fetching' <=> Fetching
          /\ ~Fetching => \A t \in Requests : ~Pending(t)
          /\ \A t \in Requests : Pending(t)' <=> Pending(t)
      BY <1>9, Ticks
    <2> QED BY <2>1 DEF ServedShape
  <1>10. ASSUME \/ \E r \in Requests, k \in Kids : StartHit(r, k)
                \/ Answer
                \/ \E k \in Rotating : Rotate(k)
                \/ UNCHANGED vars
         PROVE  ServedShape'
    <2>1. /\ Calm
          /\ Fresh' <=> Fresh
          /\ Forced' <=> Forced
          /\ \A t \in Requests : /\ Pending(t)' <=> Pending(t)
                                 /\ Forcing(t)' <=> Forcing(t)
                                 /\ req'[t] = req[t]
      BY <1>10, CalmSteps
    <2> QED BY <2>1 DEF ServedShape, Calm
  <1> QED BY <1>2, <1>3, <1>4, <1>5, <1>6, <1>7, <1>8, <1>9, <1>10 DEF Next

\* A lookup told that its published key is unknown came less than an interval
\* after the publication.
LEMMA UnknownSoon ==
    ASSUME IInv, NewShape, NEW r \in Requests, Skip(r) \/ Install(r),
           verdict'.outcome = "unknown", req[r].kid \in published
    PROVE  req[r].began < changed[req[r].kid] + Interval
  <1> USE DEF IInv
  <1> USE Constants, Fields
  <1>1. CASE Skip(r)
    <2>1. /\ ~Fetching /\ Pending(r)
          /\ Soft(r) => Fresh
          /\ Forcing(r) => Forced /\ now >= cache.retryAt
          /\ req[r].kid \notin cache.keys
      BY <1>1, Skips
    <2>2. req[r].began \in Int /\ req[r].began <= now /\ req[r].kid \in Kids
      BY <2>1, Modes DEF QueueShape
    <2>3. CASE Soft(r)
      BY <2>1, <2>3 DEF NewShape
    <2>4. CASE Forcing(r)
      <3>1. changed[req[r].kid] >= cache.lastForced
        BY <2>1, <2>2, <2>4 DEF NewShape, Forced
      <3> QED BY <2>1, <2>2, <2>4, <3>1 DEF Forced
    <2> QED BY <2>1, <2>3, <2>4, Modes
  <1>2. CASE Install(r)
    <2>1. /\ Fetching /\ Pending(r) /\ NewSet
          /\ req[r].kid \notin fetch.keys
      BY <1>2, Replaces
    <2>2. req[r].began \in Int /\ req[r].began <= now /\ req[r].kid \in Kids
      BY <2>1, Modes DEF QueueShape
    <2>3. changed[req[r].kid] >= fetch.at
      BY <2>1 DEF NewShape, NewSet
    <2> QED BY <2>1, <2>2, <2>3, FetchIsShort
  <1> QED BY <1>1, <1>2

LEMMA NewStep ==
    ASSUME IInv, NewShape, [Next]_vars, ~UnreadableKeyMayBeServed
    PROVE  NewShape'
  <1> USE DEF IInv
  <1> USE Constants, Fields
  <1>1. ASSUME NEW r \in Requests, Skip(r) PROVE NewShape'
    <2>1. /\ Departure(r) /\ ~Fetching /\ Pending(r)
          /\ cache'.retryAt = cache.retryAt
          /\ cache'.keys = cache.keys /\ cache'.expiresAt = cache.expiresAt
          /\ \A k \in Kids : \/ cache'.negative[k] = cache.negative[k]
                             \/ /\ k = req[r].kid /\ k \notin cache.keys
                                /\ cache'.negative[k] = req[r].began + Interval
          /\ req[r].kid \in published /\ req[r].kid \notin cache.keys =>
                 verdict'.outcome = "unknown"
      BY <1>1, Skips DEF SameSet, Departure, Verdict
    <2>2. /\ ~Fetching' /\ now' = now /\ published' = published /\ changed' = changed
          /\ cache'.lastForced = cache.lastForced
          /\ \A t \in Requests : Soft(t)' => Soft(t) /\ req'[t] = req[t]
      BY <2>1, Stays
    <2>3. req[r].began \in Int /\ req[r].began <= now /\ req[r].kid \in Kids
      BY <2>1, Modes DEF QueueShape
    <2>4. ASSUME NEW k \in Kids
          PROVE  /\ cache'.negative[k] <= now + Interval
                 /\ k \in published /\ k \notin cache.keys =>
                        cache'.negative[k] <= changed[k] + 2 * Interval
      <3>1. CASE cache'.negative[k] = cache.negative[k]
        BY <3>1 DEF NewShape
      <3>2. CASE /\ k = req[r].kid /\ k \notin cache.keys
                 /\ cache'.negative[k] = req[r].began + Interval
        <4>1. k \in published => req[r].began < changed[k] + Interval
          BY <1>1, <2>1, <3>2, UnknownSoon
        <4> QED BY <2>3, <3>2, <4>1
      <3> QED BY <2>1, <3>1, <3>2
    <2>5. Fresh' <=> Fresh
      BY <2>1, <2>2 DEF Fresh
    <2>6. fetch'.stage # "answered"
      BY <2>2 DEF Fetching
    <2> QED BY <2>1, <2>2, <2>4, <2>5, <2>6 DEF NewShape
  <1>2. ASSUME NEW r \in Requests, Refuse(r) PROVE NewShape'
    <2>1. /\ Departure(r) /\ ~Fetching /\ cache' = cache
      BY <1>2, Refuses
    <2>2. /\ ~Fetching' /\ now' = now /\ published' = published /\ changed' = changed
          /\ \A t \in Requests : Soft(t)' => Soft(t) /\ req'[t] = req[t]
      BY <2>1, Stays
    <2>3. Fresh' <=> Fresh
      BY <2>1, <2>2 DEF Fresh
    <2>4. fetch'.stage # "answered"
      BY <2>2 DEF Fetching
    <2> QED BY <2>1, <2>2, <2>3, <2>4 DEF NewShape
  <1>3. ASSUME NEW r \in Requests, Install(r) PROVE NewShape'
    <2>1. /\ Departure(r) /\ NewSet /\ Fetching /\ Pending(r)
          /\ \A k \in Kids : \/ cache'.negative[k] \in {0, cache.negative[k]}
                             \/ /\ k = req[r].kid /\ k \notin fetch.keys
                                /\ cache'.negative[k] = req[r].began + Interval
          /\ cache'.keys = fetch.keys /\ fetch.stage = "answered"
      BY <1>3, Replaces DEF NewSet
    <2>2. /\ ~Fetching' /\ now' = now /\ published' = published /\ changed' = changed
          /\ cache'.lastForced = cache.lastForced
          /\ \A t \in Requests : Soft(t)' => Pending(t) /\ req'[t] = req[t]
      BY <2>1, Stays
    <2>3. req[r].began \in Int /\ req[r].began <= now /\ req[r].kid \in Kids
      BY <2>1, Modes DEF QueueShape
    <2>4. fetch.at <= now /\ now < fetch.at + Interval /\ cache.lastForced <= fetch.at
      BY <2>1, FetchIsShort DEF NewShape
    <2>5. \A k \in published : k \notin fetch.keys => changed[k] >= fetch.at
      BY <2>1 DEF NewShape
    <2>6. ASSUME NEW k \in Kids
          PROVE  cache'.negative[k] <= now + Interval
      BY <2>1, <2>3 DEF NewShape
    <2>7. ASSUME NEW k \in published, k \notin cache'.keys
          PROVE  /\ cache'.negative[k] <= changed[k] + 2 * Interval
                 /\ changed[k] >= cache.lastForced
                 /\ \A t \in Requests : Soft(t)' => req'[t].began < changed[k] + Interval
      <3>1. k \in Kids /\ changed[k] >= fetch.at
        BY <2>1, <2>5, <2>7
      <3>2. \A t \in Requests : Soft(t)' => req'[t].began \in Int /\ req'[t].began <= now
        BY <2>2, Modes DEF QueueShape
      <3>3. cache'.negative[k] \in Int
        BY <2>1, <3>1, Stays
      <3>4. cache'.negative[k] <= changed[k] + 2 * Interval
        BY <2>4, <2>6, <3>1, <3>3
      <3>5. changed[k] >= cache.lastForced
        BY <2>4, <3>1
      <3>6. \A t \in Requests : Soft(t)' => req'[t].began < changed[k] + Interval
        BY <2>4, <3>1, <3>2
      <3> QED BY <3>4, <3>5, <3>6
    <2>8. fetch'.stage # "answered"
      BY <2>2 DEF Fetching
    <2>9. cache.lastForced <= now
      BY <2>4
    <2> QED BY <2>2, <2>6, <2>7, <2>8, <2>9 DEF NewShape
  <1>4. ASSUME NEW r \in Requests, FetchFails(r) PROVE NewShape'
    <2>1. /\ Departure(r) /\ Fetching
          /\ cache'.keys = cache.keys /\ cache'.expiresAt = cache.expiresAt
          /\ cache'.negative = cache.negative
          /\ cache'.retryAt = fetch.at + Interval
      BY <1>4, FailsAway DEF SameSet
    <2>2. /\ ~Fetching' /\ now' = now /\ published' = published /\ changed' = changed
          /\ cache'.lastForced = cache.lastForced
          /\ \A t \in Requests : Soft(t)' => Soft(t) /\ req'[t] = req[t]
      BY <2>1, Stays
    <2>3. cache'.retryAt >= cache'.lastForced + Interval /\ cache.lastForced <= now
      BY <2>1, <2>2 DEF NewShape
    <2>4. Fresh' <=> Fresh
      BY <2>1, <2>2 DEF Fresh
    <2>5. fetch'.stage # "answered"
      BY <2>2 DEF Fetching
    <2> QED BY <2>1, <2>2, <2>3, <2>4, <2>5 DEF NewShape
  <1>5. ASSUME NEW r \in Requests, FetchRaises(r) PROVE NewShape'
    BY <1>5, RaisesAway
  <1>6. ASSUME NEW r \in Requests, NEW k \in Kids, StartWait(r, k) PROVE NewShape'
    <2>1. /\ now' = now /\ cache' = cache /\ fetch' = fetch
          /\ published' = published /\ changed' = changed
          /\ Fresh' <=> Fresh
          /\ Fetching' <=> Fetching
          /\ \A t \in Requests : t # r => req'[t] = req[t] /\ (Soft(t)' <=> Soft(t))
          /\ Soft(r)' => ~Fresh
          /\ Fetching => (Forcing(queue[1])' <=> Forcing(queue[1]))
      BY <1>6, Comes
    <2>2. ASSUME NEW k_1 \in published, k_1 \notin cache.keys, NEW t \in Requests,
                 Soft(t)', Fresh'
          PROVE  req'[t].began < changed[k_1] + Interval
      BY <2>1, <2>2 DEF NewShape
    <2> QED BY <2>1, <2>2 DEF NewShape
  <1>7. ASSUME NEW r \in Requests, Send(r) PROVE NewShape'
    <2>1. /\ queue[1] = r /\ Pending(r) /\ ~Fetching
          /\ now' = now /\ published' = published /\ changed' = changed
          /\ queue' = queue /\ req' = req
          /\ fetch' = [stage |-> "sent", at |-> now, keys |-> {}]
          /\ cache'.keys = cache.keys
          /\ cache'.expiresAt = cache.expiresAt
          /\ cache'.retryAt = cache.retryAt
          /\ cache'.negative = cache.negative
          /\ Soft(r) => cache' = cache
          /\ Forcing(r) => cache'.lastForced = now
      BY <1>7, Sends
    <2>2. /\ Fetching' /\ fetch'.at = now /\ fetch'.stage # "answered"
          /\ (Fresh' <=> Fresh)
          /\ \A t : Soft(t)' <=> Soft(t)
          /\ Forcing(queue[1])' <=> Forcing(r)
      BY <2>1 DEF Fetching, Fresh, Soft, Forcing
    <2>3. cache'.lastForced <= now
      BY <2>1, Modes DEF NewShape
    <2>4. ASSUME NEW k \in published, k \notin cache.keys
          PROVE  \/ changed[k] >= cache'.lastForced
                 \/ cache'.retryAt >= cache'.lastForced + Interval
                 \/ Fetching' /\ Forcing(queue[1])'
      BY <2>1, <2>2, <2>4, Modes DEF NewShape
    <2> QED BY <2>1, <2>2, <2>3, <2>4 DEF NewShape
  <1>8. ASSUME Answer PROVE NewShape'
    <2>1. /\ now' = now /\ cache' = cache /\ queue' = queue /\ req' = req
          /\ Fetching' <=> Fetching
          /\ fetch'.at = fetch.at
          /\ Fresh' <=> Fresh
          /\ \A t \in Requests : Soft(t)' <=> Soft(t)
      BY <1>8, CalmSteps DEF Calm
    <2>2. published' = published /\ changed' = changed /\ fetch'.keys = published
      BY <1>8 DEF Answer, endpoint, TypeOK, Fetch
    <2>3. Forcing(queue[1])' <=> Forcing(queue[1])
      BY <2>1 DEF Forcing
    <2> QED BY <2>1, <2>2, <2>3 DEF NewShape
  <1>9. ASSUME NEW k \in Rotating, Rotate(k) PROVE NewShape'
    <2>1. /\ now' = now /\ cache' = cache /\ queue' = queue /\ req' = req
          /\ Fetching' <=> Fetching
          /\ fetch'.at = fetch.at
          /\ Fresh' <=> Fresh
          /\ \A t \in Requests : Soft(t)' <=> Soft(t)
      BY <1>9, CalmSteps DEF Calm
    <2>2. /\ fetch' = fetch /\ k \in Kids
          /\ changed'[k] = now
          /\ \A l \in Kids : l # k =>
                 changed'[l] = changed[l] /\ (l \in published' <=> l \in published)
          /\ published' \subseteq Kids
      BY <1>9, ConstantsAssumption DEF Rotate, TypeOK
    <2>3. Forcing(queue[1])' <=> Forcing(queue[1])
      BY <2>1 DEF Forcing
    <2>4. ASSUME NEW l \in published', l \notin cache.keys
          PROVE  /\ cache.negative[l] <= changed'[l] + 2 * Interval
                 /\ \/ changed'[l] >= cache.lastForced
                    \/ cache.retryAt >= cache.lastForced + Interval
                    \/ Fetching /\ Forcing(queue[1])
                 /\ \A t \in Requests : Soft(t) /\ Fresh =>
                        req[t].began < changed'[l] + Interval
      <3>1. l \in Kids
        BY <2>2
      <3>2. CASE l = k
        <4>1. \A t \in Requests : Soft(t) => req[t].began \in Int /\ req[t].began <= now
          BY Modes DEF QueueShape
        <4>2. cache.negative[l] <= changed'[l] + 2 * Interval
          BY <2>2, <3>2 DEF NewShape
        <4>3. changed'[l] >= cache.lastForced
          BY <2>2, <3>2 DEF NewShape
        <4>4. \A t \in Requests : Soft(t) => req[t].began < changed'[l] + Interval
          BY <2>2, <3>2, <4>1
        <4> QED BY <4>2, <4>3, <4>4
      <3>3. CASE l # k
        BY <2>2, <2>4, <3>1, <3>3 DEF NewShape
      <3> QED BY <3>2, <3>3
    <2>5. ASSUME fetch.stage = "answered", NEW l \in published' \ fetch.keys
          PROVE  changed'[l] >= fetch.at
      <3>1. CASE l = k
        BY <2>2, <2>5, <3>1, FetchIsShort DEF Fetching
      <3>2. CASE l # k
        BY <2>2, <2>5, <3>2 DEF NewShape
      <3> QED BY <3>1, <3>2
    <2> QED BY <2>1, <2>2, <2>3, <2>4, <2>5 DEF NewShape
  <1>10. ASSUME Tick PROVE NewShape'
    <2>1. /\ now' = now + 1
          /\ UNCHANGED <<published, changed, cache, queue, req, fetch>>
          /\ Fetching' <=> Fetching
          /\ Fresh' => Fresh
          /\ \A t \in Requests : Soft(t)' <=> Soft(t)
          /\ Forcing(queue[1])' <=> Forcing(queue[1])
      BY <1>10, Ticks
    <2> QED BY <2>1 DEF NewShape
  <1>11. ASSUME \/ \E r \in Requests, k \in Kids : StartHit(r, k)
                \/ UNCHANGED vars
         PROVE  NewShape'
    <2>1. /\ now' = now /\ cache' = cache /\ queue' = queue /\ req' = req
          /\ Fetching' <=> Fetching
          /\ fetch'.at = fetch.at
          /\ Fresh' <=> Fresh
          /\ \A t \in Requests : Soft(t)' <=> Soft(t)
      BY <1>11, CalmSteps DEF Calm
    <2>2. published' = published /\ changed' = changed /\ fetch' = fetch
      BY <1>11 DEF StartHit, endpoint, vars
    <2>3. Forcing(queue[1])' <=> Forcing(queue[1])
      BY <2>1 DEF Forcing
    <2> QED BY <2>1, <2>2, <2>3 DEF NewShape
  <1> QED BY <1>1, <1>2, <1>3, <1>4, <1>5, <1>6, <1>7, <1>8, <1>9, <1>10, <1>11 DEF Next

\* When a call may be sent: a refusal outlasts a failed call by an interval, and
\* what allows the call is an interval younger than the call before the last.
LEMMA SentInTime ==
    ASSUME IInv, CallShape, NEW r \in Requests, Send(r)
    PROVE  /\ calls.failed => now >= calls.last + Interval
           /\ now >= calls.before + Interval
           /\ Soft(r) => now >= calls.last + Interval
  <1> USE DEF IInv
  <1> USE Constants, Fields
  <1>1. /\ Pending(r) /\ ~Fetching
        /\ Soft(r) => ~Fresh /\ now >= cache.retryAt
        /\ Forcing(r) => ~Forced
    BY Sends
  <1>2. CASE Soft(r)
    BY <1>1, <1>2 DEF CallShape, Fresh
  <1>3. CASE Forcing(r)
    <2>1. now >= cache.lastForced + Interval
      BY <1>1, <1>3 DEF Forced
    <2>2. calls.failed => now >= calls.last + Interval
      BY <1>1, <1>3, <2>1 DEF CallShape
    <2>3. now >= calls.before + Interval
      BY <2>1 DEF CallShape
    <2> QED BY <1>1, <1>3, <2>2, <2>3, Modes
  <1> QED BY <1>1, <1>2, <1>3, Modes

LEMMA CallStep ==
    ASSUME IInv, CallShape, [Next]_vars, ~UnreadableKeyMayBeServed
    PROVE  CallShape'
  <1> USE DEF IInv
  <1> USE Constants, Fields
  <1>1. ASSUME NEW r \in Requests, Departure(r), ~Fetching, calls' = calls,
               cache'.expiresAt = cache.expiresAt, cache'.retryAt = cache.retryAt
        PROVE  CallShape'
    <2>1. /\ now' = now /\ cache'.lastForced = cache.lastForced
          /\ \A t \in Requests : Forcing(t)' => Forcing(t)
      BY <1>1, Stays
    <2> QED BY <1>1, <2>1 DEF CallShape
  <1>2. ASSUME NEW r \in Requests, Skip(r) PROVE CallShape'
    BY <1>1, <1>2, Skips DEF SameSet
  <1>3. ASSUME NEW r \in Requests, Refuse(r) PROVE CallShape'
    BY <1>1, <1>3, Refuses
  <1>4. ASSUME NEW r \in Requests, Install(r) PROVE CallShape'
    <2>1. Departure(r) /\ NewSet /\ Fetching /\ calls'.failed = FALSE
      BY <1>4, Replaces
    <2>2. /\ now' = now /\ cache'.lastForced = cache.lastForced
          /\ calls'.last = calls.last /\ calls'.before = calls.before
      BY <2>1, Stays
    <2>3. cache'.expiresAt >= calls.last + Interval
      BY <2>1, FetchIsShort DEF NewSet
    <2> QED BY <2>1, <2>2, <2>3 DEF CallShape
  <1>5. ASSUME NEW r \in Requests, FetchFails(r) PROVE CallShape'
    <2>1. /\ Departure(r) /\ Fetching
          /\ cache'.retryAt = fetch.at + Interval
          /\ cache'.expiresAt = cache.expiresAt
      BY <1>5, FailsAway DEF SameSet
    <2>2. /\ now' = now /\ cache'.lastForced = cache.lastForced
          /\ calls'.last = calls.last /\ calls'.before = calls.before
          /\ \A t \in Requests : Forcing(t)' => Forcing(t)
      BY <2>1, Stays
    <2>3. /\ calls.last = fetch.at
          /\ \/ cache.lastForced = fetch.at
             \/ cache.expiresAt <= fetch.at /\ \A t \in Requests : ~Forcing(t)
      BY <2>1, FetchIsShort
    <2> QED BY <2>1, <2>2, <2>3 DEF CallShape
  <1>6. ASSUME NEW r \in Requests, FetchRaises(r) PROVE CallShape'
    BY <1>6, RaisesAway
  <1>7. ASSUME NEW r \in Requests, NEW k \in Kids, StartWait(r, k) PROVE CallShape'
    <2>1. /\ now' = now /\ cache' = cache /\ calls' = calls
          /\ Fetching' <=> Fetching
          /\ \A t \in Requests : t # r => (Forcing(t)' <=> Forcing(t))
          /\ Forcing(r)' => Fresh
      BY <1>7, Comes
    <2>2. cache.expiresAt <= calls.last => ~Fresh
      BY DEF CallShape, Fresh
    <2> QED BY <2>1, <2>2 DEF CallShape
  <1>8. ASSUME NEW r \in Requests, Send(r) PROVE CallShape'
    <2>1. /\ Pending(r) /\ now' = now
          /\ fetch' = [stage |-> "sent", at |-> now, keys |-> {}]
          /\ calls' = [calls EXCEPT !.before = calls.last, !.last = now]
          /\ Forcing(r) => cache'.lastForced = now
      BY <1>8, Sends
    <2>2. Fetching' /\ calls'.last = now /\ calls'.before = calls.last
      BY <2>1 DEF Fetching, TypeOK
    <2>3. Soft(r) => now >= calls.last + Interval
      BY <1>8, SentInTime
    <2> QED BY <2>1, <2>2, <2>3, Modes DEF CallShape
  <1>9. ASSUME Tick PROVE CallShape'
    <2>1. /\ now' = now + 1 /\ cache' = cache /\ calls' = calls
          /\ Fetching' <=> Fetching
          /\ \A t \in Requests : Forcing(t)' <=> Forcing(t)
      BY <1>9, Ticks
    <2> QED BY <2>1 DEF CallShape
  <1>10. ASSUME \/ \E r \in Requests, k \in Kids : StartHit(r, k)
                \/ Answer
                \/ \E k \in Rotating : Rotate(k)
                \/ UNCHANGED vars
         PROVE  CallShape'
    <2>1. /\ Calm
          /\ \A t \in Requests : Forcing(t)' <=> Forcing(t)
      BY <1>10, CalmSteps
    <2> QED BY <2>1 DEF CallShape, Calm
  <1> QED BY <1>2, <1>3, <1>4, <1>5, <1>6, <1>7, <1>8, <1>9, <1>10 DEF Next

LEMMA InitRInv == Init => RInv
  <1> SUFFICES ASSUME Init PROVE RInv
    OBVIOUS
  <1> USE Constants DEF Init
  <1>1. IInv
    BY InitInv
  <1>2. \A r \in Requests : ~Pending(r) /\ ~Soft(r) /\ ~Forcing(r)
    BY DEF Pending, Soft, Forcing, Idle
  <1>3. ~Fetching /\ fetch.stage # "answered"
    BY NoneFetched DEF Fetching
  <1>4. WaitShape /\ ServedShape
    BY <1>2, <1>3 DEF WaitShape, ServedShape, OneFetchLong
  <1>5. /\ cache.expiresAt = 0 /\ cache.lastForced = -Interval
        /\ \A k \in Kids : cache.negative[k] = 0 /\ changed[k] = 0
        /\ now = 0 /\ calls.last = -Interval /\ calls.before = -Interval
        /\ calls.failed = FALSE
        /\ \A k \in published : k \in Kids
    OBVIOUS
  <1>6. NewShape
    BY <1>2, <1>3, <1>5 DEF NewShape
  <1>7. CallShape
    BY <1>5 DEF CallShape
  <1> QED BY <1>1, <1>4, <1>6, <1>7 DEF RInv

LEMMA ReadableInvariance == ~UnreadableKeyMayBeServed => (Spec => []RInv)
  <1> SUFFICES ASSUME ~UnreadableKeyMayBeServed PROVE Spec => []RInv
    OBVIOUS
  <1>1. RInv /\ [Next]_vars => RInv'
    BY StepInv, WaitStep, ServedStep, NewStep, CallStep DEF RInv
  <1> QED BY <1>1, InitRInv, PTL DEF Spec

\* No lookup takes longer than one fetch, however many wait behind the lock: the
\* checks that _refresh repeats under it spare the others their own.
THEOREM OneFetchIsEnough == ~UnreadableKeyMayBeServed => (Spec => []OneFetchLong)
  <1> SUFFICES ASSUME ~UnreadableKeyMayBeServed PROVE Spec => []OneFetchLong
    OBVIOUS
  <1>1. RInv => OneFetchLong
    BY DEF RInv, WaitShape
  <1> QED BY <1>1, ReadableInvariance, PTL

\* From two intervals after its publication a key is not answered as unknown, for
\* all negative entries, skipped refreshes and late answers.
THEOREM PublicationTakesEffect == ~UnreadableKeyMayBeServed => (Spec => []NewKeyFound)
  <1> SUFFICES ASSUME ~UnreadableKeyMayBeServed PROVE Spec => []NewKeyFound
    OBVIOUS
  <1> USE Constants
  <1>1. Init => NewKeyFound
    BY DEF Init, NewKeyFound, NoVerdict
  <1>2. RInv /\ NewKeyFound /\ [Next]_vars => NewKeyFound'
    <2> SUFFICES ASSUME RInv, NewKeyFound, [Next]_vars, verdict'.outcome = "unknown"
                 PROVE  \/ verdict'.kid \notin published'
                        \/ verdict'.began < changed'[verdict'.kid] + 2 * Interval
      BY DEF NewKeyFound
    <2>0. IInv /\ NewShape
      BY DEF RInv
    <2>1. ASSUME NEW r \in Requests, Skip(r) \/ Install(r), Departure(r), Pending(r)
          PROVE  \/ verdict'.kid \notin published'
                 \/ verdict'.began < changed'[verdict'.kid] + 2 * Interval
      <3>1. /\ verdict'.kid = req[r].kid /\ verdict'.began = req[r].began
            /\ published' = published /\ changed' = changed
        BY <2>1 DEF Departure
      <3>2. req[r].kid \in Kids /\ req[r].began \in Int /\ changed[req[r].kid] \in Int
        BY <2>0, <2>1, Modes, Fields DEF IInv
      <3>3. req[r].kid \in published => req[r].began < changed[req[r].kid] + Interval
        BY <2>0, <2>1, UnknownSoon
      <3> QED BY <3>1, <3>2, <3>3
    <2>2. ASSUME NEW r \in Requests, NEW k \in Kids, StartHit(r, k)
          PROVE  \/ verdict'.kid \notin published'
                 \/ verdict'.began < changed'[verdict'.kid] + 2 * Interval
      <3>1. /\ Answered(k) /\ published' = published /\ changed' = changed
            /\ verdict' = [outcome |-> IF k \in cache.keys THEN "accepted" ELSE "unknown",
                           kid |-> k, began |-> now]
        BY <2>2 DEF StartHit, endpoint, Told
      <3>2. k \notin cache.keys /\ cache.negative[k] > now
        BY <3>1 DEF Answered
      <3>3. k \in published => cache.negative[k] <= changed[k] + 2 * Interval
        BY <2>0, <3>2 DEF NewShape
      <3>4. now \in Int /\ cache.negative[k] \in Int /\ changed[k] \in Int
        BY <2>0, Fields DEF IInv
      <3>5. k \in published => now < changed[k] + 2 * Interval
        BY <3>2, <3>3, <3>4
      <3> QED BY <3>1, <3>5
    <2>3. ASSUME NEW r \in Requests, Skip(r) \/ Install(r)
          PROVE  Departure(r) /\ Pending(r)
      BY <2>0, <2>3, Skips, Replaces
    <2>4. ASSUME NEW r \in Requests, Refuse(r) \/ FetchFails(r) \/ FetchRaises(r)
          PROVE  FALSE
      BY <2>0, <2>4, Refuses, FailsAway, RaisesAway
    <2>5. NoVerdict.outcome # "unknown"
      BY DEF NoVerdict
    <2>6. ASSUME NEW r \in Requests, Send(r) \/ \E k \in Kids : StartWait(r, k)
          PROVE  FALSE
      BY <2>5, <2>6 DEF Send, StartWait, Quiet
    <2>7. ASSUME Answer \/ Tick \/ \E k \in Rotating : Rotate(k)
          PROVE  FALSE
      BY <2>5, <2>7 DEF Answer, Tick, Rotate, Quiet
    <2>8. CASE UNCHANGED vars
      BY <2>8 DEF vars, NewKeyFound
    <2> QED BY <2>1, <2>2, <2>3, <2>4, <2>6, <2>7, <2>8 DEF Next
  <1> QED BY <1>1, <1>2, ReadableInvariance, PTL DEF Spec

\* A failure to get the key set shuts out nobody whose key is cached, before the
\* stale window ends.
THEOREM OutageBridged == ~UnreadableKeyMayBeServed => (Spec => []KnownKeyServed)
  <1> SUFFICES ASSUME ~UnreadableKeyMayBeServed PROVE Spec => []KnownKeyServed
    OBVIOUS
  <1> USE Constants
  <1>1. Init => KnownKeyServed
    BY DEF Init, KnownKeyServed, NoVerdict
  <1>2. RInv /\ KnownKeyServed /\ [Next]_vars => KnownKeyServed'
    <2> SUFFICES ASSUME RInv, KnownKeyServed, [Next]_vars,
                        verdict'.outcome \in {"unavailable", "invalid"}
                 PROVE  \/ verdict'.kid \notin cache'.keys
                        \/ verdict'.began >= cache'.staleUntil
      BY DEF KnownKeyServed
    <2>0. IInv /\ ServedShape
      BY DEF RInv
    <2>1. ASSUME NEW r \in Requests, Departure(r), Pending(r), SameSet, ~StaleUsable(r),
                 Fetching \/ now < cache.retryAt
          PROVE  \/ verdict'.kid \notin cache'.keys
                 \/ verdict'.began >= cache'.staleUntil
      <3>1. /\ verdict'.kid = req[r].kid /\ verdict'.began = req[r].began
            /\ cache'.keys = cache.keys /\ cache'.staleUntil = cache.staleUntil
        BY <2>1 DEF Departure, SameSet
      <3>2. ~req[r].cached => req[r].kid \notin cache.keys
        BY <2>0, <2>1, Fields DEF ServedShape, IInv
      <3>3. Forcing(r) => ~req[r].cached
        BY <2>0 DEF ModeShape, IInv
      <3>4. Soft(r) /\ req[r].cached => req[r].began >= cache.staleUntil
        BY <2>0, <2>1, Fields, Modes DEF StaleUsable, Soft, IInv
      <3> QED BY <2>0, <2>1, <3>1, <3>2, <3>3, <3>4, Modes DEF IInv
    <2>2. ASSUME NEW r \in Requests, NEW k \in Kids, StartHit(r, k)
          PROVE  FALSE
      BY <2>2 DEF StartHit, Told
    <2>3. ASSUME NEW r \in Requests, Skip(r) \/ Install(r) \/ FetchRaises(r)
          PROVE  FALSE
      BY <2>0, <2>3, Skips, Replaces, RaisesAway
    <2>4. ASSUME NEW r \in Requests, Refuse(r) \/ FetchFails(r)
          PROVE  /\ Departure(r) /\ Pending(r) /\ SameSet /\ ~StaleUsable(r)
                 /\ Fetching \/ now < cache.retryAt
      BY <2>0, <2>4, Refuses, FailsAway
    <2>5. NoVerdict.outcome \notin {"unavailable", "invalid"}
      BY DEF NoVerdict
    <2>6. ASSUME NEW r \in Requests, Send(r) \/ \E k \in Kids : StartWait(r, k)
          PROVE  FALSE
      BY <2>5, <2>6 DEF Send, StartWait, Quiet
    <2>7. ASSUME Answer \/ Tick \/ \E k \in Rotating : Rotate(k)
          PROVE  FALSE
      BY <2>5, <2>7 DEF Answer, Tick, Rotate, Quiet
    <2>8. CASE UNCHANGED vars
      BY <2>8 DEF vars, KnownKeyServed
    <2> QED BY <2>1, <2>2, <2>3, <2>4, <2>6, <2>7, <2>8 DEF Next
  <1> QED BY <1>1, <1>2, ReadableInvariance, PTL DEF Spec

\* The endpoint is not called again until an interval after a failed call began,
\* and never three times in an interval.
THEOREM CallsAreSpaced == ~UnreadableKeyMayBeServed => (Spec => CallsSpaced)
  <1> SUFFICES ASSUME ~UnreadableKeyMayBeServed PROVE Spec => CallsSpaced
    OBVIOUS
  <1>1. RInv /\ [Next]_vars =>
            [fetch.stage = "none" /\ fetch'.stage = "sent" =>
                /\ calls.failed => now >= calls.last + Interval
                /\ now >= calls.before + Interval]_vars
    <2> SUFFICES ASSUME RInv, [Next]_vars, fetch.stage = "none", fetch'.stage = "sent"
                 PROVE  /\ calls.failed => now >= calls.last + Interval
                        /\ now >= calls.before + Interval
      OBVIOUS
    <2>0. IInv /\ CallShape
      BY DEF RInv
    <2>1. ASSUME NEW r \in Requests, Send(r)
          PROVE  /\ calls.failed => now >= calls.last + Interval
                 /\ now >= calls.before + Interval
      BY <2>0, <2>1, SentInTime
    <2>2. ASSUME NEW r \in Requests,
                 \/ \E k \in Kids : StartHit(r, k) \/ StartWait(r, k)
                 \/ Skip(r) \/ Refuse(r)
          PROVE  FALSE
      BY <2>2 DEF StartHit, StartWait, Skip, Refuse
    <2>3. ASSUME NEW r \in Requests, Install(r) \/ FetchFails(r) \/ FetchRaises(r)
          PROVE  FALSE
      BY <2>3 DEF Install, FetchFails, FetchRaises
    <2>4. ~Answer
      BY DEF Answer
    <2>5. ASSUME Tick \/ (\E k \in Rotating : Rotate(k)) \/ UNCHANGED vars
          PROVE  FALSE
      BY <2>5 DEF Tick, Rotate, vars
    <2> QED BY <2>1, <2>2, <2>3, <2>4, <2>5 DEF Next
  <1>2. Spec => [][Next]_vars
    BY DEF Spec
  <1> QED BY <1>1, <1>2, ReadableInvariance, PTL DEF CallsSpaced

================================================================================
