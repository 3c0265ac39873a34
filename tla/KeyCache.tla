------------------------------- MODULE KeyCache -------------------------------
(* The signing keys of SupabaseJwtVerifier: a cache of the published key set    *)
(* with an expiry, a stale window for outages, a negative entry for each unknown *)
(* key id, and a refresh behind one lock. Lookups are tasks of one event loop:   *)
(* what a task does between two awaits is one action, and it awaits the lock and *)
(* the fetch only. The waiters of the lock are served in their order.            *)
EXTENDS Integers, Sequences

CONSTANTS
    Kids,           \* key ids a token may name
    Rotating,       \* those whose keys are published and withdrawn meanwhile; the
                    \* others stay as they are at the start
    Requests,       \* lookups that can be under way at once
    Interval,       \* forced_refresh_interval_seconds (30 in the code)
    DefaultTtl,     \* cache_ttl_seconds (300)
    MinTtl, MaxTtl, \* the bounds of a max-age (30 and 3600)
    MaxAges,        \* the max-age values the endpoint may send
    StaleTtl,       \* stale_ttl_seconds (300)
    FetchTime,      \* the longest a fetch takes, by the client's timeouts
    MaxTime,        \* bound of the model: the clock stops here
    UnreadableKeyMayBeServed
                    \* may a published set hold an allowed key that cannot be read?

ASSUME ConstantsAssumption ==
    /\ {Interval, MinTtl, MaxTtl, DefaultTtl, StaleTtl, FetchTime, MaxTime} \subseteq Nat
    /\ MaxAges \subseteq Nat
    /\ Rotating \subseteq Kids
    /\ FetchTime < Interval
    /\ Interval <= MinTtl
    /\ MinTtl <= DefaultTtl
    /\ DefaultTtl <= MaxTtl
    /\ UnreadableKeyMayBeServed \in BOOLEAN

VARIABLES
    now,        \* the monotonic clock
    published,  \* the allowed keys of the set the endpoint serves
    changed,    \* when each key was last published or withdrawn
    cache,      \* the verifier's fields
    queue,      \* the holder of the lock and those who wait for it
    req,        \* what each lookup is doing
    fetch,      \* the fetch of the lock's holder
    calls,      \* the starts of the last two fetches, and how the last one ended
    verdict     \* what the step just taken told a lookup, if it told one

vars == <<now, published, changed, cache, queue, req, fetch, calls, verdict>>
endpoint == <<published, changed>>

--------------------------------------------------------------------------------
Cache == [keys       : SUBSET Kids,
          expiresAt  : 0 .. MaxTime + MaxTtl,
          staleUntil : 0 .. MaxTime + MaxTtl + StaleTtl,
          retryAt    : 0 .. MaxTime + Interval,
          lastForced : -Interval .. MaxTime,
          negative   : [Kids -> 0 .. MaxTime + Interval]]   \* 0 for no entry

\* A lookup that waits: its key id, the time it read first, whether it found its
\* key then, and whether it waits because the set expired or because its id is
\* not in it.
Lookup == [mode   : {"soft", "force"},
           kid    : Kids,
           began  : 0 .. MaxTime,
           cached : BOOLEAN]
Idle == [mode |-> "idle"]
Pending(r) == req[r] # Idle

Verdict == [outcome : {"accepted", "unknown", "unavailable", "invalid"}, kid : Kids,
            began : 0 .. MaxTime]
NoVerdict == [outcome |-> "none"]
Quiet == verdict' = NoVerdict
Told(k, began, outcome) == verdict' = [outcome |-> outcome, kid |-> k, began |-> began]

Fetch == [stage : {"none", "sent", "answered"}, at : 0 .. MaxTime, keys : SUBSET Kids]
NoFetch == [stage |-> "none", at |-> 0, keys |-> {}]

\* The time before which no forced refresh can have been made stands for -inf.
Init ==
    /\ now = 0
    /\ published \in SUBSET Kids
    /\ changed = [k \in Kids |-> 0]
    /\ cache = [keys |-> {}, expiresAt |-> 0, staleUntil |-> 0, retryAt |-> 0,
                lastForced |-> -Interval, negative |-> [k \in Kids |-> 0]]
    /\ queue = <<>>
    /\ req = [r \in Requests |-> Idle]
    /\ fetch = NoFetch
    /\ calls = [last |-> -Interval, before |-> -Interval, failed |-> FALSE]
    /\ verdict = NoVerdict

Holds(r) == queue # <<>> /\ Head(queue) = r
Finish(r, outcome) ==
    /\ Told(req[r].kid, req[r].began, outcome)
    /\ req' = [req EXCEPT ![r] = Idle]

--------------------------------------------------------------------------------
(* _key_for, up to the lock.                                                    *)

\* The set is fresh and answers without a refresh: the key, or that its id is
\* known to be unknown.
Fresh == now < cache.expiresAt
Answered(k) == Fresh /\ (k \in cache.keys \/ cache.negative[k] > now)

StartHit(r, k) ==
    /\ ~Pending(r)
    /\ Answered(k)
    /\ Told(k, now, IF k \in cache.keys THEN "accepted" ELSE "unknown")
    /\ UNCHANGED <<now, endpoint, cache, queue, req, fetch, calls>>

StartWait(r, k) ==
    /\ ~Pending(r)
    /\ ~Answered(k)
    /\ req' = [req EXCEPT ![r] = [mode |-> IF Fresh THEN "force" ELSE "soft",
                                  kid |-> k, began |-> now,
                                  cached |-> k \in cache.keys]]
    /\ queue' = Append(queue, r)
    /\ Quiet
    /\ UNCHANGED <<now, endpoint, cache, fetch, calls>>

--------------------------------------------------------------------------------
(* _refresh, and _key_for after it.                                             *)

\* Mutant of Found: the key read before the refresh is used after it.
FoundBefore(r, keys) == req[r].cached \/ req[r].kid \in keys

Found(r, keys) == req[r].kid \in keys

\* A lookup goes on with the key set its refresh left; an id that is not in it
\* gets a negative entry, unless the first check already found one.
Conclude(r, newCache) ==
    LET k == req[r].kid
        known == req[r].mode = "soft" /\ newCache.negative[k] > req[r].began
    IN
    /\ Finish(r, IF Found(r, newCache.keys) THEN "accepted" ELSE "unknown")
    /\ cache' = IF Found(r, newCache.keys) \/ known THEN newCache
                ELSE [newCache EXCEPT !.negative[k] = req[r].began + Interval]
    /\ queue' = Tail(queue)

\* Mutant of StaleUsable: a known key is used however old it is.
StaleForever(r) == req[r].mode = "soft" /\ req[r].cached

\* Mutant of StaleUsable: an outage is answered with an error at once.
StaleNever(r) == FALSE

\* A refresh that was needed because the set had expired falls back on the key
\* the lookup found first, within the stale window at the time it began.
StaleUsable(r) ==
    req[r].mode = "soft" /\ req[r].cached /\ req[r].began < cache.staleUntil

GiveUp(r) ==
    /\ Finish(r, IF StaleUsable(r) THEN "accepted" ELSE "unavailable")
    /\ queue' = Tail(queue)

\* Mutant of Forced: no interval between forced refreshes.
ForcedAnytime == FALSE

\* A forced refresh was made less than the interval ago.
Forced == now < cache.lastForced + Interval

\* Mutant of Skip: a forced refresh that is skipped counts as one.
SkipStamped(r) ==
    /\ Holds(r) /\ fetch.stage = "none"
    /\ \/ req[r].mode = "soft" /\ Fresh
       \/ req[r].mode = "force" /\ Forced /\ now >= cache.retryAt
    /\ Conclude(r, [cache EXCEPT !.lastForced = IF req[r].mode = "force" THEN now ELSE @])
    /\ UNCHANGED <<now, endpoint, fetch, calls>>

\* Nothing to fetch: somebody else's refresh will do.
Skip(r) ==
    /\ Holds(r) /\ fetch.stage = "none"
    /\ \/ req[r].mode = "soft" /\ Fresh
       \/ req[r].mode = "force" /\ Forced /\ now >= cache.retryAt
    /\ Conclude(r, cache)
    /\ UNCHANGED <<now, endpoint, fetch, calls>>

\* A fetch failed less than the interval ago.
Refuse(r) ==
    /\ Holds(r) /\ fetch.stage = "none"
    /\ \/ req[r].mode = "soft" /\ ~Fresh
       \/ req[r].mode = "force" /\ Forced
    /\ now < cache.retryAt
    /\ GiveUp(r)
    /\ UNCHANGED <<now, endpoint, cache, fetch, calls>>

Send(r) ==
    /\ Holds(r) /\ fetch.stage = "none"
    /\ \/ req[r].mode = "soft" /\ ~Fresh /\ now >= cache.retryAt /\ UNCHANGED cache
       \/ req[r].mode = "force" /\ ~Forced /\ cache' = [cache EXCEPT !.lastForced = now]
    /\ fetch' = [stage |-> "sent", at |-> now, keys |-> {}]
    /\ calls' = [calls EXCEPT !.before = calls.last, !.last = now]
    /\ Quiet
    /\ UNCHANGED <<now, endpoint, queue, req>>

\* The endpoint answers with the set it serves at that instant.
Answer ==
    /\ fetch.stage = "sent"
    /\ fetch' = [fetch EXCEPT !.stage = "answered", !.keys = published]
    /\ Quiet
    /\ UNCHANGED <<now, endpoint, cache, queue, req, calls>>

\* Mutant of Ttl: the header's word is taken.
TtlUncapped(age) == age

\* _cache_ttl: a max-age is kept within bounds.
Ttl(age) == IF age < MinTtl THEN MinTtl ELSE IF age > MaxTtl THEN MaxTtl ELSE age

Purged == [k \in Kids |-> IF cache.negative[k] > fetch.at THEN cache.negative[k] ELSE 0]

Install(r) ==
    /\ Holds(r)
    /\ fetch.stage = "answered"
    /\ fetch.keys # {}
    /\ \E ttl \in {DefaultTtl} \cup {Ttl(age) : age \in MaxAges} :
          Conclude(r, [cache EXCEPT !.keys = fetch.keys,
                                    !.expiresAt = fetch.at + ttl,
                                    !.staleUntil = fetch.at + ttl + StaleTtl,
                                    !.retryAt = 0,
                                    !.negative = Purged])
    /\ fetch' = NoFetch
    /\ calls' = [calls EXCEPT !.failed = FALSE]
    /\ UNCHANGED <<now, endpoint>>

\* Mutant of FailedAt: a failure is not remembered.
FailedForgotten == cache

FailedAt == [cache EXCEPT !.retryAt = fetch.at + Interval]

\* No answer, an error status, or a document without an allowed key.
FetchFails(r) ==
    /\ Holds(r)
    /\ fetch.stage # "none"
    /\ cache' = FailedAt
    /\ GiveUp(r)
    /\ fetch' = NoFetch
    /\ calls' = [calls EXCEPT !.failed = TRUE]
    /\ UNCHANGED <<now, endpoint>>

\* PyJWK.from_dict raises a PyJWTError on a key it cannot read. The except clause
\* of _refresh does not name it, so nothing notes the failure, _key_for does not
\* fall back, and verify answers that the token is invalid.
FetchRaises(r) ==
    /\ UnreadableKeyMayBeServed
    /\ Holds(r)
    /\ fetch.stage = "answered"
    /\ Finish(r, "invalid")
    /\ queue' = Tail(queue)
    /\ fetch' = NoFetch
    /\ calls' = [calls EXCEPT !.failed = TRUE]
    /\ UNCHANGED <<now, endpoint, cache>>

--------------------------------------------------------------------------------
\* The issuer publishes or withdraws a key; bound of the model: each key changes
\* at most once in an instant of its clock.
Rotate(k) ==
    /\ changed[k] < now
    /\ published' = IF k \in published THEN published \ {k} ELSE published \cup {k}
    /\ changed' = [changed EXCEPT ![k] = now]
    /\ Quiet
    /\ UNCHANGED <<now, cache, queue, req, fetch, calls>>

\* Time passes while every task waits: the event loop runs a task whose turn has
\* come in no time, and a fetch ends, one way or the other, within FetchTime.
Tick ==
    /\ now < MaxTime
    /\ fetch.stage = "none" => queue = <<>>
    /\ fetch.stage # "none" => now < fetch.at + FetchTime
    /\ now' = now + 1
    /\ Quiet
    /\ UNCHANGED <<endpoint, cache, queue, req, fetch, calls>>

Next ==
    \/ \E r \in Requests :
          \/ \E k \in Kids : StartHit(r, k) \/ StartWait(r, k)
          \/ Skip(r) \/ Refuse(r) \/ Send(r) \/ Install(r)
          \/ FetchFails(r) \/ FetchRaises(r)
    \/ Answer
    \/ \E k \in Rotating : Rotate(k)
    \/ Tick

Spec == Init /\ [][Next]_vars

--------------------------------------------------------------------------------
(* Properties.                                                                  *)

\* Every variable keeps its shape; in particular no expiry is further away than
\* the largest lifetime allowed.
TypeOK ==
    /\ now \in 0 .. MaxTime
    /\ published \subseteq Kids
    /\ changed \in [Kids -> 0 .. MaxTime]
    /\ cache \in Cache
    /\ queue \in Seq(Requests)
    /\ req \in [Requests -> Lookup \cup {Idle}]
    /\ fetch \in Fetch
    /\ calls \in [last : -Interval .. MaxTime, before : -Interval .. MaxTime,
                  failed : BOOLEAN]
    /\ verdict \in Verdict \cup {NoVerdict}

\* A key is accepted only if the set installed last holds it: a lookup that read
\* its key, waited for the lock and lost its refresh does not come back with a
\* key that somebody else's refresh has dropped meanwhile.
AcceptedStillCached == verdict.outcome = "accepted" => verdict.kid \in cache.keys

\* Key rotation takes effect: a lookup that begins a lifetime and a stale window
\* after a key was withdrawn does not accept it, in no outage and in no race.
WithdrawnKeyRejected ==
    verdict.outcome = "accepted" =>
        \/ verdict.kid \in published
        \/ verdict.began < changed[verdict.kid] + MaxTtl + StaleTtl

\* A published key is not called unknown for long: from two intervals after its
\* publication, no negative entry, skipped refresh or answer of an earlier fetch
\* makes a lookup reject it.
NewKeyFound ==
    verdict.outcome = "unknown" =>
        \/ verdict.kid \notin published
        \/ verdict.began < changed[verdict.kid] + 2 * Interval

\* A failure to get the key set does not shut out a reviewer whose key is cached,
\* before the stale window ends (tests/test_auth.py:234, "jwks failure uses known
\* key only within stale window").
KnownKeyServed ==
    verdict.outcome \in {"unavailable", "invalid"} =>
        \/ verdict.kid \notin cache.keys
        \/ verdict.began >= cache.staleUntil

\* The endpoint is not called again until an interval after a failed call began,
\* by whatever lookups queue behind it, and never three times in one interval.
CallsSpaced ==
    [][fetch.stage = "none" /\ fetch'.stage = "sent" =>
          /\ calls.failed => now >= calls.last + Interval
          /\ now >= calls.before + Interval]_vars

\* Waiters do not repeat a slow call one after the other: no lookup takes longer
\* than one fetch, however many wait before it.
OneFetchLong == \A r \in Requests : Pending(r) => now <= req[r].began + FetchTime

================================================================================
