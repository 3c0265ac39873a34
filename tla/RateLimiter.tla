------------------------------ MODULE RateLimiter ------------------------------
(* The limiter of public submissions: InMemoryRateLimiter. One process holds a  *)
(* table from client key to the instants of the submissions it let pass during  *)
(* the last window. A call of consume runs under the limiter's lock from its    *)
(* reading of the clock to its end, so it is one action.                        *)
(*                                                                              *)
(* The clock is a float; the model counts in ticks, several to a second, so     *)
(* that the rounding of Retry-After to whole seconds is the code's.             *)
EXTENDS Integers, Sequences, FiniteSets

CONSTANTS
    Keys,               \* client keys: addresses
    Limit,              \* submissions a key may make in a window
    Window,             \* length of the window, in seconds
    MaxKeys,            \* keys the table may hold
    TicksPerSecond,     \* resolution of the model's clock
    MaxTime             \* bound of the model: the clock stops here

ASSUME LimiterAssumption ==
    /\ Limit \in Nat \ {0}
    /\ Window \in Nat \ {0}
    /\ MaxKeys \in Nat \ {0}
    /\ TicksPerSecond \in Nat \ {0}
    /\ MaxTime \in Nat

VARIABLES
    now,        \* time.monotonic(), in ticks
    entries,    \* _entries; a key that is not in the table has no instants
    admitted,   \* history: every instant each key was let through
    told        \* the last answer each key was given

limiter == <<entries, admitted, told>>

--------------------------------------------------------------------------------
WindowTicks == Window * TicksPerSecond

\* "refused" is a key at its limit, with the instant Retry-After leads to; "full" a
\* newcomer the table has no room for, told to wait for a whole window; "free" a key
\* that was let through or has never come.
Answers == [kind : {"free", "full"}] \cup [kind : {"refused"}, retryAt : Nat]

LimiterInit ==
    /\ now = 0
    /\ entries = [k \in Keys |-> <<>>]
    /\ admitted = [k \in Keys |-> <<>>]
    /\ told = [k \in Keys |-> [kind |-> "free"]]

Cutoff == now - WindowTicks

Newest(s) == s[Len(s)]

\* Mutant of Inactive: a key is kept for ever once it is in the table.
NeverInactive(k) == entries[k] = <<>>

Inactive(k) == entries[k] = <<>> \/ Newest(entries[k]) <= Cutoff

\* The table once inactive keys are deleted, and who is left in it.
Remaining == [k \in Keys |-> IF Inactive(k) THEN <<>> ELSE entries[k]]
Known == {k \in Keys : ~Inactive(k)}

\* Mutant of Expired: an instant leaves the window one tick early.
ExpiredEarly(t) == t <= Cutoff + 1

Expired(t) == t <= Cutoff

\* The first n instants of a queue, and no more, have left the window.
LeadingExpired(s, n) ==
    /\ \A i \in 1 .. n : Expired(s[i])
    /\ n < Len(s) => ~Expired(s[n + 1])

Larger(a, b) == IF a >= b THEN a ELSE b

\* Mutant of RetryAfter: the fraction of a second is cut off and not made good.
RetryAfterTruncated(oldest) ==
    Larger(1, (oldest + WindowTicks - now) \div TicksPerSecond)

\* Seconds until the oldest instant has left the window, rounded up.
RetryAfter(oldest) ==
    Larger(1, (oldest + WindowTicks - now) \div TicksPerSecond + 1)

--------------------------------------------------------------------------------
Tell(k, answer) == told' = [told EXCEPT ![k] = answer]

RefusedFor(seconds) ==
    [kind |-> "refused", retryAt |-> now + seconds * TicksPerSecond]

\* Mutant of TableFull: the table takes one key more than it should.
TableFullLate(k) == k \notin Known /\ Cardinality(Known) > MaxKeys

TableFull(k) == k \notin Known /\ Cardinality(Known) >= MaxKeys

TurnAway(k) ==
    /\ TableFull(k)
    /\ entries' = Remaining
    /\ Tell(k, [kind |-> "full"])
    /\ UNCHANGED admitted

\* How many instants are dropped from the front of the key's queue, and what is
\* left of it then.
Dropped(k) == {n \in 0 .. Len(Remaining[k]) : LeadingExpired(Remaining[k], n)}
Kept(k, n) == SubSeq(Remaining[k], n + 1, Len(Remaining[k]))

Refuse(k) ==
    /\ ~TableFull(k)
    /\ \E n \in Dropped(k) :
        /\ Len(Kept(k, n)) >= Limit
        /\ entries' = [Remaining EXCEPT ![k] = Kept(k, n)]
        /\ Tell(k, RefusedFor(RetryAfter(Kept(k, n)[1])))
    /\ UNCHANGED admitted

Admit(k) ==
    /\ ~TableFull(k)
    /\ \E n \in Dropped(k) :
        /\ Len(Kept(k, n)) < Limit
        /\ entries' = [Remaining EXCEPT ![k] = Append(Kept(k, n), now)]
    /\ Tell(k, [kind |-> "free"])
    /\ admitted' = [admitted EXCEPT ![k] = Append(@, now)]

Consume(k) == TurnAway(k) \/ Refuse(k) \/ Admit(k)

Advance ==
    /\ now < MaxTime
    /\ now' = now + 1

Tick == Advance /\ UNCHANGED limiter

LimiterNext == Tick \/ \E k \in Keys : Consume(k) /\ UNCHANGED now

LimiterSpec == LimiterInit /\ [][LimiterNext]_<<now, limiter>>

--------------------------------------------------------------------------------
(* Properties.                                                                  *)

\* Values have their types, and the table holds no more keys than it may.
LimiterTypeOK ==
    /\ now \in Nat
    /\ entries \in [Keys -> Seq(Nat)]
    /\ admitted \in [Keys -> Seq(Nat)]
    /\ told \in [Keys -> Answers]
    /\ Cardinality({k \in Keys : entries[k] # <<>>}) <= MaxKeys

\* No window of the configured length, wherever it begins, holds more than Limit
\* submissions of one key, whatever keys came, were forgotten and came back
\* meanwhile: consume (infrastructure.py:317-339) keeps only what it still needs.
WindowRespected ==
    \A k \in Keys : \A i, j \in 1 .. Len(admitted[k]) :
        j = i + Limit => admitted[k][j] >= admitted[k][i] + WindowTicks

\* A key that was over its limit and stays away as long as Retry-After said is
\* not told again that it is over its limit (infrastructure.py:337), however the
\* seconds were rounded. (The table may still be full.)
RetryAfterSuffices ==
    [][\A k \in Keys :
        /\ told[k].kind = "refused"
        /\ now >= told[k].retryAt
        => told'[k] = told[k] \/ told'[k].kind # "refused"]_<<now, limiter>>

\* Keys let through within the last window.
Busy == {k \in Keys : admitted[k] # <<>> /\ Newest(admitted[k]) > Cutoff}

\* A key is turned away for want of room only while MaxKeys others were let
\* through within the last window, and never if it was itself: the purge of
\* infrastructure.py:321-327 forgets the right keys, and all of them.
FullOnlyWhenBusy ==
    [][\A k \in Keys :
        told'[k] # told[k] /\ told'[k].kind = "full" =>
            Cardinality(Busy) >= MaxKeys /\ k \notin Busy]_<<now, limiter>>
================================================================================
