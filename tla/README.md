# AlmaPortal: models, checks and proofs

TLA+ models of AlmaPortal, the lead intake and review portal in this
repository, the TLC configurations that check them on small instances, and
theorems about them that the TLA+ proof system (TLAPS) checks for every value of
the constants. Line numbers refer to the repository; `PROJECT.json` maps every
definition to the lines it models.

## 1. The system

One FastAPI process (`apps/api/src/alma_api`, a single uvicorn worker by
configuration) serves a public form and a reviewer desk built with Next.js
(`apps/web`). State lives in Postgres, where security-definer functions
(`infra/supabase/migrations`) make every change of a delivery or a budget, and
in a private storage bucket `resumes`. Mail goes out through Resend. There is no
background worker and no queue: mail is sent by the request that submitted the
lead, after its commit, or by a reviewer's retry. An operator script
(`infra/supabase/scripts/storage_reconcile.py`) removes objects no lead points to.

| Component | State it keeps | Operations | What makes it correct |
| --- | --- | --- | --- |
| E-mail delivery claims | `email_deliveries`, `email_delivery_attempts`, retry rows of `email_budget_reservations`, retry counter of `daily_email_budgets`; per request: what it holds | claim (initial, manual), complete, expire, the retry request around them | one holder per attempt; projection and history agree; recorded outcomes are true; no unconfirmed duplicate; cooldown, lease and credit limits; claims do not stay open |
| Mail provider adapter | none | one HTTP call, its answer classified | an outcome is only called definite when it is |
| Lead submission | `leads`, `demo_capacity`, new-lead reservations and counter, bucket objects | reserve, upload, create, compensate, initial sends | a 201 means durable; limits hold and counters are exact; failures leave at most an orphan object |
| Storage audit | the JSON plan | plan, load, check item, delete item | never deletes a lead's resume; does what the plan says |
| Delivery card (web) | what the page shows | offer and send a retry | every recoverable delivery can be recovered; a confirmation is for what was shown |
| Lead status review | lead status and reached-out audit fields | mark reached out | first reviewer's audit fields stay |
| Lead search, paging and list page | cursors; the rows shown | search, next, previous | a listing neither skips nor repeats a lead that did not change; the screen shows the latest query |
| Submission rate limiter | per-client deque of times | consume | window limit; waiting as long as told is enough |
| Token verification and key cache | JWKS keys, expiry and stale times, negative ids | key lookup, refresh under a lock | a withdrawn key stops being accepted; bounded upstream calls |
| Resume download tickets | none (signed, expiring) | issue, verify | a ticket opens one resume until it expires |
| Deployment pipeline | deployed commit | deploy after CI | the newest green commit ends up deployed |
| Request pipeline | none but the limiter's | the layers around every request; errors turned into answers | an answer tells the true cause; a client cannot choose whom it is counted against |
| Domain values and configuration | the settings a process starts with | normalise and check a form; validate settings | what is accepted can be stored; no accepted configuration is unsafe |
| Web proxy and CSRF, upload form, storage policies | none over time | see section 8 | |

How they interact: `SubmitLead` (application.py:445-509) calls the budget and the
creation functions, the bucket, and the delivery service, in that order, with no
transaction spanning two of them. `DeliveryService` (application.py:337-426) runs
its own short transactions around one HTTP call. The retry endpoint calls the
same service, so an initial send and reviewers' retries meet on the same
delivery row. The audit shares the bucket and `leads` with `SubmitLead`, and
relies on the operator having paused submissions. Every request first passes the
layers of `create_app` (main.py:139-160), where submissions meet the limiter; the
reviewers' requests read the tables the others write, each statement for itself.

What is hard: a request reads state, lets go of the lock, awaits a service, and
comes back (claims); a process death leaves a claim that only its lease and a
later request can end; two services are changed with no common transaction
(bucket and database); an error may be reported for something that took effect
(5xx, connection loss, lost commit answer); several limits are enforced with
counters kept beside the rows they count; days and leases end while requests run;
a listing or a page is put together from statements that see different commits;
an error crosses four translations before it becomes a status; validators that
each look at one setting have to be safe together.
`PROJECT.json` lists each such place at its line under `hazards`, with the
properties aimed at it.

## 2. Modules

| Module | What it is |
| --- | --- |
| `DeliveryClaims` | the claim protocol: database functions, the requests that call them, provider, crashes, the clock |
| `AttemptLedger` | the abstract promise of that protocol: an append-only ledger of attempts |
| `MCDeliveryClaims` | model values and symmetry for TLC |
| `DeliveryClaimsProofs` | its inductive invariant, safety theorems and refinement theorem |
| `DeliveryPromisesProofs` | extends it: the lease, the cooldown, the retry credits, true outcomes and confirmed duplicates |
| `LeadIntake` | `SubmitLead` with budget, bucket and capacity, beside the storage audit |
| `MCLeadIntake` | model values and sizes for TLC |
| `LeadIntakeProofs` | its inductive invariant and theorems |
| `KeyCache` | the signing key cache of `SupabaseJwtVerifier` under concurrent lookups |
| `MCKeyCache` | model values and symmetry for TLC |
| `KeyCacheProofs` | its inductive invariants and the theorems about withdrawn, new and known keys and about calls |
| `RateLimiter` | the sliding window of submissions per client, `InMemoryRateLimiter` |
| `RateLimiterProofs` | its inductive invariant and theorems |
| `Problems` | exceptions, and what translation, unit of work and handlers make of them |
| `SubmissionForm` | the checks of a form and the constraints of the leads table |
| `Settings` | the validators of the settings, and what a safe set of them is |
| `FrontDoor` | composes these four: a request through the layers, the body and the form to its answer |
| `MCFrontDoor` | model values and symmetry for TLC |
| `FrontDoorProofs` | that the layers implement the limiter, and the theorems about clients, answers, forms and settings |
| `ReviewDesk` | status changes, listings, detail pages and downloads, beside arriving leads and `AttemptLedger` |
| `MCReviewDesk` | model values and symmetry for TLC |
| `ReviewDeskProofs` | its inductive invariant and the theorems about rows, marks and tickets |
| `ListingProofs` | extends it: listings show nothing twice and leave nothing out, detail pages are coherent |

### DeliveryClaims

State. `delivery[d]` is the row of `email_deliveries` (state, active attempt, claim
expiry, retry count, last attempt time), `attempts[d][n]` the row with attempt
number n, `reservations` and `creditsUsed` the retry side of the daily budget, `now`
the database clock. `req[s]` is what a request is doing: its stage, the delivery it
works on, the confirmation it carries, the clock its claim was called with
(`asked`), the attempt it holds and the result it has. A sender is either the
submission's initial send of a delivery (named by the delivery) or a slot for a
reviewer's retry request. `accepted` is the provider's side: attempts whose mail it
took, which no code can read.

Actions. A database transaction is one action, since each of the functions
locks the delivery row first and holds it until commit; steps of a request
between transactions are separate actions, and everything else may run between.
A claim is two actions: its call, which fixes `v_now` before it waits for the row
(transaction_functions.sql:385), and what it does from the grant of the row to the
commit. In between others hold the row, and time passes.

| Action | Code |
| --- | --- |
| `StartRetry` | retry endpoint, presentation.py:448 |
| `ReconcileNothing`, `ReconcileActiveLease`, `ExpireClaim` | first transaction of `retry`, application.py:364-375, calling `expire_email_delivery_claim` |
| `ReadState` | the unlocked read and the claim it calls, application.py:377-393 |
| `CallInitial` | the submission's own call of `claim_email_delivery`, application.py:349-352 |
| `ClaimInitial`, `InitialUnavailable` | `claim_email_delivery` with the row, initial branch |
| `ClaimManual`, `ManualRefused` | the same, manual branch, with the retry credit of the day the budget reads |
| `Transmit`, `ReplyArrives` | `ResendMailer.send`: the provider takes the mail or not, then one of the answers that are possible after that is classified |
| `Complete`, `CompleteIgnored` | `complete_email_delivery_attempt` |
| `RequestFails` | any step raises; nothing of it is applied. A commit whose answer is lost is the transaction followed by this |
| `ProcessRestart` | the API process dies with all its requests |
| `Tick` | time passes, but not past `ClaimTime` after the call of a claim that still waits |

`WebSpec` replaces the retry call by what the delivery card offers
(lead-detail.tsx:38): nothing while a delivery is processing, and a
confirmation exactly when it shows unknown.

Two clocks. A manual claim reads the clock twice. `v_now`, read at the call, is the
start of the attempt and what cooldown and lease are counted from; the day of the
credit is read by `_reserve_email_budget` itself (transaction_functions.sql:20),
after the row, the cooldown and all the statements before it. `BudgetDays` is every
day that second reading can give: that of any instant from `v_now` to the commit. So a
claim that waits across midnight starts on one day and takes its credit from the
next. `ClaimTime` bounds the wait by the timeouts of the connection
(persistence.py:601-603). An expiry and a completion also read the clock before
they wait, but keep one reading in the model: an expiry that looks at an older
clock expires later, never earlier, and the end either of them records can precede the
commit by no more than such a wait.

Abstractions. Attempt ids are drawn afresh, so the branch that finds an existing
attempt id cannot be taken. An expiry made inside `claim_email_delivery` is
undone, because the adapter raises on the refusal that always follows it and the
transaction rolls back; `ManualAvailable` says why the refusal always follows.
The unlocked read of a retry and the call that follows it at once are one
action; a change of the row after the read meets the claim while it waits.
Read-only queries after a retry are left out. The `confirmed` flag of an attempt
is kept in the model so that properties can speak of it; the table has no such
column. Claims are only made when their lease ends within the horizon
(`WithinHorizon`, a bound of the model).

### AttemptLedger

What a reader of the history may rely on: an attempt begins only after every
earlier one has ended and none of them was accepted; one that follows an unknown
outcome carries a confirmation; an attempt that ended never changes.
`ImplementsLedger` is the refinement: the ledger is the outcome column, with
clock, leases, budgets, requests and provider hidden.

### LeadIntake

State. The tables `leads`, `demo_capacity` (`capacity`), new-lead reservations and
counter, `mail` (the two deliveries of a lead, pending or claimed), `begun` (the
initial attempts with the day each began), the bucket `objects`, where each
submission is (`pc`), the operator's pause and the audit tool. A submission draws
its lead id, reservation key and object path afresh, so it names all three.

| Action | Code |
| --- | --- |
| `Submit` ... `CreateFails` | the steps of `SubmitLead.__call__`, application.py:445-480, each with its failure |
| `UploadFails` | the upload raises, stored or not; no compensation follows |
| `CommitAnswerLost` | the second transaction takes effect and is reported as an error; possible only under `CommitAnswerMayBeLost` |
| `Compensate`, `CompensationFails` | application.py:481-493 |
| `List`, `ListFails`, `SendInitial` | the send loop after the commit; it goes on whatever a send does |
| `RecoverInitial` | a reviewer sends a delivery left pending |
| `BuildPlan`, `StartApply`, `CheckItem`, `DeleteItem`, `DeleteFails`, `FinishApply` | storage_reconcile.py; the check and the deletion are two steps against two services |
| `Pause`, `Unpause` | the operator, whose word (storage_reconcile.py:258-263) the tool takes: submissions are held back and none is under way. External |

Sending itself is `DeliveryClaims`; a delivery is here only pending or claimed.

### KeyCache

State. `cache` holds the fields of `SupabaseJwtVerifier` (auth.py:53-58), `queue` the
holder of the refresh lock and its waiters in order, `req` the lookups that wait,
`fetch` the call of the lock's holder. `published` and `changed` are the issuer's key
set and when each key last changed; `calls` remembers the last two calls and
`verdict` what the last step told a lookup, for the properties.

| Action | Code |
| --- | --- |
| `StartHit`, `StartWait` | `_key_for` up to the lock, auth.py:110-128 |
| `Skip`, `Refuse`, `Send` | `_refresh` once the lock is held: somebody else's refresh will do, a failure is too recent, or the fetch begins |
| `Answer`, `Install`, `FetchFails` | the endpoint's answer; the new set or the retry time; then the rest of `_key_for` |
| `FetchRaises` | a key that cannot be read: an exception the except clause does not name |
| `Rotate`, `Tick` | the issuer; time, which passes only while every task waits |

What a task does between two awaits is one action. A fetch ends within
`FetchTime`, assumed shorter than `Interval` (timeouts of 5 seconds a phase
against 30). Keys change at most once in an instant of the model's clock. The
checks of a token's header and claims are pure and left out; they come after the
key is found.

### RateLimiter, Problems, SubmissionForm, Settings

`RateLimiter` keeps `entries`, the table from client key to instants, and for the
properties `admitted` (every instant a key was let through) and `told` (its last
answer). `Admit`, `Refuse` and `TurnAway` are the three ends of `consume`
(infrastructure.py:317-340), each with the purge of inactive keys before it; the
call holds a lock and is one action. The clock counts ticks, several to a second, so
that the rounding of Retry-After is the code's. Restarts empty the table; the
model covers one process lifetime.

The other three have no variables. `Problems` gives the exception each SQLSTATE
becomes (`Translate`, persistence.py:785), what the unit of work makes of it
(`UnitOfWorkEnds`), which handler takes it through the class hierarchy
(`HandlerOf`) and the status that follows; `CauseOfState` and `Truthful` say what
an honest answer would be, by the place that raises. `SubmissionForm` judges
`Forms`, every form that departs from a good one in one respect; a text is its
length, whether the compatibility normalisation lengthens it and the kind of
controls in it. The order of the checks is not needed: any refusal whose check
fails may be the answer. `Settings` filters `SettingsSpace` through the validators of config.py and
says in `SafeSettings`, in other words, what must come out.

### FrontDoor

State. `settings` the process was given, `conn` the request under way and where it
is, the limiter, and `passed`, the instants at which requests of each peer that is
no proxy were let through.

| Action | Code |
| --- | --- |
| `Start` | `create_app` with settings that passed the validators |
| `Arrive`, `Preflight`, `CheckLength` | the outer layers and the body cap's test of Content-Length |
| `Unlimited`, `RefuseAddress`, `CountSubmission` | `PublicRateLimitMiddleware`, with the client key of `client_ip` |
| `RouteUnknown`, `RouteHealth`, `RouteReview`, `RouteSubmit` | the router; a route succeeds or raises what its use case may raise |
| `ReadChunk`, `RefuseForm`, `AcceptForm`, `Intake` | the capped body, the form, and the submission's end |
| `Leave`, `Pass` | the answer is sent; time passes |

The layers and their order are the data `Layers`; an answer made outside the
request context has no request id. One request at a time is enough: requests share
only the limiter, and a call of it is one step.

### ReviewDesk

State. `leads`, rows not committed included; `marks`, the requests to mark a lead;
`ledger` and `confirmed`, the attempts of one lead as `AttemptLedger` allows
them, whose detailed form `DeliveryClaims` implements it; `reader`, one request that reads.

| Action | Code |
| --- | --- |
| `WriteLead`, `CommitLead`, `RollBackLead` | a submission's second transaction as others see it |
| `CallMark`, `LockRow`, `LockTimesOut`, `CommitMark`, `LoseMark` | `mark_lead_reached_out`: the clock is read, the row awaited and locked, the trigger and the constraints pass or not, the unit of work commits or is lost |
| `MailStep` | any step of the ledger |
| `StartListing`, `FetchPage` | a search and its pages: filter, keyset order, one row more than the page, the cursor |
| `OpenLead`, `ReadPart` | the detail page: lead, deliveries, attempts, in three statements |
| `IssueTicket`, `UseTicket` | download tickets, in whole seconds, used any number of times |
| `LeaveReader`, `Tick` | the answer; time |

A lead's creation time is the clock when its transaction began, so a lead may
appear behind a cursor that has passed it; `ListingComplete` therefore speaks of
the leads that were there when the listing began. One reader, of any kind, shows
what any number can be shown, since reading changes nothing. A row lock that is
not granted in time is answered "delivery_in_progress", as for a delivery. Left
out: `updated_at`, the summary's counts, the bytes of a cursor and a ticket's
signature.

## 3. Runs

| Run | Instance | Shows |
| --- | --- | --- |
| `claims_safety` | 1 delivery, initial send and 2 reviewers, 2 retries, lease 2, cooldown 1, claim time 1, day 3, horizon 5, 1 credit a day | `TypeOK`, `ProjectionMatchesHistory`, `CreditsMatchAttempts`, `SoleHolder`, `LostClaimsAreUnknown`, `RecordedOutcomesTrue`, `DuplicatesConfirmed`, `CooldownKept`, `HistoryImmutable`, `LeaseHonoured`, `ImplementsLedger` |
| `claims_live` | 1 delivery, 1 reviewer, 1 retry | `ProcessingResolves` under `LiveSpec` |
| `claims_web` | the same behind the page | `ProcessingResolves` is violated, finding 1 |
| `claims_5xx` | the same, 5xx possible after acceptance | `RecordedOutcomesTrue` is violated, finding 2 |
| `intake_safety` | 2 submissions of 1 and 2 bytes, limits that the second can hit, horizon 3 | `TypeOK`, `AcknowledgedDurable`, `CountersExact`, `PlanCarriedOut`, `AuditSparesLeads`; lost commit answers included |
| `intake_commit` | 1 submission, lost commit answers | `LeadHasResume` is violated, finding 3 |
| `intake_day` | 2 submissions, days of 2 ticks | `DailyMailWithinPool` is violated, finding 4 |
| `keys_rotation` | 2 key ids, one rotating, 2 lookups, interval 2, lifetimes 2 and 3, stale window 1, fetch 1, horizon 6; unreadable keys | `TypeOK`, `AcceptedStillCached`, `WithdrawnKeyRejected` |
| `keys_outage` | 3 key ids, one rotating, 2 lookups, lifetimes 2 and 6, no unreadable keys | `NewKeyFound`, `KnownKeyServed`, `OneFetchLong`, `CallsSpaced` |
| `keys_unreadable` | as the first | `KnownKeyServed` is violated, finding 5 |
| `front_door` | 2 clients and 1 trusted proxy, a table of 2 keys, 1 submission in a window of 2 seconds, 2 ticks a second, horizon 5; all 13 settings; lengths up to 3 where 2 is the limit; chunks of 1 and 2 towards a cap of 3 | `LimiterTypeOK`, `WindowRespected`, `RetryAfterSuffices`, `FullOnlyWhenBusy`, `PeerBounded`, `TruthfulAnswers`, `TraceableAnswers`, `AcceptedIsStorable`, `NoUnsafeConfiguration` |
| `review_desk` | 3 leads, 2 of them there from the start, 2 marking requests, 1 delivery of 2 attempts, pages of 1, tickets of 1 second, 2 ticks a second, horizon 2 | `DeskTypeOK`, `ToldTheTruth`, `AuditKept`, `NoLeadTwice`, `ListingComplete`, `PageCoherent`, `TicketLifetime` |

Every property of a passing run has a mutant: a definition of the model altered as
a plausible bug in that code would alter it, under which the same run finds the
property violated. They stand in the modules, each marked "Mutant of".

Why the bounds are enough. The horizon of `claims_safety` holds a first claim, its
expiry two ticks later, a cooldown and another claim with its lease, and
crosses a day; a retry called at the last instant of the first day can wait for its
row into the second; three senders on one delivery are the initial send racing a retry
with one more request holding a claim that was taken from it. Deliveries share
nothing but the retry pool, and two reviewers of one delivery meet there too: a
claim taken from its holder has spent a credit the next claim asks for.
Symmetry of deliveries and reviewers is used in safety runs only. In
`intake_safety` the sizes make the byte limit refuse the second lead, whichever
comes first, with the larger resume alone just fitting; two credits make the pool empty after the first, and the
horizon crosses a day and outlives the reservation window, the grace and the
plan. The horizon of `keys_rotation` passes a withdrawal, the longest lifetime
and the stale window; that of `keys_outage` two intervals after a publication
while a set of the longest lifetime stays fresh, with a key id that is never
published to use up the forced refreshes. In `front_door` a
limit of 1 makes every pair of submissions a test of the window, and the theorems
of section 5 hold for any limit; two keys fill the table while a third comes; the
horizon passes a window of 4 ticks from any odd or even tick. In `review_desk` a
page of 1 makes every lead a page boundary, two leads share an instant, and a third,
whose identifier lies between theirs, arrives before, during or after a listing with
the same instant or a later one; the
filter by text is the same as a filter by status that never changes, so one text
is enough. A ticket issued on a whole second lasts its second, one issued between two
loses the rest. What does not depend on the bounds is proved (section 5).

## 4. Fairness

`Served`: the clock runs; each request takes its next step or fails, because every
call it makes has a timeout (database statement and lock timeouts, HTTP timeouts),
so that a claim that waits does not hold up the clock; and a retry that finds an
expired lease again and again does not fail at that very transaction for ever.
Nothing is assumed about a claim's holder recording its outcome: requests may fail
at every step and the process may die at any time. `LiveSpec` adds a client that
keeps calling the retry endpoint, with or without confirmation; `WebSpec` one that
keeps using the page whenever the page offers the action. The clock stops at
`MaxTime`, by which every lease handed out has ended.

## 5. Proofs

All theorems hold for any sets of deliveries, reviewers, submissions, clients and
leads and any limits, under the named assumptions of the modules (`SendersAssumption`,
`BoundsAssumption`; `SizeAssumption`, `LimitsAssumption`; `ConstantsAssumption`;
`LimiterAssumption`, `FormAssumption`, `FrontDoorAssumption`; `DeskAssumption`). They
type the constants, and three say more: a fetch of keys is shorter than the refresh
interval and that no longer than a lifetime (auth.py:39-41, 215), the numbers of
attempts are 1 to some number (core_schema.sql:306), and the body cap has room for a
form. `MaxTime` bounds the clock but may be any number.

`DeliveryClaimsProofs`. None of the properties is inductive alone: that a late
completion is harmless needs that a closed attempt is never the active one, and
that a retry's number is free needs that rows and counter agree. The invariant
`IInv` joins `TypeOK`, `SoleHolder`, and two shapes. `DeliveryShape` relates each delivery's
row to its attempts: which numbers exist, that only the active one can be open,
and what the latest one says. `HolderShape` says what a request in possession of a
claim may find when it comes back: its attempt open and active, or ended as unknown by an
expiry. The proof goes action by action, with a lemma for opening an attempt
(`InsertInv`), one for closing it (`CloseInv`) and one for steps that move only a
request (`RequestOnlyInv`).

- `TypeCorrect`, `ProjectionCorrect`, `ClaimsExclusive` (`SoleHolder`) and
  `LostClaimsReadUnknown` (`LostClaimsAreUnknown`): from `IInv`.
- `HistoryAppendOnly` (`HistoryImmutable`) and `Implementation`
  (`ImplementsLedger`): from `AttemptStep`, which says that a step does one of
  three things to the history: nothing, a permitted begin, or the end of the open one.

`DeliveryPromisesProofs`. Only two claims, an expiry and a completion write to the
tables (`WritingSteps`); what each knows when it writes follows from `IInv`.

- `LeaseIsHonoured` (`LeaseHonoured`): no claim fits a delivery that is processing,
  and an expiry refuses while the lease runs, which leaves the completion.
- `CooldownIsKept` (`CooldownKept`): a claim looks at the latest attempt only.
  `CooldownInv` adds that last_attempt_at is the start of that attempt, and the
  earlier ones follow because the cooldown already lies between them.
- `CreditsAreExact` (`CreditsMatchAttempts`): a manual attempt has exactly one credit,
  of the day it was reserved, which lies between the attempt's start and the end of
  its claim's time. `CreditInv` adds that a number without an attempt has no trigger,
  so its reservation is new and adds one to the count. `WaitInv` says that a claim that
  waits was called no longer ago than its timeout; with `DayMonotone` (a later
  instant is of no earlier day) this bounds the day the budget reads.

Two more are about the mail itself. `OInv` adds what ties the tables to the provider: a
request's result is true of its mail, only existing attempts were transmitted, and
an attempt that follows an unknown one is confirmed.

- `OutcomesTrue` (`RecordedOutcomesTrue`) and `DuplicateRiskConfirmed`
  (`DuplicatesConfirmed`), both assuming `~ServerErrorMayFollowAcceptance`; run
  `claims_5xx` shows that the first is false without it.

`LeadIntakeProofs`. `IInv` joins `TypeOK`, what the place a submission has reached
says of its lead and its object (`SubmissionShape`), and that the audit works
behind a closed door on objects no lead has (`AuditShape`).

- `TypeCorrect`; `Durability` (`AcknowledgedDurable`); `AuditSafe`
  (`AuditSparesLeads`); `ResumeKept` (`LeadHasResume`) assuming
  `~CommitAnswerMayBeLost`; run `intake_commit` shows that this is needed.
- `AuditCompletes` (`PlanCarriedOut`): `PlanShape` says that a path is never stored
  again once an audit has seen its object, so that what was handled stays handled
  while submissions go on between plan and application.
- `CountersCount` (`CountersExact`): `CounterShape` says that the counters count, and
  that a submission that has reserved nothing has no reservation. The bytes are a
  fold over the leads. What is proved of it is not what the fold computes step by step but
  that it does not depend on the order: two assignments of sums to the subsets of a finite
  set agree, because a smallest subset on which they differ would not be one
  (`SmallestSubset`, `SumsAgree`); hence a lead more is its size more (`BytesAdd`).

`KeyCacheProofs`. What a lookup may do once it gets the lock depends on what others did
while it waited. `IInv` describes the queue: who waits, in the order of coming
(`QueueShape`); that of two lookups, one which came to an expired set and one which came
to a fresh set, the first cannot stand ahead unless a set was installed meanwhile
(`ModeShape`); what a fetch under way has seen (`FetchShape`); and how long a
withdrawn key can be kept (`KeyShape`).

- `Types` (`TypeOK`), `CachedWhenAccepted` (`AcceptedStillCached`),
  `WithdrawalTakesEffect` (`WithdrawnKeyRejected`): from `IInv`.
- `OneFetchIsEnough` (`OneFetchLong`), `OutageBridged` (`KnownKeyServed`),
  `PublicationTakesEffect` (`NewKeyFound`) and `CallsAreSpaced` (`CallsSpaced`) assume
  `~UnreadableKeyMayBeServed`; run `keys_unreadable` shows that the second is false
  without it. `RInv` adds a shape for each: whoever has waited finds a set or a
  refusal (`WaitShape`); a lookup whose key came while it waited is not refused
  (`ServedShape`); no negative entry outlasts a publication by two intervals
  (`NewShape`); a call leaves an expiry or a refusal an interval ahead (`CallShape`).

`RateLimiterProofs`. The properties speak of `admitted`, which grows for ever, the
code keeps `entries`. The invariant says how one follows from the other: a key's
queue is the end of its history, what was dropped before it lies outside the
window, times never decrease, and a key that was refused was told an instant by
which its queue will have moved (`WaitedEnough`). The arithmetic of Retry-After is `RoundedUp`.

- `LimiterTypes` (`LimiterTypeOK`), `WindowsRespected` (`WindowRespected`),
  `RetryAfterIsEnough` (`RetryAfterSuffices`), `TurnedAwayOnlyWhenBusy`
  (`FullOnlyWhenBusy`), for `LimiterSpec`.

`FrontDoorProofs`. The layers implement the limiter (`LayersRefineLimiter`): every step
is a whole call of it, a tick, or leaves it alone. So these four hold of
`FrontDoorSpec` (`LimiterBehindLayers`), and so does the limiter's invariant.
`RequestOK` says what the place of a request in the layers means, and of an answer
that its status is one its cause justifies and that it carries the request id unless
it may not (`GoodAnswer`). The lemmas follow an exception up: from an error code
(`TranslationsTold`) through the unit of work (`DatabaseFailuresTold`) and the
handlers (`ToldAnswers`).

- `StatusesTellTheTruth` (`TruthfulAnswers`) and `AnswersCanBeTraced`
  (`TraceableAnswers`): from `RequestOK`.
- `AcceptedFormsFit` (`AcceptedIsStorable`), for all maximal lengths;
  `OnlySafeSettingsStart` (`NoUnsafeConfiguration`), for all combinations of settings.
- `PeersBounded` (`PeerBounded`): what passed for a client is part of what the
  limiter admitted for its address, which others may use too: `Within` names for each
  instant its place in that history. Places at least as far apart as the instants
  keep the spacing the limiter guarantees (`WithinSpaced`).

`ReviewDeskProofs`. That a reviewer is told the truth is not inductive: the row a
request is about to commit must still be a permitted successor of the one that is
there when it commits. `DeskInv` says for each stage of a request what it may rely
on (`Waits`, `HoldsRow`, `WasTold`), and that one request holds a row at a time.
Every step lets the table only grow (`Grows`), and requests that do not move keep
what they rely on (`MarkKept`).

- `RowsWellFormed` (`DeskTypeOK`), `ReviewersToldTheTruth` (`ToldTheTruth`),
  `AuditNeverChanges` (`AuditKept`), `TicketsLastTheirLifetime` (`TicketLifetime`).

`ListingProofs`. A listing is ordered by columns that never change (`PlaceKept`), and
a lead that stopped matching never matches again (`GoneForGood`: the filter names one
status, and leads only become reached out). `ListingOK` says that nothing shown
lies after the cursor, and that what matched at first and still does was shown or
lies after it. `PageOf` says what one page is: the leads with fewer than a page's
number ahead of them. It has a last one because a finite ordered set has a foremost
element (`Foremost`, from the well-foundedness of strict inclusion).

- `NothingTwice` (`NoLeadTwice`), `NothingLeftOut` (`ListingComplete`).
- `PagesCoherent` (`PageCoherent`): an attempt's end is for ever and the next number
  begins after it (`LedgerOK`), so the attempts read last bear out the deliveries read
  before them (`BornOut`), which `OpeningOK` says of a page at each of its stages.

Only model-checked: `ProcessingResolves` (liveness under fairness is beyond the
prover). Every other property of the passing runs is stated by a theorem.

What the proofs changed in the model: `UnitOfWorkEnds` was a CASE whose arms
overlapped when a rollback fails for a bare database error; TLC takes the first arm, the
language leaves the choice open, and the code does not: it is now an IF.
`DeskAssumption` let attempt numbers have gaps, or begin at 0, where a delivery's
state and its attempts would not have to agree; it now says what the schema says.

## 6. What the checks found

1. `claims_web`: a claim whose sender died is expired only by a retry call, and the
   page offers none while the delivery shows processing (lead-detail.tsx:38,
   docs/system-design.md:580). A page opened earlier, which still shows another
   state, can still make the call; the counterexample is about pages that show the
   current state.
2. `claims_5xx`: every 5xx is recorded as failed (infrastructure.py:263), which
   docs/system-design.md:567 keeps for definite rejections. If the provider can
   answer so after taking the mail, a retry without confirmation sends it twice.
3. `intake_commit`: an error reported for a commit that took effect makes
   `SubmitLead` delete the resume of a lead that exists (application.py:481,
   docs/system-design.md:398).
4. `intake_day`: an initial attempt asks no budget when it begins, so mail whose
   credits belong to one day can begin on the next (application.py:499,
   README.md:446).
5. `keys_unreadable`: `PyJWK.from_dict` raises a `PyJWTError`, which the except clause
   at auth.py:172 does not name. A published set with a key that cannot be read is
   therefore no outage to `_refresh`: no retry time, no stale fallback
   (tests/test_auth.py:234), an invalid token for every lookup that needs a refresh.

## 7. Plan

The order puts what can go wrong with several actors first.

1. Done: `DeliveryClaims`, `AttemptLedger`, `LeadIntake` and their proofs.
2. Done: `KeyCache` and its proofs.
3. Done: `RateLimiter`, `FrontDoor` with `Problems`, `SubmissionForm` and
   `Settings`, and their proofs.
4. Done: `ReviewDesk` and the proofs about rows, marks, tickets, listings and pages.
5. Done: the proofs about lease, cooldown, credits, the audit's plan and the counters.
6. Open: a model of the list page in the browser, whose answers may come out of order
   (lead-list.tsx:33), and of delivery cards that went stale (lead-detail.tsx:48).

## 8. Not modelled

- Of the request pipeline: logging, formatting of answers, clients that disconnect,
  scopes other than http. A JSON body too large or not to be parsed becomes a 400
  inside the framework and is external.
- Of the domain values: separators of lines and paragraphs outside the controls;
  the reading of a word archive beyond whether it is sound.
- Web proxy, CSRF and session handling: stateless forwarding around an external
  authentication service.
- Upload form: one form that posts once; its effect is a submission.
- Storage policies and database roles: declarations, no behaviour over time.
- Message composition and provider message ids: data that no control depends on.
- The report of missing objects of the audit, which only prints.
- The list page and stale cards (section 7), and the deployment pipeline: which commit a
  queue of finished CI runs deploys is decided by the runner service.
- The command line tools (`cli.py`, `bootstrap_api_role.py`): sequential, run by hand.
