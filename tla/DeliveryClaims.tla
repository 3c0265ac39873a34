---------------------------- MODULE DeliveryClaims ----------------------------
(* The e-mail attempt claim protocol: the database functions that own the       *)
(* tables email_deliveries, email_delivery_attempts, email_budget_reservations  *)
(* and daily_email_budgets, and the application requests that call them around  *)
(* one call to the mail provider.                                               *)
(*                                                                              *)
(* A sender is a request that may transmit mail: the initial send SubmitLead    *)
(* makes for a delivery (named by the delivery), or a reviewer's retry request. *)
(* Every database transaction is one action, because each locks the delivery    *)
(* row first and holds it to its commit; what a request does between two        *)
(* transactions is separate actions, and anything may happen in between. A      *)
(* claim reads the clock when it is called, before it waits for the row, and    *)
(* once more when it takes a credit: its call is an action of its own.          *)
EXTENDS Naturals, FiniteSets

CONSTANTS
    Deliveries,         \* the rows of email_deliveries
    Reviewers,          \* retry requests that can be in flight at once
    MaxRetries,         \* manual retries of one delivery (5 in the code)
    Lease,              \* lifetime of a claim (5 minutes in the code)
    Cooldown,           \* wait between attempts (1 minute in the code)
    ClaimTime,          \* from a claim's call to its commit (seconds, by its timeouts)
    DayLength,          \* length of a UTC budget day
    RetryCreditLimit,   \* daily_email_budgets.retry_credit_limit
    MaxTime,            \* bound of the model: the clock stops here
    ServerErrorMayFollowAcceptance
                        \* may the provider answer 5xx to mail it has accepted?

ASSUME SendersAssumption == Deliveries \cap Reviewers = {}
ASSUME BoundsAssumption ==
    /\ MaxRetries \in Nat
    /\ Lease \in Nat \ {0}
    /\ Cooldown \in Nat \ {0}
    /\ ClaimTime \in Nat
    /\ DayLength \in Nat \ {0}
    /\ RetryCreditLimit \in Nat
    /\ MaxTime \in Nat
    /\ ServerErrorMayFollowAcceptance \in BOOLEAN

VARIABLES
    now,            \* clock_timestamp() of the database
    delivery,       \* email_deliveries: the current projection of each delivery
    attempts,       \* email_delivery_attempts: attempts[d][attempt_number]
    reservations,   \* email_budget_reservations of kind retry
    creditsUsed,    \* daily_email_budgets.retry_credits_used, by day
    req,            \* what each sender is doing
    accepted        \* the attempts whose mail the provider took

vars == <<now, delivery, attempts, reservations, creditsUsed, req, accepted>>
database == <<delivery, attempts, reservations, creditsUsed>>

--------------------------------------------------------------------------------
Senders == Deliveries \cup Reviewers
Numbers == 1 .. (MaxRetries + 1)
Outcomes == {"provider_accepted", "failed", "unknown"}
Days == 0 .. MaxTime

\* (clock_timestamp() at time zone 'UTC')::date
Day(t) == t \div DayLength

Delivery == [state         : Outcomes \cup {"pending", "processing"},
             active        : Numbers \cup {0},      \* active_attempt_id, 0 for null
             expires       : Nat,                   \* claim_expires_at
             retryCount    : 0 .. MaxRetries,
             lastAttemptAt : Nat]

\* A row of the table, or the mark that there is none with this number; "open"
\* is an attempt with no ended_at. The flag the request carried is kept in
\* "confirmed" so that the properties can speak of it; the table has no such
\* column.
Attempt == [outcome   : Outcomes \cup {"none", "open"},
            trigger   : {"none", "initial", "manual"},
            started   : Nat,
            ended     : Nat,
            confirmed : BOOLEAN]

NoAttempt == [outcome |-> "none", trigger |-> "none", started |-> 0,
              ended |-> 0, confirmed |-> FALSE]

Reservation == [on : Deliveries, attempt : Numbers, day : Days]

\* The stages of a request: before a step of the same name.
Waiting == {"wait_initial", "wait_manual"}      \* for the row to claim
Working == {"reconcile", "read", "claim_initial"} \cup Waiting
Holding == {"send", "await", "complete"}

\* A request between two of its steps. A request that has ended keeps nothing.
Request ==
    [pc        : Working \cup Holding,
     on        : Deliveries,
     confirmed : BOOLEAN,                           \* duplicate_risk_confirmed
     asked     : Nat,                               \* v_now of the claim it waits for
     attempt   : Numbers \cup {0},                  \* the claim it holds
     result    : Outcomes \cup {"none"}]            \* MailResult.state
    \cup [pc : {"idle", "done"}]

Ended(s) == [pc |-> IF s \in Deliveries THEN "done" ELSE "idle"]

Init ==
    /\ now = 0
    /\ delivery = [d \in Deliveries |->
                      [state |-> "pending", active |-> 0, expires |-> 0,
                       retryCount |-> 0, lastAttemptAt |-> 0]]
    /\ attempts = [d \in Deliveries |-> [n \in Numbers |-> NoAttempt]]
    /\ reservations = {}
    /\ creditsUsed = [day \in Days |-> 0]
    /\ req = [s \in Senders |->
                 IF s \in Deliveries
                 THEN [pc |-> "claim_initial", on |-> s, confirmed |-> FALSE,
                       asked |-> 0, attempt |-> 0, result |-> "none"]
                 ELSE Ended(s)]
    /\ accepted = {}

Goto(s, stage) == req' = [req EXCEPT ![s].pc = stage]
Finish(s) == req' = [req EXCEPT ![s] = Ended(s)]

--------------------------------------------------------------------------------
(* The database's guards and updates.                                           *)

\* The attempt "order by attempt_number desc limit 1" finds.
IsLatest(d, n) ==
    /\ attempts[d][n].outcome # "none"
    /\ \A m \in Numbers : m > n => attempts[d][m].outcome = "none"

\* Mutant of LeaseActive: the lease is taken to end one tick early.
LeaseShort(d) == delivery[d].expires > now + 1

LeaseActive(d) == delivery[d].expires > now

InitialAvailable(d) ==
    /\ delivery[d].state = "pending"
    /\ delivery[d].retryCount = 0
    /\ \A n \in Numbers : attempts[d][n].outcome = "none"

\* Mutant of CooldownElapsed: the end of the previous attempt is not looked at.
CooldownFromStart(d, t) == t >= delivery[d].lastAttemptAt + Cooldown

CooldownElapsed(d, t) ==
    /\ t >= delivery[d].lastAttemptAt + Cooldown
    /\ \A n \in Numbers : IsLatest(d, n) => t >= attempts[d][n].ended + Cooldown

\* Mutant of CreditAvailable: the pool is checked before the credit is added.
CreditOffByOne(day) == creditsUsed[day] <= RetryCreditLimit

CreditAvailable(day) == creditsUsed[day] + 1 <= RetryCreditLimit

\* Mutant of ManualAvailable: the duplicate risk is not asked about.
ManualUnconfirmed(s, day) ==
    LET d == req[s].on IN
    /\ delivery[d].state \in {"failed", "unknown"}
    /\ delivery[d].retryCount < MaxRetries
    /\ CooldownElapsed(d, req[s].asked)
    /\ CreditAvailable(day)

\* Mutant of ManualAvailable: accepted mail may be sent again.
ManualAfterAcceptance(s, day) ==
    LET d == req[s].on IN
    /\ delivery[d].state \in Outcomes
    /\ delivery[d].state = "unknown" => req[s].confirmed
    /\ delivery[d].retryCount < MaxRetries
    /\ CooldownElapsed(d, req[s].asked)
    /\ CreditAvailable(day)

\* A processing delivery is never claimed: while the lease runs the function
\* refuses, and when the lease had run out at the call the function ends the
\* attempt first, with that instant as its end, so that confirmation, retry limit
\* or cooldown refuses it. The adapter raises on each of those answers, so the
\* transaction, with the expiry it made, is rolled back.
ManualAvailable(s, day) ==
    LET d == req[s].on IN
    /\ delivery[d].state \in {"failed", "unknown"}
    /\ delivery[d].state = "unknown" => req[s].confirmed
    /\ delivery[d].retryCount < MaxRetries
    /\ CooldownElapsed(d, req[s].asked)
    /\ CreditAvailable(day)

\* The budget's own reading of the clock, between the claim's and the commit.
BudgetDays(s) == {Day(t) : t \in req[s].asked .. now}

\* Bound of the model: a claim is only made when its lease ends in the horizon.
WithinHorizon(s) == req[s].asked + Lease <= MaxTime

InsertAttempt(s, n, trigger) ==
    LET d == req[s].on
        v_now == req[s].asked
    IN
    /\ attempts[d][n].outcome = "none"      \* unique (delivery_id, attempt_number)
    /\ attempts' = [attempts EXCEPT ![d][n] =
                       [outcome |-> "open", trigger |-> trigger, started |-> v_now,
                        ended |-> 0,
                        confirmed |-> trigger = "manual" /\ req[s].confirmed]]
    /\ delivery' = [delivery EXCEPT ![d] =
                       [state |-> "processing", active |-> n,
                        expires |-> v_now + Lease,
                        retryCount |-> IF trigger = "manual"
                                       THEN @.retryCount + 1 ELSE @.retryCount,
                        lastAttemptAt |-> v_now]]
    /\ req' = [req EXCEPT ![s].pc = "send", ![s].asked = 0, ![s].attempt = n]

ReserveRetryCredit(d, n, day) ==
    /\ creditsUsed' = [creditsUsed EXCEPT ![day] = @ + 1]
    /\ reservations' = reservations \cup {[on |-> d, attempt |-> n, day |-> day]}

\* Mutant of CloseAttempt: the projection keeps its claim.
CloseAttemptOnly(d, n, outcome) ==
    /\ attempts' = [attempts EXCEPT ![d][n].outcome = outcome, ![d][n].ended = now]
    /\ UNCHANGED <<delivery, reservations, creditsUsed>>

\* Both rows are written: the attempt ends and the claim is cleared.
CloseAttempt(d, n, outcome) ==
    /\ attempts' = [attempts EXCEPT ![d][n].outcome = outcome, ![d][n].ended = now]
    /\ delivery' = [delivery EXCEPT ![d].state = outcome, ![d].active = 0,
                                    ![d].expires = 0]
    /\ UNCHANGED <<reservations, creditsUsed>>

--------------------------------------------------------------------------------
(* A retry request: POST of a reviewer, up to the claim.                        *)

StartRetry(r, d, confirmed) ==
    /\ req[r].pc = "idle"
    /\ req' = [req EXCEPT ![r] = [pc |-> "reconcile", on |-> d,
                                  confirmed |-> confirmed, asked |-> 0,
                                  attempt |-> 0, result |-> "none"]]
    /\ UNCHANGED <<now, database, accepted>>

\* First transaction: expire_email_delivery_claim, committed before the claim.
ReconcileNothing(s) ==
    /\ req[s].pc = "reconcile"
    /\ delivery[req[s].on].state # "processing"
    /\ Goto(s, "read")
    /\ UNCHANGED <<now, database, accepted>>

ReconcileActiveLease(s) ==
    /\ req[s].pc = "reconcile"
    /\ delivery[req[s].on].state = "processing"
    /\ LeaseActive(req[s].on)
    /\ Finish(s)
    /\ UNCHANGED <<now, database, accepted>>

\* Mutant of ExpireClaim: an expired claim is recorded as failed.
ExpireAsFailed(s) ==
    LET d == req[s].on
        n == delivery[d].active
    IN
    /\ req[s].pc = "reconcile"
    /\ delivery[d].state = "processing"
    /\ ~LeaseActive(d)
    /\ attempts[d][n].outcome = "open"
    /\ CloseAttempt(d, n, "failed")
    /\ Goto(s, "read")
    /\ UNCHANGED <<now, accepted>>

\* Mutant of ExpireClaim: the first transaction is not committed.
ExpireRolledBack(s) ==
    /\ req[s].pc = "reconcile"
    /\ delivery[req[s].on].state = "processing"
    /\ ~LeaseActive(req[s].on)
    /\ Goto(s, "read")
    /\ UNCHANGED <<now, database, accepted>>

ExpireClaim(s) ==
    LET d == req[s].on
        n == delivery[d].active
    IN
    /\ req[s].pc = "reconcile"
    /\ delivery[d].state = "processing"
    /\ ~LeaseActive(d)
    /\ attempts[d][n].outcome = "open"
    /\ CloseAttempt(d, n, "unknown")
    /\ Goto(s, "read")
    /\ UNCHANGED <<now, accepted>>

\* claim_email_delivery is called: it fixes its v_now and waits for the row.
CallClaim(s, stage) ==
    /\ req' = [req EXCEPT ![s].pc = stage, ![s].asked = now]
    /\ UNCHANGED <<now, database, accepted>>

CallInitial(s) ==
    /\ req[s].pc = "claim_initial"
    /\ CallClaim(s, "wait_initial")

\* Second transaction of a retry: the state is read without a lock and decides
\* which claim is called at once.
ReadState(s) ==
    /\ req[s].pc = "read"
    /\ CallClaim(s, IF delivery[req[s].on].state = "pending"
                    THEN "wait_initial" ELSE "wait_manual")

\* It gets the row, and goes through to its commit or is refused.
ClaimInitial(s) ==
    /\ req[s].pc = "wait_initial"
    /\ WithinHorizon(s)
    /\ InitialAvailable(req[s].on)
    /\ InsertAttempt(s, 1, "initial")
    /\ UNCHANGED <<now, reservations, creditsUsed, accepted>>

\* Mutant of InitialUnavailable: the claim that is there already is handed out again.
InitialHandedOut(s) ==
    /\ req[s].pc = "wait_initial"
    /\ delivery[req[s].on].state = "processing"
    /\ req' = [req EXCEPT ![s].pc = "send", ![s].attempt = delivery[req[s].on].active]
    /\ UNCHANGED <<now, database, accepted>>

InitialUnavailable(s) ==
    /\ req[s].pc = "wait_initial"
    /\ ~InitialAvailable(req[s].on)
    /\ Finish(s)
    /\ UNCHANGED <<now, database, accepted>>

ClaimManual(s) ==
    LET d == req[s].on
        n == delivery[d].retryCount + 2
    IN
    /\ req[s].pc = "wait_manual"
    /\ WithinHorizon(s)
    /\ \E day \in BudgetDays(s) :
          /\ ManualAvailable(s, day)
          /\ ReserveRetryCredit(d, n, day)
    /\ InsertAttempt(s, n, "manual")
    /\ UNCHANGED <<now, accepted>>

ManualRefused(s) ==
    /\ req[s].pc = "wait_manual"
    /\ \E day \in BudgetDays(s) : ~ManualAvailable(s, day)
    /\ Finish(s)
    /\ UNCHANGED <<now, database, accepted>>

--------------------------------------------------------------------------------
(* Sending what was claimed, and recording the outcome.                         *)

\* The provider's answers: 200, a 4xx refusal, 429, 5xx, or none that arrives.
Replies(taken) ==
    IF taken
    THEN {"ok", "no_response"}
         \cup (IF ServerErrorMayFollowAcceptance THEN {"server_error"} ELSE {})
    ELSE {"rejected", "throttled", "server_error", "no_response"}

\* Mutant of Classify: 429 and 5xx get a state the tables do not know.
ClassifyRetryable(reply) ==
    CASE reply = "ok" -> "provider_accepted"
      [] reply = "no_response" -> "unknown"
      [] reply \in {"throttled", "server_error"} -> "retryable"
      [] OTHER -> "failed"

\* Mutant of Classify: a connection error counts as a failure.
ClassifyLossAsFailed(reply) ==
    IF reply = "ok" THEN "provider_accepted" ELSE "failed"

Classify(reply) ==
    CASE reply = "ok" -> "provider_accepted"
      [] reply = "no_response" -> "unknown"
      [] reply \in {"throttled", "server_error"} -> "failed"
      [] OTHER -> "failed"

Transmit(s) ==
    /\ req[s].pc = "send"
    /\ \E taken \in BOOLEAN :
          accepted' = IF taken THEN accepted \cup {<<req[s].on, req[s].attempt>>}
                      ELSE accepted
    /\ Goto(s, "await")
    /\ UNCHANGED <<now, database>>

ReplyArrives(s) ==
    /\ req[s].pc = "await"
    /\ \E reply \in Replies(<<req[s].on, req[s].attempt>> \in accepted) :
          req' = [req EXCEPT ![s].pc = "complete", ![s].result = Classify(reply)]
    /\ UNCHANGED <<now, database, accepted>>

\* Mutant of ClaimStands: only the delivery is looked at, not whose claim it carries.
ClaimByDelivery(d, n) == delivery[d].state = "processing"

\* complete_email_delivery_attempt records an outcome only for the attempt that
\* is still open and still the active claim of its delivery.
ClaimStands(d, n) ==
    /\ attempts[d][n].outcome = "open"
    /\ delivery[d].state = "processing"
    /\ delivery[d].active = n

Complete(s) ==
    /\ req[s].pc = "complete"
    /\ ClaimStands(req[s].on, req[s].attempt)
    /\ CloseAttempt(req[s].on, req[s].attempt, req[s].result)
    /\ Finish(s)
    /\ UNCHANGED <<now, accepted>>

CompleteIgnored(s) ==
    /\ req[s].pc = "complete"
    /\ ~ClaimStands(req[s].on, req[s].attempt)
    /\ Finish(s)
    /\ UNCHANGED <<now, database, accepted>>

\* A step raises (the database cannot be reached, a statement or a lock times
\* out, the answer to a commit is lost, the task is cancelled): the request ends
\* with nothing of that step applied. A commit whose answer is lost is the
\* transaction followed by this step.
RequestFails(s) ==
    /\ req[s].pc \in Working \cup Holding
    /\ Finish(s)
    /\ UNCHANGED <<now, database, accepted>>

\* The one API process dies, and every request with it.
ProcessRestart ==
    /\ \E s \in Senders : req[s].pc \in Working \cup Holding
    /\ req' = [s \in Senders |-> Ended(s)]
    /\ UNCHANGED <<now, database, accepted>>

\* Time passes. The timeouts of its statements and of the connection end a claim
\* that has not been committed within ClaimTime of its call.
Tick ==
    /\ now < MaxTime
    /\ \A s \in Senders : req[s].pc \in Waiting => now < req[s].asked + ClaimTime
    /\ now' = now + 1
    /\ UNCHANGED <<database, req, accepted>>

--------------------------------------------------------------------------------
\* What the program does with a request, whoever started it.
SenderStep(s) ==
    \/ ReconcileNothing(s) \/ ReconcileActiveLease(s) \/ ExpireClaim(s)
    \/ ReadState(s) \/ CallInitial(s)
    \/ ClaimInitial(s) \/ InitialUnavailable(s)
    \/ ClaimManual(s) \/ ManualRefused(s)
    \/ Transmit(s) \/ ReplyArrives(s)
    \/ Complete(s) \/ CompleteIgnored(s)
    \/ RequestFails(s)

System ==
    \/ \E s \in Senders : SenderStep(s)
    \/ ProcessRestart
    \/ Tick

Next ==
    \/ \E r \in Reviewers, d \in Deliveries, confirmed \in BOOLEAN :
          StartRetry(r, d, confirmed)
    \/ System

Spec == Init /\ [][Next]_vars

\* The clock runs; a request takes its next step or fails, for every call it
\* makes has a timeout; and a retry that finds an expired lease again and again
\* does not fail at that very transaction for ever (the database is not down for
\* good). No sender is assumed to record the outcome of its claim: each may die.
Served ==
    /\ WF_vars(Tick)
    /\ \A s \in Senders : WF_vars(SenderStep(s)) /\ SF_vars(ExpireClaim(s))

LiveSpec ==
    /\ Spec
    /\ Served
    /\ \A r \in Reviewers, d \in Deliveries :
          SF_vars(\E confirmed \in BOOLEAN : StartRetry(r, d, confirmed))

\* The same program behind the web page: DeliveryCard shows its retry button only
\* for a delivery that is pending, failed or unknown, and sends the confirmation
\* exactly when the state it shows is unknown.
ButtonShown(d) == delivery[d].state \in {"pending", "failed", "unknown"}

WebRetry(r, d) ==
    /\ ButtonShown(d)
    /\ StartRetry(r, d, delivery[d].state = "unknown")

WebNext ==
    \/ \E r \in Reviewers, d \in Deliveries : WebRetry(r, d)
    \/ System

WebSpec ==
    /\ Init
    /\ [][WebNext]_vars
    /\ Served
    /\ \A r \in Reviewers, d \in Deliveries : SF_vars(WebRetry(r, d))

--------------------------------------------------------------------------------
(* Properties.                                                                  *)

\* Every variable keeps the shape of the table or request it stands for.
TypeOK ==
    /\ now \in 0 .. MaxTime
    /\ delivery \in [Deliveries -> Delivery]
    /\ attempts \in [Deliveries -> [Numbers -> Attempt]]
    /\ reservations \subseteq Reservation
    /\ creditsUsed \in [Days -> Nat]
    /\ req \in [Senders -> Request]
    /\ accepted \subseteq Deliveries \X Numbers

\* The projection a reviewer sees and the append-only history agree, although
\* each transaction writes them one after the other: a delivery is processing
\* exactly when its latest attempt is open, and otherwise shows that attempt's
\* outcome; only the latest attempt can be open, and it is the active one. The
\* numbers have no gap and match the retry counter.
ProjectionMatchesHistory ==
    \A d \in Deliveries, n \in Numbers :
        /\ attempts[d][n].outcome = "open" =>
              delivery[d].state = "processing" /\ delivery[d].active = n
        /\ IsLatest(d, n) =>
              delivery[d].state = IF attempts[d][n].outcome = "open"
                                  THEN "processing" ELSE attempts[d][n].outcome
        /\ attempts[d][n].outcome # "none" <=>
              delivery[d].state # "pending" /\ n <= delivery[d].retryCount + 1

Credits(d, n) == {x \in reservations : x.on = d /\ x.attempt = n}

\* The daily pool is neither exceeded nor leaked: a manual attempt has exactly one
\* credit, and nothing else has one, so a refused or rolled back claim takes none.
\* The credit is of the day on which it was reserved, which is read after the
\* attempt's start: when the claim waited for its row across midnight it is the
\* next one. A day's counter is the number of that day's reservations.
CreditsMatchAttempts ==
    /\ \A d \in Deliveries, n \in Numbers :
          LET row == attempts[d][n] IN
          /\ row.trigger # "manual" => Credits(d, n) = {}
          /\ row.trigger = "manual" =>
                \E day \in Day(row.started) .. Day(row.started + ClaimTime) :
                    Credits(d, n) = {[on |-> d, attempt |-> n, day |-> day]}
    /\ \A day \in Days :
          /\ creditsUsed[day] = Cardinality({x \in reservations : x.day = day})
          /\ creditsUsed[day] <= RetryCreditLimit

\* No attempt is ever in the hands of two requests, so each claim is transmitted
\* at most once: not after an expiry, not after a restart, not when a reviewer's
\* request and the initial send race for the same pending delivery.
SoleHolder ==
    \A s, t \in Senders :
        /\ req[s].pc \in Holding
        /\ req[t].pc \in Holding
        /\ req[s].on = req[t].on
        /\ req[s].attempt = req[t].attempt
        => s = t

\* A request that still holds a claim someone else has ended lost it to the
\* lease: the attempt reads unknown, never failed, so that nobody may start
\* another one beside it without confirming the risk.
LostClaimsAreUnknown ==
    \A s \in Senders :
        req[s].pc \in Holding =>
            attempts[req[s].on][req[s].attempt].outcome \in {"open", "unknown"}

\* An outcome on record is true of the provider: accepted mail was taken, and
\* mail recorded as failed was not (docs/system-design.md:567-569 keeps "failed"
\* for definite rejections).
RecordedOutcomesTrue ==
    \A d \in Deliveries, n \in Numbers :
        /\ attempts[d][n].outcome = "provider_accepted" => <<d, n>> \in accepted
        /\ attempts[d][n].outcome = "failed" => <<d, n>> \notin accepted

\* If the provider took the mail of two attempts, a reviewer confirmed the risk
\* of a duplicate when the first attempt after the earlier one was claimed.
DuplicatesConfirmed ==
    \A d \in Deliveries : \A m, n \in Numbers :
        /\ <<d, m>> \in accepted
        /\ <<d, n>> \in accepted
        /\ m < n
        => attempts[d][m + 1].confirmed

\* Between two attempts of a delivery lies the cooldown, counted from the start
\* and from the end of the earlier one, whichever request ended it.
CooldownKept ==
    \A d \in Deliveries : \A m, n \in Numbers :
        m < n /\ attempts[d][n].outcome # "none" =>
            /\ attempts[d][m].started + Cooldown <= attempts[d][n].started
            /\ attempts[d][m].ended + Cooldown <= attempts[d][n].started

\* The history is append-only: an attempt that exists keeps its identity, and
\* once it has ended it never changes, however late its sender reports.
HistoryImmutable ==
    [][\A d \in Deliveries, n \in Numbers :
          LET before == attempts[d][n]
              after == attempts'[d][n]
          IN  /\ before.outcome \in Outcomes => after = before
              /\ before.outcome = "open" =>
                    /\ after.outcome # "none"
                    /\ after.started = before.started
                    /\ after.trigger = before.trigger]_attempts

\* Until its lease runs out a claim belongs to the request that made it: the
\* attempt is ended by nobody else, and no other attempt begins.
LeaseHonoured ==
    [][\A d \in Deliveries :
          /\ delivery[d].state = "processing"
          /\ now < delivery[d].expires
          /\ delivery'[d] # delivery[d]
          => \E s \in Senders :
                /\ req[s].pc = "complete"
                /\ req[s].on = d
                /\ req[s].attempt = delivery[d].active
                /\ delivery'[d].state = req[s].result]_delivery

\* A claim does not stay open for ever: whatever died with it in its hands, the
\* delivery leaves processing.
ProcessingResolves ==
    \A d \in Deliveries :
        delivery[d].state = "processing" ~> delivery[d].state # "processing"

\* The claim protocol implements the append-only ledger of AttemptLedger: the
\* ledger is the outcome column of the attempt table.
Ledger == INSTANCE AttemptLedger WITH
    ledger <- [d \in Deliveries |-> [n \in Numbers |-> attempts[d][n].outcome]],
    confirmed <- [d \in Deliveries |-> [n \in Numbers |-> attempts[d][n].confirmed]]

ImplementsLedger == Ledger!Spec

================================================================================
