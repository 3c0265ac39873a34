------------------------------- MODULE ReviewDesk -------------------------------
(* What reviewers do with the leads: mark one reached out, list them page by    *)
(* page, open one with its deliveries and attempts, and download a resume with  *)
(* a ticket, while leads arrive and mail is sent.                               *)
(*                                                                              *)
(* There are as many marking requests as Reviewers, and one request that reads. *)
(* Requests that read change nothing another request sees, so one of them, of   *)
(* any kind, shows whatever any number of them can be shown. The delivery       *)
(* attempts behave as AttemptLedger allows, which DeliveryClaims implements.    *)
EXTENDS Naturals, Sequences, FiniteSets

CONSTANTS
    Leads,              \* identifiers, which are compared: natural numbers
    Early,              \* the leads that are there from the start
    Paged,              \* one of them, the lead the deliveries belong to
    Deliveries,
    Numbers,            \* attempt numbers of a delivery, from 1
    Reviewers,          \* requests to mark a lead reached out
    Texts,              \* what a search text can select: sets of leads
    PageSize,           \* the limit of a search
    TicksPerSecond,     \* resolution of the model's clock
    TicketLife,         \* lifetime of a ticket in seconds (60 in the code)
    MaxTime             \* bound of the model: the clock stops here

Nobody == "nobody"

ASSUME DeskAssumption ==
    /\ Leads \subseteq Nat /\ IsFiniteSet(Leads)
    /\ Early \subseteq Leads /\ Paged \in Early
    /\ Nobody \notin Reviewers
    /\ IsFiniteSet(Numbers) /\ Numbers = 1 .. Cardinality(Numbers)
    /\ Texts \subseteq SUBSET Leads
    /\ {PageSize, TicksPerSecond, TicketLife} \subseteq Nat \ {0}
    /\ MaxTime \in Nat

VARIABLES
    now,        \* the clock of the database and of the API
    leads,      \* the table leads, with rows not committed yet
    marks,      \* the requests to mark a lead reached out
    ledger,     \* email_delivery_attempts of the lead Paged
    confirmed,
    reader      \* the request that reads

desk == <<now, leads, marks, ledger, confirmed, reader>>
mail == <<ledger, confirmed>>

Mail == INSTANCE AttemptLedger

--------------------------------------------------------------------------------
\* status, reached_out_by and reached_out_at: the columns that may change.
Row == [created : Nat, status : {"PENDING", "REACHED_OUT"},
        by : Reviewers \cup {Nobody}, at : Nat]

\* Mutant of Pending: the default of the column status is the other one.
PendingReached(created) ==
    [created |-> created, status |-> "REACHED_OUT", by |-> Nobody, at |-> 0]

Pending(created) == [created |-> created, status |-> "PENDING", by |-> Nobody, at |-> 0]

\* A row is written in a transaction that reads the clock first and commits later.
Tuple == [stage : {"absent"}] \cup [stage : {"written"}, created : Nat]
         \cup [stage : {"stored"}, row : Row]

Stored == {l \in Leads : leads[l].stage = "stored"}

DeskInit ==
    /\ now = 0
    /\ leads = [l \in Leads |-> IF l \in Early
                                THEN [stage |-> "stored", row |-> Pending(0)]
                                ELSE [stage |-> "absent"]]
    /\ marks = [r \in Reviewers |-> [stage |-> "idle"]]
    /\ Mail!Init
    /\ reader = [at |-> "idle"]

--------------------------------------------------------------------------------
(* Leads arrive.                                                                *)

LeadStep(l, stage, tuple) ==
    /\ leads[l].stage = stage
    /\ leads' = [leads EXCEPT ![l] = tuple]
    /\ UNCHANGED <<now, marks, mail, reader>>

WriteLead(l) == LeadStep(l, "absent", [stage |-> "written", created |-> now])

CommitLead(l) ==
    /\ leads[l].stage = "written"
    /\ LeadStep(l, "written", [stage |-> "stored", row |-> Pending(leads[l].created)])

\* The identifier is not used again, so it is as if it had never been.
RollBackLead(l) == LeadStep(l, "written", [stage |-> "absent"])

--------------------------------------------------------------------------------
(* A lead is marked reached out.                                                *)

Holds(r, l) == marks[r].stage = "holding" /\ marks[r].lead = l

\* Mutant of RowFree: the row is read without being locked.
RowFreeAlways(l) == l \in Leads

RowFree(l) == \A r \in Reviewers : ~Holds(r, l)

MarkStep(r, stage, next) ==
    /\ marks[r].stage = stage
    /\ marks' = [marks EXCEPT ![r] = next]
    /\ UNCHANGED <<now, mail, reader>>

\* The function reads the clock, then waits for the row.
CallMark(r, l) ==
    /\ l \in Stored
    /\ MarkStep(r, "idle", [stage |-> "waiting", lead |-> l, clock |-> now])
    /\ UNCHANGED leads

\* Mutant of AlreadyReached: the status is not looked at under the lock.
ReachedUnchecked(row) == row.status \notin {"PENDING", "REACHED_OUT"}

AlreadyReached(row) == row.status = "REACHED_OUT"

Reached(row, r) == [row EXCEPT !.status = "REACHED_OUT", !.by = r, !.at = marks[r].clock]

\* The trigger and the constraints of the table.
UpdateAllowed(old, new) ==
    /\ old.status = "REACHED_OUT" => new = old
    /\ new.status = "REACHED_OUT" => new.at >= new.created /\ new.by # Nobody

\* The row is locked until the request ends. The function returns it as it is, or
\* updates it.
LockRow(r) ==
    /\ marks[r].stage = "waiting"
    /\ LET l == marks[r].lead
           old == leads[l].row
           new == IF AlreadyReached(old) THEN old ELSE Reached(old, r)
       IN  /\ RowFree(l)
           /\ MarkStep(r, "waiting",
                 IF UpdateAllowed(old, new)
                 THEN [stage |-> "holding", lead |-> l, row |-> new]
                 ELSE [stage |-> "refused", code |-> "invalid_status_transition"])
    /\ UNCHANGED leads

\* lock_timeout, which is answered like any other lock that is not available.
LockTimesOut(r) ==
    /\ marks[r].stage = "waiting" /\ ~RowFree(marks[r].lead)
    /\ MarkStep(r, "waiting", [stage |-> "refused", code |-> "delivery_in_progress"])
    /\ UNCHANGED leads

CommitMark(r) ==
    /\ marks[r].stage = "holding"
    /\ LET l == marks[r].lead IN
        /\ leads' = [leads EXCEPT ![l].row = marks[r].row]
        /\ MarkStep(r, "holding", [stage |-> "told", lead |-> l, row |-> marks[r].row])

\* The process or the connection is lost, and the transaction with it.
LoseMark(r) ==
    /\ MarkStep(r, "waiting", [stage |-> "idle"]) \/ MarkStep(r, "holding", [stage |-> "idle"])
    /\ UNCHANGED leads

--------------------------------------------------------------------------------
(* Mail is sent.                                                                *)

\* Who confirmed a retry is not on the page: every attempt is taken for confirmed.
MailStep ==
    /\ \E d \in Deliveries, n \in Numbers :
        \/ Mail!Begin(d, n, TRUE)
        \/ \E outcome \in Mail!Final : Mail!End(d, n, outcome)
    /\ UNCHANGED <<now, leads, marks, reader>>

--------------------------------------------------------------------------------
(* The leads are listed, newest first, page by page.                            *)

ReaderStep(stage) ==
    /\ reader.at = stage
    /\ UNCHANGED <<now, leads, marks, mail>>

Statuses == {"any", "PENDING", "REACHED_OUT"}

Matches(l, filter) ==
    /\ l \in Stored \cap filter.text
    /\ filter.status \in {"any", leads[l].row.status}

Position(l) == [created |-> leads[l].row.created, id |-> l]

\* The order of a listing.
Newer(l, m) ==
    LET a == Position(l)  b == Position(m) IN
    a.created > b.created \/ (a.created = b.created /\ a.id > b.id)

\* Mutants of After: all leads as old as the cursor's are left out, or the cursor's
\* own comes again.
AfterByTime(l, cursor) == Position(l).created < cursor.created
AfterOrAt(l, cursor) ==
    LET p == Position(l) IN
    p.created < cursor.created \/ (p.created = cursor.created /\ p.id <= cursor.id)

After(l, cursor) ==
    LET p == Position(l) IN
    p.created < cursor.created \/ (p.created = cursor.created /\ p.id < cursor.id)

\* The cursor, where there is one, is the position of the last lead shown: it keeps
\* the microseconds of the column.
Candidates(filter, cursor) ==
    {l \in Leads : Matches(l, filter) /\ \A c \in cursor : After(l, c)}

\* The first PageSize of a set of leads.
FirstOf(C) == {l \in C : Cardinality({m \in C \ {l} : Newer(m, l)}) < PageSize}

LastOf(items) == CHOOSE l \in items : \A m \in items \ {l} : Newer(m, l)

StartListing ==
    /\ ReaderStep("idle")
    /\ \E filter \in [status : Statuses, text : Texts] :
        reader' = [at |-> "listing", filter |-> filter, cursor |-> {},
                   first |-> {l \in Leads : Matches(l, filter)}, seen |-> {}, shown |-> 0]

\* One more row than the page holds is asked for; only if it is there, a cursor is
\* given.
FetchPage ==
    /\ ReaderStep("listing")
    /\ LET C == Candidates(reader.filter, reader.cursor)
           items == FirstOf(C)
           more == Cardinality(C) > PageSize
       IN  reader' = [reader EXCEPT
                        !.at = IF more THEN "listing" ELSE "listed",
                        !.cursor = IF more THEN {Position(LastOf(items))} ELSE {},
                        !.seen = @ \cup items,
                        !.shown = @ + Cardinality(items)]

--------------------------------------------------------------------------------
(* A lead is opened: three statements, each sees what is committed before it.   *)

\* Mutant of ReadOrder: the attempts are read before the deliveries.
AttemptsFirst == <<"lead", "attempts", "deliveries">>

ReadOrder == <<"lead", "deliveries", "attempts">>

Begun(d) == {n \in Numbers : ledger[d][n] # "none"}

\* The row of email_deliveries as DeliveryClaims keeps it, and the number of
\* attempts the API makes of retry_count and last_attempt_at.
Projection(d) ==
    IF Begun(d) = {} THEN [state |-> "pending", count |-> 0]
    ELSE LET last == CHOOSE n \in Begun(d) : \A m \in Begun(d) : m <= n IN
         [state |-> IF ledger[d][last] = "open" THEN "processing" ELSE ledger[d][last],
          count |-> last]

Read(part) ==
    CASE part = "lead" -> Paged \in Stored
      [] part = "deliveries" -> [d \in Deliveries |-> Projection(d)]
      [] part = "attempts" -> ledger

OpenLead ==
    /\ ReaderStep("idle")
    /\ reader' = [at |-> "opening", parts |-> <<>>]

ReadPart ==
    /\ ReaderStep("opening")
    /\ LET k == Len(reader.parts) + 1 IN
        reader' = [at |-> IF k = Len(ReadOrder) THEN "opened" ELSE "opening",
                   parts |-> Append(reader.parts, Read(ReadOrder[k]))]

--------------------------------------------------------------------------------
(* A resume is downloaded.                                                      *)

\* The ticket holds whole seconds.
Expiry(t) == (t + TicketLife * TicksPerSecond) \div TicksPerSecond

\* The lead is read, then the clock. Which lead it is makes no difference here.
IssueTicket ==
    /\ ReaderStep("idle")
    /\ Stored # {}
    /\ reader' = [at |-> "ticket", issued |-> now, exp |-> Expiry(now),
                  answer |-> "none"]

\* Mutant of Expired: the last instant is still allowed.
ExpiredLate(exp) == exp * TicksPerSecond < now

Expired(exp) == exp * TicksPerSecond <= now

\* A ticket may be used any number of times; one that was damaged on its way is
\* told from an old one before its time is looked at.
UseTicket ==
    /\ ReaderStep("ticket")
    /\ \E answer \in {"streamed", "expired", "invalid", "unavailable"} :
        /\ answer \in {"streamed", "unavailable"} => ~Expired(reader.exp)
        /\ answer = "expired" => Expired(reader.exp)
        /\ reader' = [reader EXCEPT !.answer = answer]

LeaveReader ==
    /\ ReaderStep(reader.at)
    /\ reader.at # "idle"
    /\ reader' = [at |-> "idle"]

--------------------------------------------------------------------------------
Tick ==
    /\ now < MaxTime
    /\ now' = now + 1
    /\ UNCHANGED <<leads, marks, mail, reader>>

DeskNext ==
    \/ Tick \/ MailStep
    \/ \E l \in Leads : WriteLead(l) \/ CommitLead(l) \/ RollBackLead(l)
    \/ \E r \in Reviewers :
        \/ \E l \in Leads : CallMark(r, l)
        \/ LockRow(r) \/ LockTimesOut(r) \/ CommitMark(r) \/ LoseMark(r)
    \/ StartListing \/ FetchPage \/ OpenLead \/ ReadPart
    \/ IssueTicket \/ UseTicket \/ LeaveReader

DeskSpec == DeskInit /\ [][DeskNext]_desk

--------------------------------------------------------------------------------
(* Properties.                                                                  *)

\* Rows have their types, and what is true of them by the table's constraints: a
\* lead is reached out by somebody, not before it was created.
DeskTypeOK ==
    /\ now \in 0 .. MaxTime
    /\ leads \in [Leads -> Tuple]
    /\ \A l \in Stored :
        LET row == leads[l].row IN
        /\ row.status = "PENDING" <=> row.by = Nobody
        /\ row.status = "REACHED_OUT" => row.at \in row.created .. now

\* Whoever asks for a lead to be reached out is told the state the lead is in and
\* stays in, with the first reviewer's name and time in it, or that the row was
\* not to be had in time; it is never told that the transition is invalid, however
\* requests overlap, fail or repeat (20260912170100_transaction_functions.sql:344).
ToldTheTruth ==
    \A r \in Reviewers :
        /\ marks[r].stage = "told" =>
            leads[marks[r].lead].row = marks[r].row /\ marks[r].row.status = "REACHED_OUT"
        /\ marks[r].stage = "refused" => marks[r].code = "delivery_in_progress"

\* The audit fields of a lead that is reached out never change, nor is it ever
\* pending again.
AuditKept ==
    [][\A l \in Stored : leads[l].row.status = "REACHED_OUT" => leads'[l] = leads[l]]_desk

\* A listing shows no lead twice, whatever arrives or changes its status between two
\* pages, leads of the same instant included (persistence.py:247).
NoLeadTwice ==
    reader.at \in {"listing", "listed"} => reader.shown = Cardinality(reader.seen)

\* A listing that came to its end has shown every lead that matched when it began
\* and still matches (application.py:528).
ListingComplete ==
    reader.at = "listed" =>
        {l \in reader.first : Matches(l, reader.filter)} \subseteq reader.seen

\* What a page says of a delivery, its attempts on the same page bear out, though
\* they were read later (application.py:543): there are as many as it counts, and
\* if it gives an outcome, the last of those had it.
PageCoherent ==
    reader.at = "opened" =>
        LET part(name) == reader.parts[CHOOSE k \in 1 .. 3 : ReadOrder[k] = name] IN
        \A d \in Deliveries :
            LET said == part("deliveries")[d]
                attempts == part("attempts")[d]
            IN  /\ Cardinality({n \in Numbers : attempts[n] # "none"}) >= said.count
                /\ said.state \in Mail!Final => attempts[said.count] = said.state

\* A ticket is good for less than its lifetime, never longer, and for all of it but
\* less than a second (infrastructure.py:53, infrastructure.py:76).
TicketLifetime ==
    [][reader.at = "ticket" /\ reader'.at = "ticket" =>
        LET age == now - reader.issued
            life == TicketLife * TicksPerSecond
        IN  reader'.answer # reader.answer =>
            /\ reader'.answer = "streamed" => age < life
            /\ reader'.answer = "expired" => age > life - TicksPerSecond]_desk
================================================================================
