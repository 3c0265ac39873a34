------------------------------ MODULE LeadIntake ------------------------------
(* Submission of a lead: the application service SubmitLead, which reserves the *)
(* day's mail credits, uploads the resume to the private bucket and commits the *)
(* lead with its two deliveries, in three steps against two services; and the   *)
(* operator's storage audit, which removes resumes no lead points to.           *)
(*                                                                              *)
(* A submission is one POST. The lead's id, the budget reservation's key and    *)
(* the object path are drawn afresh for it and written once, so the submission  *)
(* itself names all three. Sending is DeliveryClaims; here a delivery is only   *)
(* pending or claimed.                                                          *)
EXTENDS Naturals, FiniteSets, FiniteSetsExt

CONSTANTS
    Submissions,
    Size,               \* bytes of the resume each submission carries
    LeadLimit,          \* demo_capacity.lead_limit
    ByteLimit,          \* demo_capacity.resume_byte_limit
    CreditLimit,        \* daily_email_budgets.new_lead_credit_limit
    DayLength,          \* length of a UTC budget day
    ReservationWindow,  \* a reservation is good for this long (1 hour)
    Grace,              \* age at which an object may count as orphan (15 minutes)
    PlanAge,            \* a plan is good for this long (24 hours)
    MaxTime,            \* bound of the model: the clock stops here
    CommitAnswerMayBeLost
                        \* may a commit that took effect be reported as an error?

ASSUME SizeAssumption == Size \in [Submissions -> Nat \ {0}]
ASSUME LimitsAssumption ==
    /\ LeadLimit \in Nat
    /\ ByteLimit \in Nat
    /\ CreditLimit \in Nat
    /\ DayLength \in Nat \ {0}
    /\ ReservationWindow \in Nat
    /\ Grace \in Nat
    /\ PlanAge \in Nat
    /\ MaxTime \in Nat
    /\ CommitAnswerMayBeLost \in BOOLEAN

VARIABLES
    now,
    reservations,   \* email_budget_reservations of kind new_lead
    creditsUsed,    \* daily_email_budgets.new_lead_credits_used, by day
    leads,          \* the rows of leads
    capacity,       \* demo_capacity: lead_count and resume_bytes
    mail,           \* email_deliveries of each lead
    begun,          \* the initial attempts, with the day each began
    objects,        \* the bucket: storage.objects
    pc,             \* where each submission is
    paused,         \* the operator holds new submissions back
    tool            \* the reconciliation script: its stage, plan and current item

vars == <<now, reservations, creditsUsed, leads, capacity, mail, begun, objects,
          pc, paused, tool>>
database == <<reservations, creditsUsed, leads, capacity, mail, begun>>

--------------------------------------------------------------------------------
Kinds == {"attorney", "prospect"}
Times == 0 .. MaxTime
Day(t) == t \div DayLength

\* The stages of a submission: before a step of the same name, or how it ended.
Working == {"reserve", "upload", "create", "compensate", "list"} \cup Kinds
Stages == Working \cup {"idle", "created", "failed", "dead"}

Reservation == [key : Submissions, at : Times]
Object == [path : Submissions, at : Times]
Attempt == [on : Submissions \X Kinds, day : Times]
Tool == [stage : {"idle", "planned", "check", "delete", "done"},
         at    : Times,                     \* generated_at
         plan  : SUBSET Object,             \* orphan_objects
         left  : SUBSET Object,             \* those not yet handled
         found : SUBSET Object]             \* the one found deletable, if any

Stored(s) == \E o \in objects : o.path = s

Init ==
    /\ now = 0
    /\ reservations = {}
    /\ creditsUsed = [day \in Times |-> 0]
    /\ leads = {}
    /\ capacity = [count |-> 0, bytes |-> 0]
    /\ mail = [s \in Submissions |-> [k \in Kinds |-> "none"]]
    /\ begun = {}
    /\ objects = {}
    /\ pc = [s \in Submissions |-> "idle"]
    /\ paused = FALSE
    /\ tool = [stage |-> "idle", at |-> 0, plan |-> {}, left |-> {}, found |-> {}]

Goto(s, stage) == pc' = [pc EXCEPT ![s] = stage]

--------------------------------------------------------------------------------
(* SubmitLead.                                                                  *)

Submit(s) ==
    /\ pc[s] = "idle"
    /\ ~paused
    /\ Goto(s, "reserve")
    /\ UNCHANGED <<now, database, objects, paused, tool>>

CreditsAvailable == creditsUsed[Day(now)] + 2 <= CreditLimit

\* First transaction: two credits of the current day.
Reserve(s) ==
    /\ pc[s] = "reserve"
    /\ CreditsAvailable
    /\ creditsUsed' = [creditsUsed EXCEPT ![Day(now)] = @ + 2]
    /\ reservations' = reservations \cup {[key |-> s, at |-> now]}
    /\ Goto(s, "upload")
    /\ UNCHANGED <<now, leads, capacity, mail, begun, objects, paused, tool>>

\* Exhausted, or the transaction fails; nothing is uploaded, so nothing is undone.
ReserveFails(s) ==
    /\ pc[s] = "reserve"
    /\ Goto(s, "failed")
    /\ UNCHANGED <<now, database, objects, paused, tool>>

PutObject(s) == objects' = objects \cup {[path |-> s, at |-> now]}

Upload(s) ==
    /\ pc[s] = "upload"
    /\ PutObject(s)
    /\ Goto(s, "create")
    /\ UNCHANGED <<now, database, paused, tool>>

\* Mutant of UploadFails: the lead is created although the upload failed.
UploadFailureIgnored(s) ==
    /\ pc[s] = "upload"
    /\ Goto(s, "create")
    /\ UNCHANGED <<now, database, objects, paused, tool>>

\* The upload raises, and whether the object was stored is not known. "uploaded"
\* is still false, so no compensation follows, and the credits stay spent.
UploadFails(s) ==
    /\ pc[s] = "upload"
    /\ PutObject(s) \/ UNCHANGED objects
    /\ Goto(s, "failed")
    /\ UNCHANGED <<now, database, paused, tool>>

\* create_lead_with_deliveries wants a recent reservation, and the trigger on
\* leads wants room for one more lead and its bytes.
MayCreate(s) ==
    /\ \E r \in reservations : r.key = s /\ now <= r.at + ReservationWindow
    /\ capacity.count + 1 <= LeadLimit
    /\ capacity.bytes + Size[s] <= ByteLimit

\* Mutant of InsertLead: the trigger counts the lead and not its bytes.
InsertLeadUncounted(s) ==
    /\ MayCreate(s)
    /\ leads' = leads \cup {s}
    /\ capacity' = [capacity EXCEPT !.count = @ + 1]
    /\ mail' = [mail EXCEPT ![s] = [k \in Kinds |-> "pending"]]
    /\ UNCHANGED <<now, reservations, creditsUsed, begun, objects, paused, tool>>

InsertLead(s) ==
    /\ MayCreate(s)
    /\ leads' = leads \cup {s}
    /\ capacity' = [count |-> capacity.count + 1, bytes |-> capacity.bytes + Size[s]]
    /\ mail' = [mail EXCEPT ![s] = [k \in Kinds |-> "pending"]]
    /\ UNCHANGED <<now, reservations, creditsUsed, begun, objects, paused, tool>>

Create(s) ==
    /\ pc[s] = "create"
    /\ InsertLead(s)
    /\ Goto(s, "list")

\* Refused by a guard, or the transaction fails: it is rolled back, and the
\* uploaded object is to be deleted.
CreateFails(s) ==
    /\ pc[s] = "create"
    /\ Goto(s, "compensate")
    /\ UNCHANGED <<now, database, objects, paused, tool>>

\* The commit takes effect and its answer does not arrive: SubmitLead handles it
\* like any other exception.
CommitAnswerLost(s) ==
    /\ CommitAnswerMayBeLost
    /\ pc[s] = "create"
    /\ InsertLead(s)
    /\ Goto(s, "compensate")

\* Mutant of Compensate: the credits are given back, to the day it is now.
CompensateRefunding(s) ==
    /\ pc[s] = "compensate"
    /\ objects' = {o \in objects : o.path # s}
    /\ creditsUsed' = [creditsUsed EXCEPT ![Day(now)] = @ - 2]
    /\ Goto(s, "failed")
    /\ UNCHANGED <<now, reservations, leads, capacity, mail, begun, paused, tool>>

Compensate(s) ==
    /\ pc[s] = "compensate"
    /\ objects' = {o \in objects : o.path # s}
    /\ Goto(s, "failed")
    /\ UNCHANGED <<now, database, paused, tool>>

\* The failure of the compensation is logged, and the first error answered.
CompensationFails(s) ==
    /\ pc[s] = "compensate"
    /\ Goto(s, "failed")
    /\ UNCHANGED <<now, database, objects, paused, tool>>

\* The deliveries, in the order of their kind.
List(s) ==
    /\ pc[s] = "list"
    /\ Goto(s, "attorney")
    /\ UNCHANGED <<now, database, objects, paused, tool>>

ListFails(s) ==
    /\ pc[s] = "list"
    /\ Goto(s, "failed")
    /\ UNCHANGED <<now, database, objects, paused, tool>>

ClaimInitial(s, k) ==
    /\ mail[s][k] = "pending"
    /\ mail' = [mail EXCEPT ![s][k] = "claimed"]
    /\ begun' = begun \cup {[on |-> <<s, k>>, day |-> Day(now)]}
    /\ UNCHANGED <<reservations, creditsUsed, leads, capacity>>

\* send_initial for one delivery. Whatever becomes of it (sent, found claimed by
\* a reviewer, or raising), the loop goes on.
SendInitial(s, k) ==
    /\ pc[s] = k
    /\ ClaimInitial(s, k) \/ UNCHANGED database
    /\ Goto(s, IF k = "attorney" THEN "prospect" ELSE "created")
    /\ UNCHANGED <<now, objects, paused, tool>>

\* A reviewer sends a delivery that stayed pending.
RecoverInitial(s, k) ==
    /\ ClaimInitial(s, k)
    /\ UNCHANGED <<now, objects, pc, paused, tool>>

ProcessRestart ==
    /\ \E s \in Submissions : pc[s] \in Working
    /\ pc' = [s \in Submissions |-> IF pc[s] \in Working THEN "dead" ELSE pc[s]]
    /\ UNCHANGED <<now, database, objects, paused, tool>>

--------------------------------------------------------------------------------
(* The storage audit (infra/supabase/scripts/storage_reconcile.py).             *)

Pause ==
    /\ ~paused
    /\ \A s \in Submissions : pc[s] \notin Working
    /\ paused' = TRUE
    /\ UNCHANGED <<now, database, objects, pc, tool>>

Unpause ==
    /\ paused
    /\ tool.stage \notin {"check", "delete"}
    /\ paused' = FALSE
    /\ UNCHANGED <<now, database, objects, pc, tool>>

\* No lead has this path, and the object is the one seen and past its grace.
Deletable(o) ==
    /\ o \in objects
    /\ o.path \notin leads
    /\ o.at + Grace <= now

BuildPlan ==
    /\ tool.stage \in {"idle", "planned", "done"}
    /\ LET orphans == {o \in objects : Deletable(o)}
       IN  tool' = [stage |-> "planned", at |-> now, plan |-> orphans,
                    left |-> orphans, found |-> {}]
    /\ UNCHANGED <<now, database, objects, pc, paused>>

\* Mutant of StartApply: applied while submissions run.
StartApplyUnpaused ==
    /\ tool.stage = "planned"
    /\ now <= tool.at + PlanAge
    /\ tool' = [tool EXCEPT !.stage = "check"]
    /\ UNCHANGED <<now, database, objects, pc, paused>>

\* Applying wants the operator's word that submissions are quiesced, and a plan
\* that is not too old.
StartApply ==
    /\ tool.stage = "planned"
    /\ paused
    /\ now <= tool.at + PlanAge
    /\ tool' = [tool EXCEPT !.stage = "check"]
    /\ UNCHANGED <<now, database, objects, pc, paused>>

CheckItem(o) ==
    /\ tool.stage = "check"
    /\ o \in tool.left
    /\ tool' = IF Deletable(o) THEN [tool EXCEPT !.stage = "delete", !.found = {o}]
               ELSE [tool EXCEPT !.left = @ \ {o}]
    /\ UNCHANGED <<now, database, objects, pc, paused>>

\* Mutant of DeleteItem: the item is counted and its object left.
DeleteItemNot ==
    /\ tool.stage = "delete"
    /\ tool' = [tool EXCEPT !.stage = "check", !.left = @ \ tool.found, !.found = {}]
    /\ UNCHANGED <<now, database, objects, pc, paused>>

DeleteItem ==
    /\ tool.stage = "delete"
    /\ objects' = objects \ tool.found
    /\ tool' = [tool EXCEPT !.stage = "check", !.left = @ \ tool.found, !.found = {}]
    /\ UNCHANGED <<now, database, pc, paused>>

\* The call raises, whether or not the object went, and the script ends.
DeleteFails ==
    /\ tool.stage = "delete"
    /\ objects' \in {objects, objects \ tool.found}
    /\ tool' = [tool EXCEPT !.stage = "idle", !.plan = {}, !.left = {}, !.found = {}]
    /\ UNCHANGED <<now, database, pc, paused>>

FinishApply ==
    /\ tool.stage = "check"
    /\ tool.left = {}
    /\ tool' = [tool EXCEPT !.stage = "done"]
    /\ UNCHANGED <<now, database, objects, pc, paused>>

Tick ==
    /\ now < MaxTime
    /\ now' = now + 1
    /\ UNCHANGED <<database, objects, pc, paused, tool>>

--------------------------------------------------------------------------------
SubmissionStep(s) ==
    \/ Submit(s)
    \/ Reserve(s) \/ ReserveFails(s)
    \/ Upload(s) \/ UploadFails(s)
    \/ Create(s) \/ CreateFails(s) \/ CommitAnswerLost(s)
    \/ Compensate(s) \/ CompensationFails(s)
    \/ List(s) \/ ListFails(s)
    \/ \E k \in Kinds : SendInitial(s, k) \/ RecoverInitial(s, k)

Audit ==
    \/ BuildPlan \/ StartApply
    \/ \E o \in tool.left : CheckItem(o)
    \/ DeleteItem \/ DeleteFails \/ FinishApply

Next ==
    \/ \E s \in Submissions : SubmissionStep(s)
    \/ ProcessRestart
    \/ Pause \/ Unpause
    \/ Audit
    \/ Tick

Spec == Init /\ [][Next]_vars

--------------------------------------------------------------------------------
(* Properties.                                                                  *)

\* Every variable keeps the shape of the table, bucket or local it stands for.
TypeOK ==
    /\ now \in Times
    /\ reservations \subseteq Reservation
    /\ creditsUsed \in [Times -> Nat]
    /\ leads \subseteq Submissions
    /\ capacity \in [count : Nat, bytes : Nat]
    /\ mail \in [Submissions -> [Kinds -> {"none", "pending", "claimed"}]]
    /\ begun \subseteq Attempt
    /\ objects \subseteq Object
    /\ pc \in [Submissions -> Stages]
    /\ paused \in BOOLEAN
    /\ tool \in Tool

\* What a 201 promises ("after the lead and resume are durable"): the lead is
\* there with both its deliveries, and its resume is in the bucket. A lead whose
\* submitter was answered nothing, because the process died, has its resume too:
\* only a submission that was answered an error can have lost it. Neither a
\* failed call, nor a restart, nor an audit with a plan made earlier breaks this.
AcknowledgedDurable ==
    \A s \in Submissions :
        /\ pc[s] = "created" => s \in leads
        /\ s \in leads => \A k \in Kinds : mail[s][k] # "none"
        /\ s \in leads /\ pc[s] \notin {"compensate", "failed"} => Stored(s)

\* Every lead a reviewer can open has its resume.
LeadHasResume == \A s \in leads : Stored(s)

\* The counters the limits are enforced with count what is there: the capacity
\* row the leads and their bytes, a day's budget its reservations, two credits
\* each; neither passes its limit, and no lead exists without a reservation.
CountersExact ==
    /\ capacity.count = Cardinality(leads)
    /\ capacity.bytes = MapThenSumSet(LAMBDA s : Size[s], leads)
    /\ capacity.count <= LeadLimit
    /\ capacity.bytes <= ByteLimit
    /\ \A day \in Times :
          /\ creditsUsed[day] = 2 * Cardinality({r \in reservations : Day(r.at) = day})
          /\ creditsUsed[day] <= CreditLimit
    /\ \A s \in leads : \E r \in reservations : r.key = s

\* The audit removes no resume a lead points to, though the plan it works from
\* was made while submissions ran.
AuditSparesLeads ==
    [][tool.stage = "delete" =>
          \A o \in objects \ objects' : o.path \notin leads]_<<objects, tool>>

\* An audit that ends without an error has done what its plan said: a planned
\* object is gone, or the lead it belongs to has been committed since.
PlanCarriedOut ==
    tool.stage = "done" => \A o \in tool.plan : o \in objects => o.path \in leads

\* No day begins more initial attempts than that day's pool of credits allows
\* (README.md:446: the application budget must permit a send).
DailyMailWithinPool ==
    \A day \in Times :
        Cardinality({a \in begun : a.day = day}) <= CreditLimit

================================================================================
