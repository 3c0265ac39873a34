--------------------------- MODULE LeadIntakeProofs ---------------------------
(* Theorems about LeadIntake, for any submissions, sizes, limits and times.     *)
EXTENDS LeadIntake, FiniteSetTheorems, WellFoundedInduction, TLAPS

\* What the place a submission has reached says of its lead and its object.
SubmissionShape(s) ==
    /\ pc[s] \in {"idle", "reserve", "upload", "create"} => s \notin leads
    /\ pc[s] = "create" => Stored(s)
    /\ pc[s] \in {"list", "created"} \cup Kinds => s \in leads
    /\ s \in leads => \A k \in Kinds : mail[s][k] # "none"
    /\ s \in leads => Stored(s) \/ (CommitAnswerMayBeLost /\ pc[s] = "failed")
    /\ s \in leads /\ pc[s] = "compensate" => CommitAnswerMayBeLost

\* The audit deletes behind a closed door: while it works, no submission does,
\* and what it is about to delete belongs to no lead.
AuditShape ==
    /\ paused => \A s \in Submissions : pc[s] \notin Working
    /\ tool.stage \in {"check", "delete"} => paused
    /\ tool.stage = "delete" => \A o \in tool.found : o.path \notin leads

IInv ==
    /\ TypeOK
    /\ \A s \in Submissions : SubmissionShape(s)
    /\ AuditShape

--------------------------------------------------------------------------------
\* A budget day of the horizon is in the domain of the counters.
LEMMA DayType == ASSUME NEW t \in Times PROVE Day(t) \in Times
  <1>1. DayLength \in Nat \ {0} /\ MaxTime \in Nat
    BY LimitsAssumption
  <1>2. t \div DayLength \in Nat /\ t \div DayLength <= t
    BY <1>1 DEF Times
  <1> QED BY <1>1, <1>2 DEF Day, Times

LEMMA InitInv == Init => IInv
  <1> SUFFICES ASSUME Init PROVE IInv
    OBVIOUS
  <1> USE LimitsAssumption
  <1>1. TypeOK
    <2>1. mail \in [Submissions -> [Kinds -> {"none", "pending", "claimed"}]]
      BY DEF Init
    <2>2. creditsUsed \in [Times -> Nat] /\ pc \in [Submissions -> Stages]
      BY DEF Init, Stages
    <2>3. tool \in Tool /\ now \in Times
      BY DEF Init, Tool, Times
    <2> QED BY <2>1, <2>2, <2>3 DEF Init, TypeOK
  <1>2. \A s \in Submissions : SubmissionShape(s)
    BY DEF Init, SubmissionShape, Kinds
  <1>3. AuditShape
    BY DEF Init, AuditShape
  <1> QED BY <1>1, <1>2, <1>3 DEF IInv

\* Inserting a lead keeps the types of what it writes.
LEMMA InsertType ==
    ASSUME TypeOK, NEW s \in Submissions, InsertLead(s)
    PROVE  /\ leads' \subseteq Submissions
           /\ capacity' \in [count : Nat, bytes : Nat]
           /\ mail' \in [Submissions -> [Kinds -> {"none", "pending", "claimed"}]]
  <1>1. Size[s] \in Nat
    BY SizeAssumption
  <1>2. capacity.count \in Nat /\ capacity.bytes \in Nat
    BY DEF TypeOK
  <1> QED BY <1>1, <1>2 DEF TypeOK, InsertLead

\* Claiming a delivery keeps the types of what it writes.
LEMMA ClaimType ==
    ASSUME TypeOK, NEW s \in Submissions, NEW k \in Kinds, ClaimInitial(s, k)
    PROVE  /\ mail' \in [Submissions -> [Kinds -> {"none", "pending", "claimed"}]]
           /\ begun' \subseteq Attempt
  <1>1. Day(now) \in Times
    BY DayType DEF TypeOK
  <1>2. [on |-> <<s, k>>, day |-> Day(now)] \in Attempt
    BY <1>1 DEF Attempt
  <1> QED BY <1>2 DEF TypeOK, ClaimInitial

\* What a step of the program does to types.
LEMMA StepType == TypeOK /\ [Next]_vars => TypeOK'
  <1> SUFFICES ASSUME TypeOK, [Next]_vars PROVE TypeOK'
    OBVIOUS
  <1> USE LimitsAssumption DEF TypeOK, Working, Stages, Kinds
  <1>1. ASSUME NEW s \in Submissions, Submit(s) PROVE TypeOK'
    BY <1>1 DEF Submit, Goto, database
  <1>2. ASSUME NEW s \in Submissions, Reserve(s) PROVE TypeOK'
    <2>1. [key |-> s, at |-> now] \in Reservation
      BY DEF Reservation
    <2>2. creditsUsed' \in [Times -> Nat]
      BY <1>2, DayType DEF Reserve
    <2> QED BY <1>2, <2>1, <2>2 DEF Reserve, Goto
  <1>3. ASSUME NEW s \in Submissions, ReserveFails(s) PROVE TypeOK'
    BY <1>3 DEF ReserveFails, Goto, database
  <1>4. ASSUME NEW s \in Submissions, Upload(s) \/ UploadFails(s) PROVE TypeOK'
    <2>1. [path |-> s, at |-> now] \in Object
      BY DEF Object
    <2> QED BY <1>4, <2>1 DEF Upload, UploadFails, PutObject, Goto, database
  <1>5. ASSUME NEW s \in Submissions, Create(s) \/ CommitAnswerLost(s) PROVE TypeOK'
    <2>1. InsertLead(s)
      BY <1>5 DEF Create, CommitAnswerLost
    <2>2. pc' \in [Submissions -> Stages]
      BY <1>5 DEF Create, CommitAnswerLost, Goto
    <2>3. UNCHANGED <<now, reservations, creditsUsed, begun, objects, paused, tool>>
      BY <2>1 DEF InsertLead
    <2> QED BY <2>1, <2>2, <2>3, InsertType
  <1>6. ASSUME NEW s \in Submissions,
               CreateFails(s) \/ CompensationFails(s) \/ List(s) \/ ListFails(s)
        PROVE  TypeOK'
    BY <1>6 DEF CreateFails, CompensationFails, List, ListFails, Goto, database
  <1>7. ASSUME NEW s \in Submissions, Compensate(s) PROVE TypeOK'
    BY <1>7 DEF Compensate, Goto, database
  <1>8. ASSUME NEW s \in Submissions, NEW k \in Kinds, SendInitial(s, k) PROVE TypeOK'
    <2>1. pc' \in [Submissions -> Stages]
      BY <1>8 DEF SendInitial, Goto
    <2>2. /\ mail' \in [Submissions -> [Kinds -> {"none", "pending", "claimed"}]]
          /\ begun' \subseteq Attempt
          /\ UNCHANGED <<reservations, creditsUsed, leads, capacity>>
      BY <1>8, ClaimType DEF SendInitial, ClaimInitial, database
    <2> QED BY <1>8, <2>1, <2>2 DEF SendInitial
  <1>9. ASSUME NEW s \in Submissions, NEW k \in Kinds, RecoverInitial(s, k) PROVE TypeOK'
    <2>1. ClaimInitial(s, k) /\ UNCHANGED <<now, objects, pc, paused, tool>>
      BY <1>9 DEF RecoverInitial
    <2>2. UNCHANGED <<reservations, creditsUsed, leads, capacity>>
      BY <2>1 DEF ClaimInitial
    <2> QED BY <2>1, <2>2, ClaimType
  <1>10. CASE ProcessRestart
    BY <1>10 DEF ProcessRestart, database
  <1>11. CASE Pause \/ Unpause
    BY <1>11 DEF Pause, Unpause, database
  <1>12. CASE Audit
    <2>1. tool' \in Tool
      <3>1. CASE BuildPlan
        BY <1>12, <3>1 DEF BuildPlan, Tool
      <3>2. CASE StartApply \/ FinishApply
        BY <3>2 DEF StartApply, FinishApply, Tool
      <3>3. ASSUME NEW o \in tool.left, CheckItem(o) PROVE tool' \in Tool
        <4>1. /\ tool.left \ {o} \in SUBSET Object
              /\ {o} \in SUBSET Object
          BY <3>3 DEF Tool
        <4>2. \/ tool' = [tool EXCEPT !.stage = "delete", !.found = {o}]
              \/ tool' = [tool EXCEPT !.left = @ \ {o}]
          BY <3>3 DEF CheckItem
        <4> QED BY <4>1, <4>2 DEF Tool
      <3>4. CASE DeleteItem \/ DeleteFails
        <4>1. /\ tool.left \ tool.found \in SUBSET Object
              /\ {} \in SUBSET Object
          BY DEF Tool
        <4> QED BY <3>4, <4>1 DEF DeleteItem, DeleteFails, Tool
      <3> QED BY <1>12, <3>1, <3>2, <3>3, <3>4 DEF Audit
    <2>2. objects' \subseteq Object
      BY <1>12 DEF Audit, BuildPlan, StartApply, CheckItem, DeleteItem, DeleteFails,
                   FinishApply
    <2>3. UNCHANGED <<now, database, pc, paused>>
      BY <1>12 DEF Audit, BuildPlan, StartApply, CheckItem, DeleteItem, DeleteFails,
                   FinishApply
    <2> QED BY <2>1, <2>2, <2>3 DEF database
  <1>13. CASE Tick
    BY <1>13 DEF Tick, database, Times
  <1>14. CASE UNCHANGED vars
    BY <1>14 DEF vars
  <1> QED
    BY <1>1, <1>2, <1>3, <1>4, <1>5, <1>6, <1>7, <1>8, <1>9, <1>10, <1>11, <1>12,
       <1>13, <1>14 DEF Next, SubmissionStep

--------------------------------------------------------------------------------
(* The steps and the shapes.                                                    *)

\* A step that changes neither leads, deliveries nor the bucket keeps the shape
\* of a submission that stays where it is.
LEMMA StayShape ==
    ASSUME NEW s \in Submissions, SubmissionShape(s),
           UNCHANGED <<leads, mail, objects>>, pc'[s] = pc[s]
    PROVE  SubmissionShape(s)'
  BY DEF SubmissionShape, Stored

\* A submission's own step keeps every submission's shape.
LEMMA SubmissionStepShape ==
    ASSUME IInv, NEW s \in Submissions, SubmissionStep(s), NEW t \in Submissions
    PROVE  SubmissionShape(t)'
  <1> USE DEF Kinds, Working
  <1>0. /\ TypeOK /\ SubmissionShape(s) /\ SubmissionShape(t)
        /\ pc \in [Submissions -> Stages]
        /\ mail \in [Submissions -> [Kinds -> {"none", "pending", "claimed"}]]
    BY DEF IInv, TypeOK
  <1>1. CASE Submit(s) \/ Reserve(s) \/ ReserveFails(s)
    BY <1>0, <1>1 DEF Submit, Reserve, ReserveFails, Goto, database, SubmissionShape, Stored
  <1>2. CASE Upload(s) \/ UploadFails(s)
    <2>1. \A u \in Submissions : Stored(u) => Stored(u)'
      BY <1>2 DEF Upload, UploadFails, PutObject, Stored
    <2>2. ASSUME Upload(s) PROVE Stored(s)'
      <3>1. [path |-> s, at |-> now] \in objects'
        BY <2>2 DEF Upload, PutObject
      <3> QED BY <3>1 DEF Stored
    <2>3. /\ leads' = leads /\ mail' = mail
          /\ s \notin leads
          /\ pc'[s] = "failed" \/ (Upload(s) /\ pc'[s] = "create")
          /\ t # s => pc'[t] = pc[t]
      BY <1>0, <1>2 DEF Upload, UploadFails, Goto, database, SubmissionShape
    <2>4. CASE t = s
      BY <2>2, <2>3, <2>4 DEF SubmissionShape
    <2>5. CASE t # s
      BY <1>0, <2>1, <2>3, <2>5 DEF SubmissionShape
    <2> QED BY <2>4, <2>5
  <1>3. CASE Create(s) \/ CommitAnswerLost(s)
    <2>1. InsertLead(s) /\ pc[s] = "create"
      BY <1>3 DEF Create, CommitAnswerLost
    <2>2. /\ leads' = leads \cup {s}
          /\ mail' = [mail EXCEPT ![s] = [k \in Kinds |-> "pending"]]
          /\ objects' = objects
      BY <2>1 DEF InsertLead
    <2>3. CASE t = s
      <3>1. Stored(s)' /\ s \in leads' /\ \A k \in Kinds : mail'[s][k] # "none"
        BY <1>0, <2>1, <2>2 DEF SubmissionShape, Stored
      <3> QED BY <1>0, <1>3, <2>3, <3>1 DEF Create, CommitAnswerLost, Goto, SubmissionShape
    <2>4. CASE t # s
      <3>1. pc'[t] = pc[t] /\ mail'[t] = mail[t] /\ (t \in leads' <=> t \in leads)
        BY <1>0, <1>3, <2>2, <2>4 DEF Create, CommitAnswerLost, Goto
      <3> QED BY <1>0, <2>2, <3>1 DEF SubmissionShape, Stored
    <2> QED BY <2>3, <2>4
  <1>4. CASE CreateFails(s) \/ CompensationFails(s) \/ List(s) \/ ListFails(s)
    BY <1>0, <1>4 DEF CreateFails, CompensationFails, List, ListFails, Goto, database,
                      SubmissionShape, Stored
  <1>5. CASE Compensate(s)
    <2>1. t # s => (Stored(t)' <=> Stored(t))
      BY <1>5 DEF Compensate, Stored
    <2> QED BY <1>0, <1>5, <2>1 DEF Compensate, Goto, database, SubmissionShape
  <1>6. ASSUME NEW k \in Kinds, SendInitial(s, k) \/ RecoverInitial(s, k)
        PROVE  SubmissionShape(t)'
    <2>1. \A j \in Kinds : mail[t][j] # "none" => mail'[t][j] # "none"
      BY <1>0, <1>6 DEF SendInitial, RecoverInitial, ClaimInitial, database
    <2>2. leads' = leads /\ objects' = objects
      BY <1>6 DEF SendInitial, RecoverInitial, ClaimInitial, database
    <2>3. \/ pc'[t] = pc[t]
          \/ pc[t] \in Kinds /\ pc'[t] \in {"prospect", "created"}
      BY <1>0, <1>6 DEF SendInitial, RecoverInitial, Goto
    <2> QED BY <1>0, <2>1, <2>2, <2>3 DEF SubmissionShape, Stored
  <1> QED BY <1>1, <1>2, <1>3, <1>4, <1>5, <1>6 DEF SubmissionStep

\* Where no submission works, the audit deletes only what belongs to no lead.
LEMMA AuditSpares ==
    ASSUME IInv, Audit
    PROVE  /\ UNCHANGED <<now, database, pc, paused>>
           /\ \A s \in leads : Stored(s) => Stored(s)'
           /\ objects' # objects => tool.stage = "delete"
  <1>1. UNCHANGED <<now, database, pc, paused>>
    BY DEF Audit, BuildPlan, StartApply, CheckItem, DeleteItem, DeleteFails, FinishApply
  <1>2. \/ objects' = objects
        \/ tool.stage = "delete" /\ objects' = objects \ tool.found
    BY DEF Audit, BuildPlan, StartApply, CheckItem, DeleteItem, DeleteFails, FinishApply
  <1>3. tool.stage = "delete" => \A o \in tool.found : o.path \notin leads
    BY DEF IInv, AuditShape
  <1> QED BY <1>1, <1>2, <1>3 DEF Stored

LEMMA StepInv == IInv /\ [Next]_vars => IInv'
  <1> SUFFICES ASSUME IInv, [Next]_vars PROVE IInv'
    OBVIOUS
  <1>1. TypeOK'
    BY StepType DEF IInv
  <1>2. ASSUME NEW t \in Submissions PROVE SubmissionShape(t)'
    <2>0. TypeOK /\ SubmissionShape(t) /\ AuditShape
      BY DEF IInv
    <2>1. CASE \E s \in Submissions : SubmissionStep(s)
      BY <2>1, SubmissionStepShape
    <2>2. CASE ProcessRestart
      BY <2>0, <2>2 DEF ProcessRestart, database, SubmissionShape, Stored, TypeOK,
                        Working, Kinds
    <2>3. CASE Pause \/ Unpause \/ Tick \/ UNCHANGED vars
      BY <2>0, <2>3, StayShape DEF Pause, Unpause, Tick, vars, database
    <2>4. CASE Audit
      <3>1. /\ UNCHANGED <<leads, mail, pc>>
            /\ \A s \in leads : Stored(s) => Stored(s)'
            /\ objects' # objects => tool.stage = "delete"
        BY <2>4, AuditSpares DEF database
      <3>2. tool.stage = "delete" => pc[t] # "create"
        BY <2>0 DEF AuditShape, Working
      <3> QED BY <2>0, <3>1, <3>2 DEF SubmissionShape, Stored
    <2> QED BY <2>1, <2>2, <2>3, <2>4 DEF Next
  <1>3. AuditShape'
    <2>0. TypeOK /\ AuditShape /\ pc \in [Submissions -> Stages]
      BY DEF IInv, TypeOK
    <2>1. ASSUME NEW s \in Submissions, SubmissionStep(s) PROVE AuditShape'
      <3>1. tool' = tool /\ paused' = paused
        BY <2>1 DEF SubmissionStep, Submit, Reserve, ReserveFails, Upload, UploadFails,
             Create, CreateFails, CommitAnswerLost, InsertLead, Compensate,
             CompensationFails, List, ListFails, SendInitial, RecoverInitial
      <3>2. CASE paused
        <4>1. pc[s] \notin Working
          BY <2>0, <3>2 DEF AuditShape
        <4>2. \E k \in Kinds : RecoverInitial(s, k)
          BY <2>1, <3>2, <4>1 DEF SubmissionStep, Submit, Reserve, ReserveFails, Upload,
             UploadFails, Create, CreateFails, CommitAnswerLost, Compensate,
             CompensationFails, List, ListFails, SendInitial, Working
        <4>3. leads' = leads /\ pc' = pc
          BY <4>2 DEF RecoverInitial, ClaimInitial
        <4> QED BY <2>0, <3>1, <4>3 DEF AuditShape
      <3>3. CASE ~paused
        BY <2>0, <3>1, <3>3 DEF AuditShape
      <3> QED BY <3>2, <3>3
    <2>2. CASE ProcessRestart
      BY <2>0, <2>2 DEF ProcessRestart, AuditShape, database, Working, Kinds
    <2>3. CASE Pause \/ Unpause \/ Tick \/ UNCHANGED vars
      BY <2>0, <2>3 DEF Pause, Unpause, Tick, vars, database, AuditShape
    <2>4. CASE Audit
      <3>1. UNCHANGED <<leads, pc, paused>>
        BY <2>4, AuditSpares DEF database
      <3>2. tool \in Tool
        BY <2>0 DEF TypeOK
      <3>5. /\ BuildPlan => tool'.stage = "planned"
            /\ StartApply => tool'.stage = "check" /\ paused
            /\ DeleteItem => tool'.stage = "check" /\ tool.stage = "delete"
            /\ DeleteFails => tool'.stage = "idle"
            /\ FinishApply => tool'.stage = "done"
            /\ \A o \in tool.left : CheckItem(o) => tool.stage = "check"
        <4>1. BuildPlan => tool'.stage = "planned"
          BY DEF BuildPlan
        <4>2. StartApply => tool'.stage = "check" /\ paused
          BY <3>2 DEF StartApply, Tool
        <4>3. DeleteItem => tool'.stage = "check" /\ tool.stage = "delete"
          BY <3>2 DEF DeleteItem, Tool
        <4>4. DeleteFails => tool'.stage = "idle"
          BY <3>2 DEF DeleteFails, Tool
        <4>5. FinishApply => tool'.stage = "done"
          BY <3>2 DEF FinishApply, Tool
        <4> QED BY <4>1, <4>2, <4>3, <4>4, <4>5 DEF CheckItem
      <3>3. tool'.stage \in {"check", "delete"} => paused
        BY <2>0, <2>4, <3>5 DEF Audit, AuditShape
      <3>4. ASSUME tool'.stage = "delete" PROVE \A o \in tool'.found : o.path \notin leads
        <4>1. PICK o \in tool.left : CheckItem(o)
          BY <2>4, <3>5, <3>4 DEF Audit
        <4>2. Deletable(o) /\ tool'.found = {o}
          BY <3>2, <3>4, <4>1 DEF CheckItem, Tool
        <4> QED BY <4>2 DEF Deletable
      <3> QED BY <2>0, <3>1, <3>3, <3>4 DEF AuditShape
    <2> QED BY <2>1, <2>2, <2>3, <2>4 DEF Next
  <1> QED BY <1>1, <1>2, <1>3 DEF IInv

--------------------------------------------------------------------------------
(* Theorems.                                                                    *)

\* The invariant the theorems about submission and audit rest on: IInv holds at every
\* step of SubmitLead (application.py) and of the storage audit.
THEOREM Invariance == Spec => []IInv
  BY InitInv, StepInv, PTL DEF Spec

\* Every variable keeps its type.
THEOREM TypeCorrect == Spec => []TypeOK
  <1>1. IInv => TypeOK
    BY DEF IInv
  <1> QED BY <1>1, Invariance, PTL

\* A 201 is only answered for a lead that is durable with its resume, whichever
\* calls fail, whenever the process dies, and whether or not the answers to
\* commits can be lost.
THEOREM Durability == Spec => []AcknowledgedDurable
  <1>1. IInv => AcknowledgedDurable
    BY DEF IInv, SubmissionShape, AcknowledgedDurable
  <1> QED BY <1>1, Invariance, PTL

\* When a commit that took effect is never reported as an error, no lead is ever
\* without its resume: the lost answer of a commit is the only way to lose one.
THEOREM ResumeKept == ~CommitAnswerMayBeLost => (Spec => []LeadHasResume)
  <1> SUFFICES ASSUME ~CommitAnswerMayBeLost PROVE Spec => []LeadHasResume
    OBVIOUS
  <1>1. IInv => LeadHasResume
    BY DEF IInv, SubmissionShape, LeadHasResume, TypeOK
  <1> QED BY <1>1, Invariance, PTL

\* The audit removes no resume a lead points to.
THEOREM AuditSafe == Spec => AuditSparesLeads
  <1>1. IInv /\ [Next]_vars =>
           [tool.stage = "delete" =>
               \A o \in objects \ objects' : o.path \notin leads]_<<objects, tool>>
    <2> SUFFICES ASSUME IInv, [Next]_vars, tool.stage = "delete",
                        NEW o \in objects \ objects'
                 PROVE  o.path \notin leads
      OBVIOUS
    <2>1. paused /\ \A s \in Submissions : pc[s] \notin Working
      BY DEF IInv, AuditShape
    <2>2. objects' # objects
      OBVIOUS
    <2>3. Audit
      BY <2>1, <2>2 DEF Next, SubmissionStep, Submit, Reserve, ReserveFails, Upload,
           UploadFails, Create, CreateFails, CommitAnswerLost, Compensate,
           CompensationFails, List, ListFails, SendInitial, RecoverInitial,
           ProcessRestart, Pause, Unpause, Tick, vars, Working
    <2>4. o \in tool.found
      BY <2>3, <2>2 DEF Audit, BuildPlan, StartApply, CheckItem, DeleteItem, DeleteFails,
           FinishApply
    <2> QED BY <2>4 DEF IInv, AuditShape
  <1> QED BY <1>1, Invariance, PTL DEF Spec, AuditSparesLeads

--------------------------------------------------------------------------------
(* What an applied plan has done.                                               *)

\* An object exists only once its submission has uploaded it, so a path is never
\* stored again after the audit has seen it; every planned object is past its
\* grace, and one already handled is gone or a lead's.
PlanShape ==
    /\ tool.left \subseteq tool.plan
    /\ tool.stage = "done" => tool.left = {}
    /\ \A o \in objects \cup tool.plan : pc[o.path] \notin {"idle", "reserve", "upload"}
    /\ \A o \in tool.plan : o.at + Grace <= now
    /\ tool.stage = "planned" => tool.left = tool.plan
    /\ tool.stage \in {"check", "delete", "done"} =>
          \A o \in tool.plan \ tool.left : o \in objects => o.path \in leads

LEMMA InitPlan == Init => PlanShape
  BY DEF Init, PlanShape

\* A submission's own step: it leaves the audit alone, keeps every lead, and
\* stores an object only under the path of a submission that is then past it.
LEMMA SubmissionStepPlan ==
    ASSUME IInv, PlanShape, NEW s \in Submissions, SubmissionStep(s)
    PROVE  PlanShape'
  <1> USE DEF Kinds, Stages, Working
  <1>0. /\ pc \in [Submissions -> Stages] /\ objects \subseteq Object
        /\ tool.plan \subseteq Object
    BY DEF IInv, TypeOK, Tool
  <1>1. tool' = tool /\ now' = now /\ leads \subseteq leads'
    BY DEF SubmissionStep, Submit, Reserve, ReserveFails, Upload, UploadFails, Create,
         CreateFails, CommitAnswerLost, InsertLead, Compensate, CompensationFails,
         List, ListFails, SendInitial, RecoverInitial, ClaimInitial, database
  <1>2. \/ objects' \subseteq objects
        \/ pc[s] = "upload" /\ objects' = objects \cup {[path |-> s, at |-> now]}
    BY DEF SubmissionStep, Submit, Reserve, ReserveFails, Upload, UploadFails, PutObject,
         Create, CreateFails, CommitAnswerLost, InsertLead, Compensate,
         CompensationFails, List, ListFails, SendInitial, RecoverInitial
  <1>3. \A u \in Submissions :
           /\ pc[u] \notin {"idle", "reserve", "upload"} =>
                 pc'[u] \notin {"idle", "reserve", "upload"}
           /\ u = s /\ pc[u] = "upload" => pc'[u] \in {"create", "failed", "upload"}
    BY <1>0 DEF SubmissionStep, Submit, Reserve, ReserveFails, Upload, UploadFails,
         Create, CreateFails, CommitAnswerLost, Compensate, CompensationFails,
         List, ListFails, SendInitial, RecoverInitial, Goto
  <1>4. objects' = objects \/ pc'[s] # "upload"
    BY <1>0 DEF SubmissionStep, Submit, Reserve, ReserveFails, Upload, UploadFails,
         Create, CreateFails, CommitAnswerLost, InsertLead, Compensate,
         CompensationFails, List, ListFails, SendInitial, RecoverInitial, Goto
  <1>5. ASSUME NEW o \in objects' \cup tool.plan
        PROVE  pc'[o.path] \notin {"idle", "reserve", "upload"}
    <2>1. CASE o \in objects \cup tool.plan
      BY <1>0, <1>3, <2>1 DEF PlanShape, Object
    <2>2. CASE o \notin objects \cup tool.plan
      <3>1. pc[s] = "upload" /\ o = [path |-> s, at |-> now] /\ objects' # objects
        BY <1>2, <2>2
      <3> QED BY <1>3, <1>4, <3>1
    <2> QED BY <2>1, <2>2
  <1>6. ASSUME NEW o \in tool.plan, o \in objects' PROVE o \in objects
    <2>1. pc[o.path] # "upload"
      BY DEF PlanShape
    <2> QED BY <1>2, <1>6, <2>1
  <1> QED BY <1>1, <1>5, <1>6 DEF PlanShape

LEMMA AuditPlan ==
    ASSUME IInv, PlanShape, Audit
    PROVE  PlanShape'
  <1>0. /\ tool \in Tool /\ objects \subseteq Object
        /\ UNCHANGED <<now, leads, pc>>
    BY AuditSpares DEF IInv, TypeOK, database
  <1>1. CASE BuildPlan
    <2>1. /\ objects' = objects /\ tool'.stage = "planned" /\ tool'.left = tool'.plan
          /\ \A o \in tool'.plan : o \in objects /\ Deletable(o)
      BY <1>1 DEF BuildPlan
    <2> QED BY <1>0, <2>1 DEF PlanShape, Deletable
  <1>2. CASE StartApply \/ FinishApply
    <2>1. /\ objects' = objects /\ tool'.plan = tool.plan /\ tool'.left = tool.left
          /\ \/ tool.stage = "planned" /\ tool'.stage = "check"
             \/ tool.stage = "check" /\ tool'.stage = "done" /\ tool.left = {}
      BY <1>0, <1>2 DEF StartApply, FinishApply, Tool
    <2> QED BY <1>0, <2>1 DEF PlanShape
  <1>3. ASSUME NEW o \in tool.left, CheckItem(o) PROVE PlanShape'
    <2>1. CASE Deletable(o)
      <3>1. /\ objects' = objects /\ tool'.plan = tool.plan /\ tool'.left = tool.left
            /\ tool.stage = "check" /\ tool'.stage = "delete"
        BY <1>0, <1>3, <2>1 DEF CheckItem, Tool
      <3> QED BY <1>0, <3>1 DEF PlanShape
    <2>2. CASE ~Deletable(o)
      <3>1. /\ objects' = objects /\ tool'.plan = tool.plan
            /\ tool'.left = tool.left \ {o}
            /\ tool.stage = "check" /\ tool'.stage = "check"
        BY <1>0, <1>3, <2>2 DEF CheckItem, Tool
      <3>2. o \in objects => o.path \in leads
        BY <2>2 DEF PlanShape, Deletable
      <3> QED BY <1>0, <3>1, <3>2 DEF PlanShape
    <2> QED BY <2>1, <2>2
  <1>4. CASE DeleteItem
    <2>1. /\ objects' = objects \ tool.found /\ tool'.plan = tool.plan
          /\ tool'.left = tool.left \ tool.found
          /\ tool.stage = "delete" /\ tool'.stage = "check"
      BY <1>0, <1>4 DEF DeleteItem, Tool
    <2> QED BY <1>0, <2>1 DEF PlanShape
  <1>5. CASE DeleteFails
    <2>1. /\ objects' \subseteq objects /\ tool'.plan = {} /\ tool'.left = {}
          /\ tool'.stage = "idle"
      BY <1>0, <1>5 DEF DeleteFails, Tool
    <2> QED BY <1>0, <2>1 DEF PlanShape
  <1> QED BY <1>1, <1>2, <1>3, <1>4, <1>5 DEF Audit

LEMMA StepPlan == IInv /\ PlanShape /\ [Next]_vars => PlanShape'
  <1> SUFFICES ASSUME IInv, PlanShape, [Next]_vars PROVE PlanShape'
    OBVIOUS
  <1>0. /\ pc \in [Submissions -> Stages] /\ objects \subseteq Object
        /\ tool.plan \subseteq Object /\ now \in Nat /\ Grace \in Nat
        /\ \A o \in Object : o.at \in Nat /\ o.path \in Submissions
    BY LimitsAssumption DEF IInv, TypeOK, Tool, Times, Object
  <1>1. CASE \E s \in Submissions : SubmissionStep(s)
    BY <1>1, SubmissionStepPlan
  <1>2. CASE ProcessRestart
    <2>1. UNCHANGED <<now, leads, objects, tool>>
      BY <1>2 DEF ProcessRestart, database
    <2>2. \A u \in Submissions : pc'[u] \in {pc[u], "dead"}
      BY <1>2 DEF ProcessRestart
    <2> QED BY <1>0, <2>1, <2>2 DEF PlanShape
  <1>3. CASE Pause \/ Unpause \/ UNCHANGED vars
    BY <1>3 DEF Pause, Unpause, vars, database, PlanShape
  <1>4. CASE Tick
    <2>1. UNCHANGED <<leads, objects, pc, tool>> /\ now' = now + 1
      BY <1>4 DEF Tick, database
    <2>2. \A o \in tool.plan : o.at + Grace <= now + 1
      BY <1>0 DEF PlanShape
    <2> QED BY <2>1, <2>2 DEF PlanShape
  <1>5. CASE Audit
    BY <1>5, AuditPlan
  <1> QED BY <1>1, <1>2, <1>3, <1>4, <1>5 DEF Next

\* An audit that ends without an error has done what its plan said, whatever
\* was submitted between the plan and its application.
THEOREM AuditCompletes == Spec => []PlanCarriedOut
  <1>1. IInv /\ PlanShape => PlanCarriedOut
    BY DEF PlanShape, PlanCarriedOut
  <1>2. Spec => []PlanShape
    BY InitPlan, StepPlan, Invariance, PTL DEF Spec
  <1> QED BY <1>1, <1>2, Invariance, PTL

--------------------------------------------------------------------------------
(* The bytes of a finite set of leads, as MapThenSumSet adds them up: one chosen *)
(* member after the other. What it yields does not depend on the choices.        *)

Chosen(S) == CHOOSE x \in S : TRUE

Sums(f, A) ==
    f = [S \in SUBSET A |-> IF S = {} THEN 0
                            ELSE Size[Chosen(S)] + f[S \ {Chosen(S)}]]

SumsOf(A) == CHOOSE f : Sums(f, A)

Bytes(S) == SumsOf(S)[S]

LEMMA BytesAreTheSum ==
    ASSUME NEW S
    PROVE  MapThenSumSet(LAMBDA s : Size[s], S) = Bytes(S)
  BY DEF MapThenSumSet, MapThenFoldSet, Bytes, SumsOf, Sums, Chosen

\* Among subsets of a finite set there is one that contains no other.
LEMMA SmallestSubset ==
    ASSUME NEW A, IsFiniteSet(A), NEW T, T \subseteq SUBSET A, T # {}
    PROVE  \E S \in T : \A R \in T : R \subseteq S => R = S
  <1>1. T \subseteq FiniteSubsetsOf(A)
    BY FS_FiniteSubsetsOfFinite
  <1>2. PICK S \in T : \A R \in T : <<R, S>> \notin StrictSubsetOrdering(A)
    BY <1>1, FS_StrictSubsetOrderingWellFounded, WFMin
  <1>3. ASSUME NEW R \in T, R \subseteq S, R # S PROVE FALSE
    BY <1>2, <1>3 DEF StrictSubsetOrdering
  <1> QED BY <1>2, <1>3

LEMMA ChosenMember == ASSUME NEW S, S # {} PROVE Chosen(S) \in S
  BY DEF Chosen

\* What Sums says at one subset.
LEMMA SumsAt ==
    ASSUME NEW A, NEW f, Sums(f, A), NEW S \in SUBSET A
    PROVE  /\ S = {} => f[S] = 0
           /\ S # {} => f[S] = Size[Chosen(S)] + f[S \ {Chosen(S)}]
  BY DEF Sums

LEMMA SumsType ==
    ASSUME NEW A \in SUBSET Submissions, IsFiniteSet(A), NEW f, Sums(f, A)
    PROVE  \A S \in SUBSET A : f[S] \in Nat
  <1> DEFINE T == {S \in SUBSET A : f[S] \notin Nat}
  <1> SUFFICES ASSUME T # {} PROVE FALSE
    OBVIOUS
  <1>0. \E S \in T : \A R \in T : R \subseteq S => R = S
    <2>1. T \subseteq SUBSET A
      OBVIOUS
    <2> HIDE DEF T
    <2> QED BY <2>1, SmallestSubset
  <1>1. PICK S \in T : \A R \in T : R \subseteq S => R = S
    BY <1>0
  <1>2. S # {}
    <2>1. S \in SUBSET A /\ f[S] \notin Nat
      OBVIOUS
    <2>2. S = {} => f[S] = 0
      BY <2>1, SumsAt
    <2> QED BY <2>1, <2>2
  <1>3. /\ Chosen(S) \in S /\ S \ {Chosen(S)} \in SUBSET A
        /\ S \ {Chosen(S)} # S
    BY <1>2, ChosenMember
  <1>4. f[S \ {Chosen(S)}] \in Nat
    BY <1>1, <1>3
  <1>5. Size[Chosen(S)] \in Nat
    BY <1>3, SizeAssumption
  <1> QED BY <1>2, <1>4, <1>5, SumsAt

LEMMA SumsAgree ==
    ASSUME NEW A, IsFiniteSet(A), NEW B, NEW f, NEW g, Sums(f, A), Sums(g, B)
    PROVE  \A S \in SUBSET A : S \subseteq B => f[S] = g[S]
  <1> DEFINE T == {S \in SUBSET A : S \subseteq B /\ f[S] # g[S]}
  <1> SUFFICES ASSUME T # {} PROVE FALSE
    OBVIOUS
  <1>0. \E S \in T : \A R \in T : R \subseteq S => R = S
    <2>1. T \subseteq SUBSET A
      OBVIOUS
    <2> HIDE DEF T
    <2> QED BY <2>1, SmallestSubset
  <1>1. PICK S \in T : \A R \in T : R \subseteq S => R = S
    BY <1>0
  <1>2. S # {}
    BY SumsAt
  <1>3. /\ S \ {Chosen(S)} \in SUBSET A /\ S \ {Chosen(S)} \subseteq B
        /\ S \ {Chosen(S)} # S
    BY <1>2, ChosenMember
  <1>4. f[S \ {Chosen(S)}] = g[S \ {Chosen(S)}]
    BY <1>1, <1>3
  <1>5. S \in SUBSET A /\ S \in SUBSET B /\ f[S] # g[S]
    OBVIOUS
  <1> HIDE DEF T
  <1>6. f[S] = Size[Chosen(S)] + f[S \ {Chosen(S)}]
    BY <1>2, <1>5, SumsAt
  <1>7. g[S] = Size[Chosen(S)] + g[S \ {Chosen(S)}]
    BY <1>2, <1>5, SumsAt
  <1> QED BY <1>4, <1>5, <1>6, <1>7

LEMMA SumsExist ==
    ASSUME NEW A, IsFiniteSet(A)
    PROVE  Sums(SumsOf(A), A)
  <1> DEFINE T == {S \in SUBSET A : ~ Sums(SumsOf(S), S)}
  <1> SUFFICES ASSUME T # {} PROVE FALSE
    OBVIOUS
  <1>0. \E S \in T : \A R \in T : R \subseteq S => R = S
    <2>1. T \subseteq SUBSET A
      OBVIOUS
    <2> HIDE DEF T
    <2> QED BY <2>1, SmallestSubset
  <1>1. PICK S \in T : \A R \in T : R \subseteq S => R = S
    BY <1>0
  <1>2. ASSUME NEW R, R \subseteq S, R # S PROVE Sums(SumsOf(R), R)
    BY <1>1, <1>2
  <1> DEFINE Less(R) == R \ {Chosen(R)}
             g == [R \in SUBSET S |-> IF R = {} THEN 0
                                      ELSE Size[Chosen(R)] + Bytes(Less(R))]
  <1>3. ASSUME NEW R \in SUBSET S, R # {} PROVE Less(R) \subseteq S /\ Less(R) # S
    BY <1>3, ChosenMember
  <1>4. ASSUME NEW R \in SUBSET S, R # S PROVE g[R] = Bytes(R)
    <2>1. Sums(SumsOf(R), R) /\ R \in SUBSET R
      BY <1>2, <1>4
    <2>2. CASE R = {}
      BY <2>1, <2>2, SumsAt DEF Bytes
    <2>3. CASE R # {}
      <3>1. Bytes(R) = Size[Chosen(R)] + SumsOf(R)[Less(R)]
        BY <2>1, <2>3, SumsAt DEF Bytes
      <3>2. Sums(SumsOf(Less(R)), Less(R)) /\ IsFiniteSet(Less(R))
        BY <1>2, <1>3, <2>3, FS_Subset
      <3>3. SumsOf(Less(R))[Less(R)] = SumsOf(R)[Less(R)]
        <4>1. Less(R) \in SUBSET Less(R) /\ Less(R) \subseteq R
          OBVIOUS
        <4> HIDE DEF Less
        <4> QED BY <2>1, <3>2, <4>1, SumsAgree
      <3> QED BY <2>3, <3>1, <3>3 DEF Bytes
    <2> QED BY <2>2, <2>3
  <1>5. Sums(g, S)
    <2>1. ASSUME NEW R \in SUBSET S, R # {} PROVE g[Less(R)] = Bytes(Less(R))
      BY <1>3, <1>4, <2>1
    <2>2. ASSUME NEW R \in SUBSET S
          PROVE  g[R] = IF R = {} THEN 0 ELSE Size[Chosen(R)] + g[Less(R)]
      BY <2>1
    <2>3. g = [R \in SUBSET S |-> g[R]]
      OBVIOUS
    <2> HIDE DEF g
    <2> QED BY <2>2, <2>3 DEF Sums
  <1>6. Sums(SumsOf(S), S)
    BY <1>5 DEF SumsOf
  <1> QED BY <1>6

\* Whichever member is taken out, the rest lacks exactly its bytes.
LEMMA SumsWithout ==
    ASSUME NEW A \in SUBSET Submissions, IsFiniteSet(A), NEW f, Sums(f, A)
    PROVE  \A S \in SUBSET A : \A x \in S : f[S] = Size[x] + f[S \ {x}]
  <1> DEFINE T == {S \in SUBSET A : \E x \in S : f[S] # Size[x] + f[S \ {x}]}
  <1> SUFFICES ASSUME T # {} PROVE FALSE
    OBVIOUS
  <1>0. \E S \in T : \A R \in T : R \subseteq S => R = S
    <2>1. T \subseteq SUBSET A
      OBVIOUS
    <2> HIDE DEF T
    <2> QED BY <2>1, SmallestSubset
  <1>1. PICK S \in T : \A R \in T : R \subseteq S => R = S
    BY <1>0
  <1>2. PICK x \in S : f[S] # Size[x] + f[S \ {x}]
    OBVIOUS
  <1> DEFINE c == Chosen(S)
  <1>3. c \in S /\ f[S] = Size[c] + f[S \ {c}]
    BY ChosenMember, SumsAt
  <1>4. c # x
    BY <1>2, <1>3
  <1>5. /\ S \ {c} \in SUBSET A /\ x \in S \ {c} /\ S \ {c} # S
        /\ S \ {x} \in SUBSET A /\ c \in S \ {x} /\ S \ {x} # S
        /\ (S \ {c}) \ {x} = (S \ {x}) \ {c}
        /\ (S \ {c}) \ {x} \in SUBSET A
    BY <1>3, <1>4
  <1> HIDE DEF c
  <1>6. f[S \ {c}] = Size[x] + f[(S \ {c}) \ {x}]
    BY <1>1, <1>5
  <1>7. f[S \ {x}] = Size[c] + f[(S \ {x}) \ {c}]
    BY <1>1, <1>5
  <1>8. Size[x] \in Nat /\ Size[c] \in Nat /\ f[(S \ {c}) \ {x}] \in Nat
    BY <1>3, <1>5, SumsType, SizeAssumption
  <1>9. f[(S \ {x}) \ {c}] = f[(S \ {c}) \ {x}]
    BY <1>5
  <1> QED BY <1>2, <1>3, <1>6, <1>7, <1>8, <1>9

LEMMA BytesEmpty == Bytes({}) = 0
  <1>1. IsFiniteSet({})
    BY FS_EmptySet
  <1> QED BY <1>1, SumsExist, SumsAt DEF Bytes

LEMMA BytesAdd ==
    ASSUME NEW S \in SUBSET Submissions, IsFiniteSet(S), NEW x \in Submissions \ S
    PROVE  Bytes(S) \in Nat /\ Bytes(S \cup {x}) = Bytes(S) + Size[x]
  <1> DEFINE A == S \cup {x}
  <1>1. /\ A \in SUBSET Submissions /\ IsFiniteSet(A) /\ A \in SUBSET A
        /\ A \ {x} = S /\ S \in SUBSET S /\ S \subseteq A /\ x \in A
    BY FS_AddElement
  <1> HIDE DEF A
  <1>2. Sums(SumsOf(A), A) /\ Sums(SumsOf(S), S)
    BY <1>1, SumsExist
  <1>3. SumsOf(A)[A] = Size[x] + SumsOf(A)[S]
    BY <1>1, <1>2, SumsWithout
  <1>4. SumsOf(S)[S] = SumsOf(A)[S]
    BY <1>1, <1>2, SumsAgree
  <1>5. SumsOf(S)[S] \in Nat
    BY <1>1, <1>2, SumsType
  <1>6. Size[x] \in Nat
    BY SizeAssumption
  <1> QED BY <1>3, <1>4, <1>5, <1>6 DEF Bytes, A

--------------------------------------------------------------------------------
(* The counters.                                                                *)

On(day) == {r \in reservations : Day(r.at) = day}

\* The counters count; a submission that has reserved nothing yet has no
\* reservation, so its own will be a new one, and a lead has one.
CounterShape ==
    /\ IsFiniteSet(leads) /\ IsFiniteSet(reservations)
    /\ capacity.count = Cardinality(leads) /\ capacity.count <= LeadLimit
    /\ capacity.bytes = Bytes(leads) /\ capacity.bytes <= ByteLimit
    /\ \A day \in Times : /\ creditsUsed[day] = 2 * Cardinality(On(day))
                          /\ creditsUsed[day] <= CreditLimit
    /\ \A s \in Submissions :
          pc[s] \in {"idle", "reserve"} => \A r \in reservations : r.key # s
    /\ \A s \in leads : \E r \in reservations : r.key = s

LEMMA InitCounters == Init => CounterShape
  <1> SUFFICES ASSUME Init PROVE CounterShape
    OBVIOUS
  <1>1. /\ leads = {} /\ reservations = {} /\ capacity.count = 0 /\ capacity.bytes = 0
        /\ \A day \in Times : creditsUsed[day] = 0 /\ On(day) = {}
    BY DEF Init, On
  <1>2. IsFiniteSet({}) /\ Cardinality({}) = 0 /\ Bytes({}) = 0
    BY FS_EmptySet, BytesEmpty
  <1> QED BY <1>1, <1>2, LimitsAssumption DEF CounterShape

\* A reservation adds one to what its day has, and two credits to that day.
LEMMA ReserveCounters ==
    ASSUME IInv, CounterShape, NEW s \in Submissions, Reserve(s)
    PROVE  CounterShape'
  <1> DEFINE r == [key |-> s, at |-> now]
  <1>0. /\ pc \in [Submissions -> Stages] /\ creditsUsed \in [Times -> Nat]
        /\ now \in Times /\ Day(now) \in Times /\ CreditLimit \in Nat
    BY DayType, LimitsAssumption DEF IInv, TypeOK
  <1>1. /\ reservations' = reservations \cup {r} /\ UNCHANGED <<leads, capacity>>
        /\ creditsUsed' = [creditsUsed EXCEPT ![Day(now)] = @ + 2]
        /\ creditsUsed[Day(now)] + 2 <= CreditLimit
        /\ pc[s] = "reserve" /\ pc' = [pc EXCEPT ![s] = "upload"]
    BY DEF Reserve, CreditsAvailable, Goto
  <1>2. r \notin reservations /\ r.key = s /\ r.at = now
    BY <1>1 DEF CounterShape
  <1> HIDE DEF r
  <1>3. IsFiniteSet(reservations')
    BY <1>1, FS_AddElement DEF CounterShape
  <1>4. ASSUME NEW day \in Times
        PROVE  /\ creditsUsed'[day] = 2 * Cardinality(On(day)')
               /\ creditsUsed'[day] <= CreditLimit
    <2>1. On(day)' = {q \in reservations' : Day(q.at) = day}
      BY DEF On, Day
    <2>2. creditsUsed[day] = 2 * Cardinality(On(day)) /\ creditsUsed[day] <= CreditLimit
      BY DEF CounterShape
    <2>3. CASE day = Day(now)
      <3>1. On(day)' = On(day) \cup {r} /\ r \notin On(day)
        BY <1>1, <1>2, <2>1, <2>3 DEF On
      <3>2. IsFiniteSet(On(day))
        BY FS_Subset DEF On, CounterShape
      <3>3. Cardinality(On(day)) \in Nat /\ Cardinality(On(day)') = Cardinality(On(day)) + 1
        BY <3>1, <3>2, FS_AddElement, FS_CardinalityType
      <3>4. creditsUsed'[day] = creditsUsed[day] + 2
        BY <1>0, <1>1, <2>3
      <3> QED BY <1>0, <1>1, <2>2, <2>3, <3>3, <3>4
    <2>4. CASE day # Day(now)
      <3>1. On(day)' = On(day)
        BY <1>1, <1>2, <2>1, <2>4 DEF On
      <3> QED BY <1>0, <1>1, <2>2, <2>4, <3>1
    <2> QED BY <2>3, <2>4
  <1>5. ASSUME NEW t \in Submissions, pc'[t] \in {"idle", "reserve"},
               NEW q \in reservations'
        PROVE  q.key # t
    BY <1>0, <1>1, <1>2, <1>5 DEF CounterShape
  <1>6. \A t \in leads' : \E q \in reservations' : q.key = t
    BY <1>1 DEF CounterShape
  <1> QED BY <1>1, <1>3, <1>4, <1>5, <1>6 DEF CounterShape

\* A lead inserted is one lead more and its bytes more, within both limits.
LEMMA InsertCounters ==
    ASSUME IInv, CounterShape, NEW s \in Submissions, InsertLead(s), s \notin leads,
           \A t \in Submissions : pc'[t] \in {"idle", "reserve"} => pc'[t] = pc[t]
    PROVE  CounterShape'
  <1>0. /\ leads \in SUBSET Submissions /\ s \in Submissions \ leads
        /\ capacity \in [count : Nat, bytes : Nat]
    BY DEF IInv, TypeOK
  <1>1. /\ leads' = leads \cup {s} /\ UNCHANGED <<reservations, creditsUsed>>
        /\ capacity'.count = capacity.count + 1 /\ capacity.count + 1 <= LeadLimit
        /\ capacity'.bytes = capacity.bytes + Size[s]
        /\ capacity.bytes + Size[s] <= ByteLimit
        /\ \E r \in reservations : r.key = s
    BY DEF InsertLead, MayCreate
  <1>2. IsFiniteSet(leads') /\ Cardinality(leads') = Cardinality(leads) + 1
    BY <1>0, <1>1, FS_AddElement DEF CounterShape
  <1>3. Bytes(leads') = Bytes(leads) + Size[s]
    BY <1>0, <1>1, BytesAdd DEF CounterShape
  <1>4. \A day \in Times : On(day)' = On(day)
    BY <1>1 DEF On, Day
  <1> QED BY <1>1, <1>2, <1>3, <1>4 DEF CounterShape

LEMMA StepCounters == IInv /\ CounterShape /\ [Next]_vars => CounterShape'
  <1> SUFFICES ASSUME IInv, CounterShape, [Next]_vars PROVE CounterShape'
    OBVIOUS
  <1>0. pc \in [Submissions -> Stages]
    BY DEF IInv, TypeOK
  <1>1. ASSUME UNCHANGED <<reservations, creditsUsed, leads, capacity>>,
               \A t \in Submissions : pc'[t] \in {"idle", "reserve"} =>
                                         pc[t] \in {"idle", "reserve"}
        PROVE  CounterShape'
    <2>1. \A day \in Times : On(day)' = On(day)
      BY <1>1 DEF On, Day
    <2> QED BY <1>1, <2>1 DEF CounterShape
  <1>2. ASSUME NEW s \in Submissions, SubmissionStep(s) PROVE CounterShape'
    <2>1. CASE Reserve(s)
      BY <2>1, ReserveCounters
    <2>2. CASE Create(s) \/ CommitAnswerLost(s)
      <3>1. /\ InsertLead(s) /\ pc[s] = "create"
            /\ \A t \in Submissions : pc'[t] \in {"idle", "reserve"} => pc'[t] = pc[t]
        BY <1>0, <2>2 DEF Create, CommitAnswerLost, Goto
      <3>2. s \notin leads
        BY <3>1 DEF IInv, SubmissionShape
      <3> QED BY <3>1, <3>2, InsertCounters
    <2>3. CASE ~Reserve(s) /\ ~Create(s) /\ ~CommitAnswerLost(s)
      <3>1. UNCHANGED <<reservations, creditsUsed, leads, capacity>>
        BY <1>2, <2>3 DEF SubmissionStep, Submit, ReserveFails, Upload, UploadFails,
           CreateFails, Compensate, CompensationFails, List, ListFails, SendInitial,
           RecoverInitial, ClaimInitial, database
      <3>2. \A t \in Submissions : pc'[t] \in {"idle", "reserve"} =>
                                      pc[t] \in {"idle", "reserve"}
        BY <1>0, <1>2, <2>3 DEF SubmissionStep, Submit, ReserveFails, Upload,
           UploadFails, CreateFails, Compensate, CompensationFails, List, ListFails,
           SendInitial, RecoverInitial, Goto
      <3> QED BY <1>1, <3>1, <3>2
    <2> QED BY <2>1, <2>2, <2>3
  <1>3. CASE ProcessRestart
    <2>1. UNCHANGED <<reservations, creditsUsed, leads, capacity>>
      BY <1>3 DEF ProcessRestart, database
    <2>2. \A t \in Submissions : pc'[t] \in {pc[t], "dead"}
      BY <1>3 DEF ProcessRestart
    <2> QED BY <1>1, <2>1, <2>2
  <1>4. CASE Pause \/ Unpause \/ Tick \/ UNCHANGED vars
    BY <1>1, <1>4 DEF Pause, Unpause, Tick, vars, database
  <1>5. CASE Audit
    BY <1>1, <1>5, AuditSpares DEF database
  <1> QED BY <1>2, <1>3, <1>4, <1>5 DEF Next

\* The counters the limits are enforced with count what is there, for any sizes
\* and limits: leads, their bytes and each day's reservations.
THEOREM CountersCount == Spec => []CountersExact
  <1>1. IInv /\ CounterShape => CountersExact
    <2> SUFFICES ASSUME CounterShape PROVE CountersExact
      OBVIOUS
    <2>1. capacity.bytes = MapThenSumSet(LAMBDA s : Size[s], leads)
      BY BytesAreTheSum DEF CounterShape
    <2>2. \A day \in Times : creditsUsed[day] =
             2 * Cardinality({r \in reservations : Day(r.at) = day})
      BY DEF CounterShape, On
    <2> QED BY <2>1, <2>2 DEF CounterShape, CountersExact
  <1>2. Spec => []CounterShape
    BY InitCounters, StepCounters, Invariance, PTL DEF Spec
  <1> QED BY <1>1, <1>2, Invariance, PTL
================================================================================
