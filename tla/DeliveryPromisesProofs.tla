------------------------ MODULE DeliveryPromisesProofs ------------------------
(* What the claim protocol promises beyond the exclusive claim, for every value  *)
(* of its constants: the limits it keeps, which are the lease, the cooldown and  *)
(* the daily pool of retry credits, and what the attempt history says of the     *)
(* provider.                                                                     *)
EXTENDS DeliveryClaimsProofs, FiniteSetTheorems

\* What the cooldown rests on: last_attempt_at is the start of the attempt the
\* projection shows.
CooldownInv ==
    /\ CooldownKept
    /\ \A d \in Deliveries :
          delivery[d].state # "pending" =>
              attempts[d][delivery[d].retryCount + 1].started = delivery[d].lastAttemptAt

\* What the pool rests on: a number that has no attempt yet has no trigger, so
\* no reservation; and there are finitely many reservations to count.
CreditInv ==
    /\ CreditsMatchAttempts
    /\ IsFiniteSet(reservations)
    /\ \A d \in Deliveries, n \in Numbers :
          attempts[d][n].outcome = "none" => attempts[d][n].trigger = "none"

\* What the day of a credit rests on: a claim that waits was called no longer ago
\* than its timeout.
WaitInv ==
    \A s \in Senders : req[s].pc \in Waiting => now <= req[s].asked + ClaimTime

--------------------------------------------------------------------------------
(* Lemmas.                                                                      *)

\* Only two claims, an expiry and a completion write to the tables.
LEMMA WritingSteps ==
    ASSUME [Next]_vars
    PROVE  \/ UNCHANGED database
           \/ \E s \in Senders : ClaimInitial(s)
           \/ \E s \in Senders : ClaimManual(s)
           \/ \E s \in Senders : ExpireClaim(s)
           \/ \E s \in Senders : Complete(s)
  <1>1. ASSUME NEW s \in Senders,
               \/ ReconcileNothing(s) \/ ReconcileActiveLease(s) \/ ReadState(s) \/ CallInitial(s)
               \/ InitialUnavailable(s) \/ ManualRefused(s) \/ Transmit(s)
               \/ ReplyArrives(s) \/ CompleteIgnored(s) \/ RequestFails(s)
        PROVE  UNCHANGED database
    BY <1>1 DEF ReconcileNothing, ReconcileActiveLease, ReadState, CallInitial,
                CallClaim, InitialUnavailable, ManualRefused, Transmit, ReplyArrives, CompleteIgnored, RequestFails,
                database
  <1>2. ASSUME \/ \E r \in Reviewers, d \in Deliveries, confirmed \in BOOLEAN :
                     StartRetry(r, d, confirmed)
               \/ ProcessRestart \/ Tick \/ UNCHANGED vars
        PROVE  UNCHANGED database
    BY <1>2 DEF StartRetry, ProcessRestart, Tick, vars, database
  <1> QED BY <1>1, <1>2 DEF Next, System, SenderStep

\* The rows a claim writes, without EXCEPT.
LEMMA InsertRows ==
    ASSUME TypeOK, NEW s \in Senders, NEW n \in Numbers,
           NEW trigger \in {"initial", "manual"},
           req[s].on \in Deliveries, InsertAttempt(s, n, trigger)
    PROVE  LET on == req[s].on IN
           /\ attempts'[on][n].outcome = "open"
           /\ attempts'[on][n].trigger = trigger
           /\ attempts'[on][n].started = req[s].asked
           /\ attempts'[on][n].ended = 0
           /\ delivery'[on].state = "processing"
           /\ delivery'[on].retryCount = IF trigger = "manual"
                                         THEN delivery[on].retryCount + 1
                                         ELSE delivery[on].retryCount
           /\ delivery'[on].lastAttemptAt = req[s].asked
           /\ \A e \in Deliveries : e # on => delivery'[e] = delivery[e]
           /\ \A e \in Deliveries, m \in Numbers :
                 ~(e = on /\ m = n) => attempts'[e][m] = attempts[e][m]
  <1> DEFINE on == req[s].on
             v_now == req[s].asked
             row == [outcome |-> "open", trigger |-> trigger, started |-> v_now,
                     ended |-> 0, confirmed |-> trigger = "manual" /\ req[s].confirmed]
             proj == [state |-> "processing", active |-> n, expires |-> v_now + Lease,
                      retryCount |-> IF trigger = "manual"
                                     THEN delivery[on].retryCount + 1
                                     ELSE delivery[on].retryCount,
                      lastAttemptAt |-> v_now]
  <1>1. /\ attempts' = [attempts EXCEPT ![on] = [attempts[on] EXCEPT ![n] = row]]
        /\ delivery' = [delivery EXCEPT ![on] = proj]
    BY DEF InsertAttempt
  <1>2. /\ delivery \in [Deliveries -> Delivery]
        /\ attempts \in [Deliveries -> [Numbers -> Attempt]]
    BY DEF TypeOK
  <1>3. /\ row.outcome = "open" /\ row.trigger = trigger
        /\ row.started = v_now /\ row.ended = 0
    OBVIOUS
  <1>4. /\ proj.state = "processing" /\ proj.lastAttemptAt = v_now
        /\ proj.retryCount = IF trigger = "manual" THEN delivery[on].retryCount + 1
                             ELSE delivery[on].retryCount
    OBVIOUS
  <1> HIDE DEF row, proj
  <1>5. /\ attempts'[on][n] = row
        /\ delivery'[on] = proj
        /\ \A e \in Deliveries : e # on => delivery'[e] = delivery[e]
        /\ \A e \in Deliveries, m \in Numbers :
              ~(e = on /\ m = n) => attempts'[e][m] = attempts[e][m]
    BY <1>1, <1>2
  <1> QED BY <1>3, <1>4, <1>5

\* The rows the end of an attempt writes, without EXCEPT.
LEMMA CloseRows ==
    ASSUME TypeOK, NEW d \in Deliveries, NEW n \in Numbers, NEW outcome \in Outcomes,
           CloseAttempt(d, n, outcome)
    PROVE  /\ attempts'[d][n].outcome = outcome
           /\ attempts'[d][n].started = attempts[d][n].started
           /\ attempts'[d][n].trigger = attempts[d][n].trigger
           /\ delivery'[d].state = outcome
           /\ delivery'[d].retryCount = delivery[d].retryCount
           /\ delivery'[d].lastAttemptAt = delivery[d].lastAttemptAt
           /\ \A e \in Deliveries : e # d => delivery'[e] = delivery[e]
           /\ \A e \in Deliveries, m \in Numbers :
                 ~(e = d /\ m = n) => attempts'[e][m] = attempts[e][m]
  <1> DEFINE row == [[attempts[d][n] EXCEPT !.outcome = outcome] EXCEPT !.ended = now]
             proj == [[[delivery[d] EXCEPT !.state = outcome] EXCEPT !.active = 0]
                         EXCEPT !.expires = 0]
  <1>1. /\ attempts' = [attempts EXCEPT ![d] = [attempts[d] EXCEPT ![n] = row]]
        /\ delivery' = [delivery EXCEPT ![d] = proj]
    BY DEF CloseAttempt, TypeOK
  <1>2. /\ delivery \in [Deliveries -> Delivery]
        /\ attempts \in [Deliveries -> [Numbers -> Attempt]]
    BY DEF TypeOK
  <1>3. /\ row.outcome = outcome
        /\ row.started = attempts[d][n].started
        /\ row.trigger = attempts[d][n].trigger
    BY <1>2 DEF Attempt
  <1>4. /\ proj.state = outcome
        /\ proj.retryCount = delivery[d].retryCount
        /\ proj.lastAttemptAt = delivery[d].lastAttemptAt
    BY <1>2 DEF Delivery
  <1> HIDE DEF row, proj
  <1>5. /\ attempts'[d][n] = row
        /\ delivery'[d] = proj
        /\ \A e \in Deliveries : e # d => delivery'[e] = delivery[e]
        /\ \A e \in Deliveries, m \in Numbers :
              ~(e = d /\ m = n) => attempts'[e][m] = attempts[e][m]
    BY <1>1, <1>2
  <1> QED BY <1>3, <1>4, <1>5

\* What a claim knows when it inserts the next attempt.
LEMMA InitialFacts ==
    ASSUME IInv, NEW s \in Senders, ClaimInitial(s)
    PROVE  /\ req[s].on \in Deliveries
           /\ 1 \in Numbers
           /\ InsertAttempt(s, 1, "initial")
           /\ delivery[req[s].on].state = "pending"
           /\ delivery[req[s].on].retryCount = 0
  BY LiveRequest, BoundsAssumption
     DEF ClaimInitial, InitialAvailable, IInv, TypeOK, Working, Waiting, Numbers

LEMMA ManualFacts ==
    ASSUME IInv, NEW s \in Senders, ClaimManual(s)
    PROVE  LET d == req[s].on
               n == delivery[d].retryCount + 2
           IN
           /\ d \in Deliveries
           /\ req[s].asked \in Nat
           /\ delivery[d].retryCount \in 0 .. MaxRetries
           /\ n \in Numbers
           /\ n - 1 \in Numbers
           /\ InsertAttempt(s, n, "manual")
           /\ delivery[d].state \in {"failed", "unknown"}
           /\ CooldownElapsed(d, req[s].asked)
           /\ \E day \in BudgetDays(s) :
                 /\ day \in Days
                 /\ CreditAvailable(day)
                 /\ ReserveRetryCredit(d, n, day)
  <1> DEFINE d == req[s].on
  <1>0. req[s].pc \in Working /\ TypeOK
    BY DEF ClaimManual, Working, Waiting, IInv
  <1>1. d \in Deliveries /\ req[s].asked \in Nat
    BY <1>0, LiveRequest DEF TypeOK
  <1>2. delivery[d].retryCount \in 0 .. MaxRetries
    BY <1>0, <1>1 DEF TypeOK, Delivery
  <1>3. InsertAttempt(s, delivery[d].retryCount + 2, "manual")
    BY DEF ClaimManual
  <1>4. PICK day \in BudgetDays(s) :
           /\ ManualAvailable(s, day)
           /\ ReserveRetryCredit(d, delivery[d].retryCount + 2, day)
    BY DEF ClaimManual
  <1>5. day \in Days
    BY <1>0, <1>4, BudgetDaysType
  <1>6. /\ delivery[d].state \in {"failed", "unknown"}
        /\ delivery[d].retryCount < MaxRetries
        /\ CooldownElapsed(d, req[s].asked)
        /\ CreditAvailable(day)
    BY <1>4 DEF ManualAvailable
  <1>7. /\ delivery[d].retryCount + 2 \in Numbers
        /\ delivery[d].retryCount + 2 - 1 \in Numbers
    BY <1>2, <1>6, BoundsAssumption DEF Numbers
  <1> QED BY <1>1, <1>2, <1>3, <1>4, <1>5, <1>6, <1>7

\* An expiry and a completion both end the open attempt the projection shows.
LEMMA ClosingFacts ==
    ASSUME IInv, NEW s \in Senders, ExpireClaim(s) \/ Complete(s)
    PROVE  \E d \in Deliveries, n \in Numbers, outcome \in Outcomes :
              /\ CloseAttempt(d, n, outcome)
              /\ delivery[d].state = "processing"
              /\ n = delivery[d].retryCount + 1
              /\ attempts[d][n].outcome = "open"
  <1>0. TypeOK /\ MaxRetries \in Nat
    BY BoundsAssumption DEF IInv
  <1>1. CASE ExpireClaim(s)
    <2> DEFINE d == req[s].on
    <2>1. d \in Deliveries
      BY <1>0, <1>1, LiveRequest DEF ExpireClaim, TypeOK, Working
    <2>2. /\ CloseAttempt(d, delivery[d].active, "unknown")
          /\ delivery[d].state = "processing"
          /\ attempts[d][delivery[d].active].outcome = "open"
      BY <1>1 DEF ExpireClaim
    <2>3. delivery[d].retryCount \in 0 .. MaxRetries
      BY <1>0, <2>1 DEF TypeOK, Delivery
    <2>4. delivery[d].active = delivery[d].retryCount + 1
      BY <2>1, <2>2 DEF IInv, DeliveryShape
    <2>5. delivery[d].active \in Numbers /\ "unknown" \in Outcomes
      BY <1>0, <2>3, <2>4 DEF Numbers, Outcomes
    <2> HIDE DEF d
    <2> QED BY <2>1, <2>2, <2>4, <2>5
  <1>2. CASE Complete(s)
    <2>1. /\ req[s].on \in Deliveries
          /\ req[s].attempt \in Numbers
          /\ req[s].result \in Outcomes
      BY <1>0, <1>2, LiveRequest DEF Complete, TypeOK, Holding, IInv, HolderShape
    <2>2. /\ CloseAttempt(req[s].on, req[s].attempt, req[s].result)
          /\ ClaimStands(req[s].on, req[s].attempt)
      BY <1>2 DEF Complete
    <2>3. req[s].attempt = delivery[req[s].on].retryCount + 1
      BY <2>1, <2>2 DEF ClaimStands, IInv, DeliveryShape
    <2> QED BY <2>1, <2>2, <2>3 DEF ClaimStands
  <1> QED BY <1>1, <1>2

\* What a step of a request does to the requests: the others stay, and its own
\* ends, calls a claim at this instant, gets its answer, or is at another stage.
LEMMA StageStep ==
    ASSUME TypeOK, NEW s \in Senders, SenderStep(s)
    PROVE  /\ now' = now
           /\ \A t \in Senders : t # s => req'[t] = req[t]
           /\ \/ req'[s].pc \in {"idle", "done", "read", "send", "await"}
              \/ req'[s].pc \in Waiting /\ req'[s].asked = now
              \/ req'[s].pc = "complete" /\ ReplyArrives(s)
  <1> DEFINE Moved ==
               /\ \A t \in Senders : t # s => req'[t] = req[t]
               /\ \/ req'[s].pc \in {"idle", "done", "read", "send", "await"}
                  \/ req'[s].pc \in Waiting /\ req'[s].asked = now
                  \/ req'[s].pc = "complete" /\ ReplyArrives(s)
  <1>0. now' = now
    BY DEF SenderStep, ReconcileNothing, ReconcileActiveLease, ExpireClaim, ReadState,
       CallInitial, CallClaim, ClaimInitial, InitialUnavailable, ClaimManual,
       ManualRefused, Transmit, ReplyArrives, Complete, CompleteIgnored, RequestFails
  <1>1. ASSUME Finish(s) PROVE Moved
    BY <1>1, FinishType
  <1>2. ASSUME NEW stage \in {"read", "await"}, Goto(s, stage),
               req[s].pc \in Working \cup Holding
        PROVE  Moved
    <2>1. stage \in Working \cup Holding
      BY DEF Working, Holding
    <2> QED BY <1>2, <2>1, GotoType
  <1>3. ASSUME NEW stage \in Waiting, CallClaim(s, stage), req[s].pc \in Working
        PROVE  Moved
    BY <1>3, CallType
  <1>4. ASSUME NEW n, NEW trigger, InsertAttempt(s, n, trigger), req[s].pc \in Working
        PROVE  Moved
    <2>1. req[s] \in [pc : Working \cup Holding, on : Deliveries, confirmed : BOOLEAN,
                      asked : Nat, attempt : Numbers \cup {0}, result : Outcomes \cup {"none"}]
      BY <1>4, LiveRequest DEF TypeOK
    <2> DEFINE entry == [[[req[s] EXCEPT !.pc = "send"] EXCEPT !.asked = 0]
                            EXCEPT !.attempt = n]
    <2>2. req' = [req EXCEPT ![s] = entry]
      BY <1>4 DEF InsertAttempt
    <2>3. entry.pc = "send"
      BY <2>1
    <2> HIDE DEF entry
    <2> QED BY <2>2, <2>3 DEF TypeOK
  <1>5. ASSUME ReplyArrives(s) PROVE Moved
    <2>1. PICK result : req' = [req EXCEPT ![s] = [[req[s] EXCEPT !.pc = "complete"]
                                                      EXCEPT !.result = result]]
      BY <1>5 DEF ReplyArrives
    <2>2. req[s] \in [pc : Working \cup Holding, on : Deliveries, confirmed : BOOLEAN,
                      asked : Nat, attempt : Numbers \cup {0}, result : Outcomes \cup {"none"}]
      BY <1>5, LiveRequest DEF TypeOK, ReplyArrives, Holding
    <2>3. req'[s].pc = "complete" /\ \A t \in Senders : t # s => req'[t] = req[t]
      BY <2>1, <2>2 DEF TypeOK
    <2> QED BY <1>5, <2>3
  <1> HIDE DEF Moved
  <1>6. ASSUME ReconcileNothing(s) \/ ExpireClaim(s) \/ Transmit(s) PROVE Moved
    BY <1>2, <1>6 DEF ReconcileNothing, ExpireClaim, Transmit, Working, Holding
  <1>7. ASSUME ReadState(s) \/ CallInitial(s) PROVE Moved
    BY <1>3, <1>7 DEF ReadState, CallInitial, Working, Waiting
  <1>8. ASSUME ClaimInitial(s) \/ ClaimManual(s) PROVE Moved
    BY <1>4, <1>8 DEF ClaimInitial, ClaimManual, Working, Waiting
  <1>9. ASSUME \/ ReconcileActiveLease(s) \/ InitialUnavailable(s) \/ ManualRefused(s)
               \/ Complete(s) \/ CompleteIgnored(s) \/ RequestFails(s)
        PROVE  Moved
    BY <1>1, <1>9 DEF ReconcileActiveLease, InitialUnavailable, ManualRefused, Complete,
                      CompleteIgnored, RequestFails
  <1>10. Moved
    BY <1>5, <1>6, <1>7, <1>8, <1>9 DEF SenderStep
  <1> QED BY <1>0, <1>10 DEF Moved

--------------------------------------------------------------------------------
(* The lease.                                                                   *)

\* Until its lease runs out a claim is ended only by the request that made it,
\* whatever other reviewers and requests do in the meantime.
THEOREM LeaseIsHonoured == Spec => LeaseHonoured
  <1>1. ASSUME IInv, [Next]_vars, NEW d \in Deliveries,
               delivery[d].state = "processing", now < delivery[d].expires,
               delivery'[d] # delivery[d]
        PROVE  \E s \in Senders :
                  /\ req[s].pc = "complete"
                  /\ req[s].on = d
                  /\ req[s].attempt = delivery[d].active
                  /\ delivery'[d].state = req[s].result
    <2>0. TypeOK
      BY <1>1 DEF IInv
    <2>1. CASE UNCHANGED database
      BY <1>1, <2>1 DEF database
    <2>2. ASSUME NEW s \in Senders, ClaimInitial(s) PROVE FALSE
      <3>1. req[s].on \in Deliveries /\ delivery[req[s].on].state = "pending"
        BY <1>1, <2>2, InitialFacts
      <3>2. d # req[s].on
        BY <1>1, <3>1
      <3>3. delivery'[d] = delivery[d]
        BY <1>1, <2>0, <2>2, <3>2, InitialFacts, InsertRows
      <3> QED BY <1>1, <3>3
    <2>3. ASSUME NEW s \in Senders, ClaimManual(s) PROVE FALSE
      <3>1. delivery[req[s].on].state \in {"failed", "unknown"}
        BY <1>1, <2>3, ManualFacts
      <3>2. d # req[s].on
        BY <1>1, <3>1
      <3>3. delivery'[d] = delivery[d]
        BY <1>1, <2>0, <2>3, <3>2, ManualFacts, InsertRows
      <3> QED BY <1>1, <3>3
    <2>4. ASSUME NEW s \in Senders, ExpireClaim(s) PROVE FALSE
      <3>1. ~LeaseActive(req[s].on)
        BY <2>4 DEF ExpireClaim
      <3>2. now \in Nat /\ delivery[d].expires \in Nat
        BY <2>0, BoundsAssumption DEF TypeOK, Delivery
      <3>3. d # req[s].on
        BY <1>1, <3>1, <3>2 DEF LeaseActive
      <3>4. delivery'[d] = delivery[d]
        BY <2>0, <2>4, <3>3 DEF ExpireClaim, CloseAttempt, TypeOK
      <3> QED BY <1>1, <3>4
    <2>5. ASSUME NEW s \in Senders, Complete(s)
          PROVE  /\ req[s].pc = "complete"
                 /\ req[s].on = d
                 /\ req[s].attempt = delivery[d].active
                 /\ delivery'[d].state = req[s].result
      <3>1. /\ req[s].pc = "complete"
            /\ ClaimStands(req[s].on, req[s].attempt)
            /\ delivery' = [delivery EXCEPT
                   ![req[s].on] = [[[delivery[req[s].on] EXCEPT !.state = req[s].result]
                                       EXCEPT !.active = 0] EXCEPT !.expires = 0]]
        BY <2>0, <2>5 DEF Complete, CloseAttempt, TypeOK
      <3>2. req[s].on = d
        BY <1>1, <2>0, <3>1 DEF TypeOK
      <3>3. delivery[d] \in Delivery
        BY <2>0 DEF TypeOK
      <3>4. delivery'[d].state = req[s].result
        BY <2>0, <3>1, <3>2, <3>3 DEF TypeOK, Delivery
      <3> QED BY <3>1, <3>2, <3>4 DEF ClaimStands
    <2> QED BY <1>1, <2>1, <2>2, <2>3, <2>4, <2>5, WritingSteps
  <1>2. IInv /\ [Next]_vars =>
           [\A d \in Deliveries :
               /\ delivery[d].state = "processing"
               /\ now < delivery[d].expires
               /\ delivery'[d] # delivery[d]
               => \E s \in Senders :
                     /\ req[s].pc = "complete"
                     /\ req[s].on = d
                     /\ req[s].attempt = delivery[d].active
                     /\ delivery'[d].state = req[s].result]_delivery
    BY <1>1
  <1> QED BY <1>2, Invariance, PTL DEF Spec, LeaseHonoured

--------------------------------------------------------------------------------
(* The cooldown.                                                                *)

LEMMA CooldownInit == Init => CooldownInv
  BY DEF Init, CooldownInv, CooldownKept, NoAttempt

\* Opening attempt n keeps the cooldown when every earlier attempt of the
\* delivery has been over for that long and there is no later one.
LEMMA CooldownInsert ==
    ASSUME IInv, CooldownInv, NEW s \in Senders, NEW n \in Numbers,
           NEW trigger \in {"initial", "manual"},
           req[s].on \in Deliveries, InsertAttempt(s, n, trigger),
           n = delivery'[req[s].on].retryCount + 1,
           \A m \in Numbers :
              /\ m > n => attempts[req[s].on][m].outcome = "none"
              /\ m < n => /\ attempts[req[s].on][m].started + Cooldown <= req[s].asked
                          /\ attempts[req[s].on][m].ended + Cooldown <= req[s].asked
    PROVE  CooldownInv'
  <1> DEFINE on == req[s].on
  <1>0. TypeOK
    BY DEF IInv
  <1>1. /\ attempts'[on][n].started = req[s].asked
        /\ delivery'[on].lastAttemptAt = req[s].asked
        /\ \A e \in Deliveries : e # on => delivery'[e] = delivery[e]
        /\ \A e \in Deliveries, m \in Numbers :
              ~(e = on /\ m = n) => attempts'[e][m] = attempts[e][m]
    BY <1>0, InsertRows
  <1> HIDE DEF on
  <1>2. ASSUME NEW d \in Deliveries, NEW i \in Numbers, NEW j \in Numbers,
               i < j, attempts'[d][j].outcome # "none"
        PROVE  /\ attempts'[d][i].started + Cooldown <= attempts'[d][j].started
               /\ attempts'[d][i].ended + Cooldown <= attempts'[d][j].started
    <2>1. CASE d # on \/ (i # n /\ j # n)
      BY <1>1, <1>2, <2>1 DEF CooldownInv, CooldownKept
    <2>2. CASE d = on /\ i = n
      <3>1. attempts[d][j].outcome = "none"
        BY <1>2, <2>2 DEF on
      <3>2. attempts'[d][j] = attempts[d][j]
        BY <1>1, <1>2, <2>2 DEF Numbers
      <3> QED BY <1>2, <3>1, <3>2
    <2>3. CASE d = on /\ j = n
      <3>1. /\ attempts[d][i].started + Cooldown <= req[s].asked
            /\ attempts[d][i].ended + Cooldown <= req[s].asked
        BY <1>2, <2>3 DEF on
      <3>2. attempts'[d][i] = attempts[d][i]
        BY <1>1, <1>2, <2>3 DEF Numbers
      <3> QED BY <1>1, <2>3, <3>1, <3>2
    <2> QED BY <2>1, <2>2, <2>3
  <1>3. ASSUME NEW d \in Deliveries, delivery'[d].state # "pending"
        PROVE  attempts'[d][delivery'[d].retryCount + 1].started
                  = delivery'[d].lastAttemptAt
    <2>1. CASE d = on
      BY <1>1, <2>1 DEF on
    <2>2. CASE d # on
      <3>1. delivery[d].retryCount + 1 \in Numbers
        BY <1>0, BoundsAssumption DEF TypeOK, Delivery, Numbers
      <3>2. delivery'[d] = delivery[d]
        BY <1>1, <2>2
      <3>3. attempts'[d][delivery[d].retryCount + 1]
               = attempts[d][delivery[d].retryCount + 1]
        BY <1>1, <2>2, <3>1
      <3> QED BY <1>3, <3>2, <3>3 DEF CooldownInv
    <2> QED BY <2>1, <2>2
  <1> QED BY <1>2, <1>3 DEF CooldownInv, CooldownKept

\* Between two attempts of a delivery lies the cooldown, whichever of the send,
\* the expiry or a retry ended the earlier one.
THEOREM CooldownIsKept == Spec => []CooldownKept
  <1>1. ASSUME IInv, CooldownInv, [Next]_vars PROVE CooldownInv'
    <2>0. TypeOK /\ Cooldown \in Nat /\ MaxRetries \in Nat
      BY <1>1, BoundsAssumption DEF IInv
    <2>1. CASE UNCHANGED database
      BY <1>1, <2>1 DEF database, CooldownInv, CooldownKept
    <2>2. ASSUME NEW s \in Senders, ClaimInitial(s) PROVE CooldownInv'
      <3>1. /\ req[s].on \in Deliveries
            /\ 1 \in Numbers
            /\ InsertAttempt(s, 1, "initial")
            /\ delivery[req[s].on].state = "pending"
            /\ delivery[req[s].on].retryCount = 0
        BY <1>1, <2>2, InitialFacts
      <3>2. 1 = delivery'[req[s].on].retryCount + 1
        BY <2>0, <3>1, InsertRows
      <3>3. \A m \in Numbers : ~(m < 1) /\ attempts[req[s].on][m].outcome = "none"
        BY <1>1, <3>1 DEF IInv, DeliveryShape, Numbers
      <3> QED BY <1>1, <3>1, <3>2, <3>3, CooldownInsert
    <2>3. ASSUME NEW s \in Senders, ClaimManual(s) PROVE CooldownInv'
      <3> DEFINE d == req[s].on
                 k == delivery[d].retryCount + 1
      <3>1. /\ d \in Deliveries
            /\ delivery[d].retryCount \in 0 .. MaxRetries
            /\ k + 1 \in Numbers
            /\ k \in Numbers
            /\ InsertAttempt(s, k + 1, "manual")
            /\ delivery[d].state \in {"failed", "unknown"}
            /\ req[s].asked \in Nat
            /\ CooldownElapsed(d, req[s].asked)
        BY <1>1, <2>3, ManualFacts
      <3>2. k + 1 = delivery'[d].retryCount + 1
        BY <2>0, <3>1, InsertRows
      <3>3. /\ \A m \in Numbers : m > k => attempts[d][m].outcome = "none"
            /\ attempts[d][k].outcome = delivery[d].state
        BY <1>1, <3>1 DEF IInv, DeliveryShape, Outcomes
      <3>4. IsLatest(d, k)
        BY <3>1, <3>3 DEF IsLatest
      <3>5. attempts[d][k].started = delivery[d].lastAttemptAt
        BY <1>1, <3>1 DEF CooldownInv
      <3>6. /\ attempts[d][k].started + Cooldown <= req[s].asked
            /\ attempts[d][k].ended + Cooldown <= req[s].asked
        BY <2>0, <3>1, <3>4, <3>5 DEF CooldownElapsed, TypeOK, Delivery, Attempt
      <3>7. ASSUME NEW m \in Numbers, m < k
            PROVE  /\ attempts[d][m].started + Cooldown <= req[s].asked
                   /\ attempts[d][m].ended + Cooldown <= req[s].asked
        <4>1. /\ attempts[d][m].started + Cooldown <= attempts[d][k].started
              /\ attempts[d][m].ended + Cooldown <= attempts[d][k].started
          <5>1. k \in Numbers /\ attempts[d][k].outcome # "none"
            BY <3>1, <3>3
          <5> HIDE DEF d, k
          <5> QED BY <1>1, <3>1, <3>7, <5>1 DEF CooldownInv, CooldownKept
        <4>2. attempts[d][m] \in Attempt /\ attempts[d][k] \in Attempt
          BY <2>0, <3>1 DEF TypeOK
        <4>3. /\ attempts[d][m].started \in Nat /\ attempts[d][m].ended \in Nat
              /\ attempts[d][k].started \in Nat
          BY <4>2 DEF Attempt
        <4> QED BY <2>0, <3>1, <3>6, <4>1, <4>3
      <3>8. \A m \in Numbers :
               /\ m > k + 1 => attempts[d][m].outcome = "none"
               /\ m < k + 1 => /\ attempts[d][m].started + Cooldown <= req[s].asked
                               /\ attempts[d][m].ended + Cooldown <= req[s].asked
        <4>1. ASSUME NEW m \in Numbers
              PROVE  /\ m > k + 1 => m > k
                     /\ m < k + 1 => m < k \/ m = k
          BY <3>1 DEF Numbers
        <4> QED BY <3>3, <3>6, <3>7, <4>1
      <3> HIDE DEF d, k
      <3> QED BY <1>1, <3>1, <3>2, <3>8, CooldownInsert DEF d
    <2>4. ASSUME NEW s \in Senders, ExpireClaim(s) \/ Complete(s) PROVE CooldownInv'
      <3>1. PICK d \in Deliveries, n \in Numbers, outcome \in Outcomes :
               /\ CloseAttempt(d, n, outcome)
               /\ delivery[d].state = "processing"
               /\ n = delivery[d].retryCount + 1
               /\ attempts[d][n].outcome = "open"
        BY <1>1, <2>4, ClosingFacts
      <3>2. /\ attempts'[d][n].started = attempts[d][n].started
            /\ delivery'[d].retryCount = delivery[d].retryCount
            /\ delivery'[d].lastAttemptAt = delivery[d].lastAttemptAt
            /\ \A e \in Deliveries : e # d => delivery'[e] = delivery[e]
            /\ \A e \in Deliveries, m \in Numbers :
                  ~(e = d /\ m = n) => attempts'[e][m] = attempts[e][m]
        BY <2>0, <3>1, CloseRows
      <3>3. \A m \in Numbers : m > n => attempts[d][m].outcome = "none"
        BY <1>1, <3>1 DEF IInv, DeliveryShape
      <3>4. ASSUME NEW e \in Deliveries, NEW i \in Numbers, NEW j \in Numbers,
                   i < j, attempts'[e][j].outcome # "none"
            PROVE  /\ attempts'[e][i].started + Cooldown <= attempts'[e][j].started
                   /\ attempts'[e][i].ended + Cooldown <= attempts'[e][j].started
        <4>1. ~(e = d /\ i = n)
          <5> SUFFICES ASSUME e = d, i = n PROVE FALSE
            OBVIOUS
          <5>1. attempts[e][j].outcome = "none"
            BY <3>3, <3>4
          <5>2. attempts'[e][j] = attempts[e][j]
            BY <3>2, <3>4 DEF Numbers
          <5> QED BY <3>4, <5>1, <5>2
        <4>2. attempts'[e][i] = attempts[e][i]
          BY <3>2, <4>1
        <4>3. /\ attempts'[e][j].started = attempts[e][j].started
              /\ attempts[e][j].outcome # "none"
          BY <3>1, <3>2, <3>4
        <4> QED BY <1>1, <3>4, <4>2, <4>3 DEF CooldownInv, CooldownKept
      <3>5. ASSUME NEW e \in Deliveries, delivery'[e].state # "pending"
            PROVE  attempts'[e][delivery'[e].retryCount + 1].started
                      = delivery'[e].lastAttemptAt
        <4>1. CASE e = d
          BY <1>1, <3>1, <3>2, <4>1 DEF CooldownInv
        <4>2. CASE e # d
          <5>1. delivery[e].retryCount + 1 \in Numbers
            BY <2>0 DEF TypeOK, Delivery, Numbers
          <5> QED BY <1>1, <3>2, <3>5, <4>2, <5>1 DEF CooldownInv
        <4> QED BY <4>1, <4>2
      <3> QED BY <3>4, <3>5 DEF CooldownInv, CooldownKept
    <2> QED BY <1>1, <2>1, <2>2, <2>3, <2>4, WritingSteps
  <1>2. CooldownInv => CooldownKept
    BY DEF CooldownInv
  <1>3. IInv /\ CooldownInv /\ [Next]_vars => CooldownInv'
    BY <1>1
  <1> QED BY <1>2, <1>3, CooldownInit, Invariance, PTL DEF Spec

--------------------------------------------------------------------------------
(* The pool of retry credits.                                                   *)

LEMMA CreditInit == Init => CreditInv
  <1> SUFFICES ASSUME Init PROVE CreditInv
    OBVIOUS
  <1>1. reservations = {} /\ IsFiniteSet({}) /\ Cardinality({}) = 0
    BY FS_EmptySet DEF Init
  <1>2. \A d \in Deliveries, n \in Numbers :
           attempts[d][n].trigger = "none" /\ Credits(d, n) = {}
    BY <1>1 DEF Init, NoAttempt, Credits
  <1>3. \A day \in Days : creditsUsed[day] = 0 /\ 0 <= RetryCreditLimit
    BY BoundsAssumption DEF Init
  <1>4. \A day \in Days : {x \in reservations : x.day = day} = {}
    BY <1>1
  <1> QED BY <1>1, <1>2, <1>3, <1>4 DEF CreditInv, CreditsMatchAttempts

\* A later instant is never of an earlier day.
LEMMA DayMonotone ==
    ASSUME NEW a \in Nat, NEW b \in Nat, a <= b
    PROVE  Day(a) \in Nat /\ Day(b) \in Nat /\ Day(a) <= Day(b)
  <1>1. DayLength \in Nat \ {0}
    BY BoundsAssumption
  <1>2. a \div DayLength \in Nat /\ b \div DayLength \in Nat
    BY <1>1
  <1>3. a \div DayLength <= b \div DayLength
    BY <1>1
  <1> QED BY <1>2, <1>3 DEF Day

\* A step that keeps the trigger and the start of every attempt, and takes no
\* credit, keeps the pool in order.
LEMMA CreditSame ==
    ASSUME CreditInv, UNCHANGED <<reservations, creditsUsed>>,
           \A d \in Deliveries, n \in Numbers :
              /\ attempts'[d][n].outcome = "none" => attempts[d][n].outcome = "none"
              /\ \/ /\ attempts'[d][n].trigger = attempts[d][n].trigger
                    /\ attempts'[d][n].started = attempts[d][n].started
                 \/ /\ attempts[d][n].trigger # "manual"
                    /\ attempts'[d][n].trigger = "initial"
                    /\ attempts'[d][n].outcome # "none"
    PROVE  CreditInv'
  <1>1. \A d \in Deliveries, n \in Numbers : Credits(d, n)' = Credits(d, n)
    BY DEF Credits
  <1>2. ASSUME NEW d \in Deliveries, NEW n \in Numbers
        PROVE  /\ attempts'[d][n].trigger # "manual" => Credits(d, n)' = {}
               /\ attempts'[d][n].trigger = "manual" =>
                     \E day \in Day(attempts'[d][n].started)
                                  .. Day(attempts'[d][n].started + ClaimTime) :
                        Credits(d, n)' = {[on |-> d, attempt |-> n, day |-> day]}
    <2>1. CASE /\ attempts'[d][n].trigger = attempts[d][n].trigger
               /\ attempts'[d][n].started = attempts[d][n].started
      BY <1>1, <2>1 DEF CreditInv, CreditsMatchAttempts
    <2>2. CASE attempts[d][n].trigger # "manual" /\ attempts'[d][n].trigger = "initial"
      BY <1>1, <2>2 DEF CreditInv, CreditsMatchAttempts
    <2> QED BY <2>1, <2>2
  <1>3. \A d \in Deliveries, n \in Numbers :
           attempts'[d][n].outcome = "none" => attempts'[d][n].trigger = "none"
    BY DEF CreditInv
  <1>4. CreditsMatchAttempts'
    BY <1>2 DEF CreditInv, CreditsMatchAttempts, Day
  <1> QED BY <1>3, <1>4 DEF CreditInv

\* A retry's claim takes exactly one credit for the attempt it inserts, of a day
\* between the claim's call and its commit.
LEMMA CreditTaken ==
    ASSUME IInv, CreditInv, WaitInv, NEW s \in Senders, ClaimManual(s)
    PROVE  CreditInv'
  <1> DEFINE d == req[s].on
             n == delivery[d].retryCount + 2
             v_now == req[s].asked
  <1>1. /\ d \in Deliveries
        /\ n \in Numbers
        /\ v_now \in Nat
        /\ InsertAttempt(s, n, "manual")
    BY ManualFacts
  <1>2. TypeOK /\ now \in Nat /\ ClaimTime \in Nat
    BY BoundsAssumption DEF IInv, TypeOK
  <1>3. PICK today \in BudgetDays(s) :
           /\ today \in Days
           /\ CreditAvailable(today)
           /\ ReserveRetryCredit(d, n, today)
    BY ManualFacts
  <1> DEFINE new == [on |-> d, attempt |-> n, day |-> today]
  <1>4. today \in Day(v_now) .. Day(v_now + ClaimTime)
    <2>1. PICK t \in v_now .. now : today = Day(t)
      BY <1>3 DEF BudgetDays
    <2>2. now <= v_now + ClaimTime
      BY DEF WaitInv, ClaimManual, Waiting
    <2>3. t \in Nat /\ v_now <= t /\ t <= v_now + ClaimTime /\ v_now + ClaimTime \in Nat
      BY <1>1, <1>2, <2>1, <2>2
    <2> HIDE DEF v_now
    <2>4. /\ Day(v_now) \in Nat /\ Day(t) \in Nat /\ Day(v_now + ClaimTime) \in Nat
          /\ Day(v_now) <= Day(t) /\ Day(t) <= Day(v_now + ClaimTime)
      BY <1>1, <2>3, DayMonotone
    <2> QED BY <2>1, <2>4
  <1>5. attempts[d][n].outcome = "none" /\ attempts[d][n].trigger = "none"
    BY <1>1 DEF InsertAttempt, CreditInv
  <1>6. Credits(d, n) = {}
    BY <1>1, <1>5 DEF CreditInv, CreditsMatchAttempts
  <1>7. /\ attempts'[d][n].outcome = "open"
        /\ attempts'[d][n].trigger = "manual"
        /\ attempts'[d][n].started = v_now
        /\ \A e \in Deliveries, m \in Numbers :
              ~(e = d /\ m = n) => attempts'[e][m] = attempts[e][m]
    BY <1>1, <1>2, InsertRows
  <1>8. /\ reservations' = reservations \cup {new}
        /\ creditsUsed' = [creditsUsed EXCEPT ![today] = @ + 1]
    BY <1>3 DEF ReserveRetryCredit
  \* Rigid names, for the values before the step.
  <1>9. PICK on, number, start : on = d /\ number = n /\ start = v_now
    OBVIOUS
  <1> DEFINE credit == [on |-> on, attempt |-> number, day |-> today]
  <1>10. /\ on \in Deliveries /\ number \in Numbers
         /\ today \in Day(start) .. Day(start + ClaimTime)
         /\ Credits(on, number) = {}
         /\ reservations' = reservations \cup {credit}
         /\ attempts'[on][number].outcome = "open"
         /\ attempts'[on][number].trigger = "manual"
         /\ attempts'[on][number].started = start
         /\ \A e \in Deliveries, m \in Numbers :
               ~(e = on /\ m = number) => attempts'[e][m] = attempts[e][m]
    BY <1>1, <1>4, <1>6, <1>7, <1>8, <1>9
  <1>11. credit \notin reservations /\ credit.day = today
    BY <1>10 DEF Credits
  <1> HIDE DEF d, n, v_now
  <1>12. ASSUME NEW e \in Deliveries, NEW m \in Numbers
         PROVE  /\ attempts'[e][m].trigger # "manual" => Credits(e, m)' = {}
                /\ attempts'[e][m].trigger = "manual" =>
                      \E day \in Day(attempts'[e][m].started)
                                   .. Day(attempts'[e][m].started + ClaimTime) :
                         Credits(e, m)' = {[on |-> e, attempt |-> m, day |-> day]}
    <2>1. CASE e = on /\ m = number
      <3>1. Credits(e, m)' = {credit}
        BY <1>10, <2>1 DEF Credits
      <3> QED BY <1>10, <2>1, <3>1
    <2>2. CASE ~(e = on /\ m = number)
      <3>1. Credits(e, m)' = Credits(e, m)
        BY <1>10, <2>2 DEF Credits
      <3>2. attempts'[e][m] = attempts[e][m]
        BY <1>10, <2>2
      <3> QED BY <3>1, <3>2 DEF CreditInv, CreditsMatchAttempts
    <2> QED BY <2>1, <2>2
  <1>13. IsFiniteSet(reservations')
    BY <1>10, FS_AddElement DEF CreditInv
  <1>14. ASSUME NEW day \in Days
         PROVE  /\ creditsUsed'[day] = Cardinality({x \in reservations' : x.day = day})
                /\ creditsUsed'[day] <= RetryCreditLimit
    <2> DEFINE old == {x \in reservations : x.day = day}
    <2>1. /\ creditsUsed[day] = Cardinality(old)
          /\ creditsUsed[day] <= RetryCreditLimit
          /\ creditsUsed \in [Days -> Nat]
      BY <1>2 DEF CreditInv, CreditsMatchAttempts, TypeOK
    <2>2. CASE day # today
      <3>1. {x \in reservations' : x.day = day} = old
        BY <1>10, <1>11, <2>2
      <3> QED BY <1>3, <1>8, <2>1, <2>2, <3>1
    <2>3. CASE day = today
      <3>1. {x \in reservations' : x.day = day} = old \cup {credit}
        BY <1>10, <1>11, <2>3
      <3>2. IsFiniteSet(old) /\ credit \notin old
        BY <1>11, FS_Subset DEF CreditInv
      <3>3. Cardinality(old \cup {credit}) = Cardinality(old) + 1
        BY <3>2, FS_AddElement
      <3>4. creditsUsed'[day] = creditsUsed[day] + 1
        BY <1>3, <1>8, <2>1, <2>3
      <3>5. creditsUsed[day] + 1 <= RetryCreditLimit
        BY <1>3, <2>3 DEF CreditAvailable
      <3> QED BY <2>1, <3>1, <3>3, <3>4, <3>5
    <2> QED BY <2>2, <2>3
  <1>15. CreditsMatchAttempts'
    BY <1>12, <1>14 DEF CreditsMatchAttempts, Day
  <1>16. \A e \in Deliveries, m \in Numbers :
            attempts'[e][m].outcome = "none" => attempts'[e][m].trigger = "none"
    BY <1>10 DEF CreditInv
  <1> QED BY <1>13, <1>15, <1>16 DEF CreditInv

LEMMA WaitInit == Init => WaitInv
  BY DEF Init, WaitInv, Waiting, Ended

\* A claim that waits was waiting before, or is called by this step; and time
\* passes only while every claim that waits has some of its time left.
LEMMA WaitStep ==
    ASSUME IInv, WaitInv, [Next]_vars
    PROVE  WaitInv'
  <1> SUFFICES ASSUME NEW t \in Senders, req'[t].pc \in Waiting
               PROVE  now' <= req'[t].asked + ClaimTime
    BY DEF WaitInv
  <1>0. TypeOK /\ now \in Nat /\ ClaimTime \in Nat
    BY BoundsAssumption DEF IInv, TypeOK
  <1>1. ASSUME NEW s \in Senders, SenderStep(s)
        PROVE  now' <= req'[t].asked + ClaimTime
    <2>1. CASE req'[t] = req[t]
      BY <1>0, <1>1, <2>1, StageStep DEF WaitInv
    <2>2. CASE req'[t] # req[t]
      <3>1. s = t
        BY <1>0, <1>1, <2>2, StageStep
      <3>2. req'[t].asked = now /\ now' = now
        BY <1>0, <1>1, <3>1, StageStep DEF Waiting
      <3> QED BY <1>0, <3>2
    <2> QED BY <2>1, <2>2
  <1>2. ASSUME NEW r \in Reviewers, NEW d \in Deliveries, NEW confirmed \in BOOLEAN,
               StartRetry(r, d, confirmed)
        PROVE  now' <= req'[t].asked + ClaimTime
    <2>1. req'[t] = req[t] /\ now' = now
      BY <1>0, <1>2 DEF StartRetry, TypeOK, Waiting
    <2> QED BY <2>1 DEF WaitInv
  <1>3. CASE Tick
    <2>1. /\ req'[t] = req[t] /\ now' = now + 1
          /\ now < req[t].asked + ClaimTime
      BY <1>3 DEF Tick
    <2>2. req[t].asked \in Nat
      BY <1>0, <2>1, LiveRequest DEF TypeOK, Working
    <2> QED BY <1>0, <2>1, <2>2
  <1>4. CASE ProcessRestart
    BY <1>4 DEF ProcessRestart, Ended, Waiting
  <1>5. CASE UNCHANGED vars
    BY <1>5 DEF vars, WaitInv
  <1> QED BY <1>1, <1>2, <1>3, <1>4, <1>5 DEF Next, System

\* Every manual attempt has exactly one credit, of a day between its start and the
\* end of its claim's time, no credit is taken without one, and no day goes over
\* its limit.
THEOREM CreditsAreExact == Spec => []CreditsMatchAttempts
  <1>1. ASSUME IInv, CreditInv, WaitInv, [Next]_vars PROVE CreditInv'
    <2>0. TypeOK
      BY <1>1 DEF IInv
    <2>1. CASE UNCHANGED database
      <3>1. UNCHANGED <<reservations, creditsUsed, attempts>>
        BY <2>1 DEF database
      <3> QED BY <1>1, <3>1, CreditSame
    <2>2. ASSUME NEW s \in Senders, ClaimInitial(s) PROVE CreditInv'
      <3>1. /\ req[s].on \in Deliveries
            /\ 1 \in Numbers
            /\ InsertAttempt(s, 1, "initial")
        BY <1>1, <2>2, InitialFacts
      <3>2. /\ attempts[req[s].on][1].outcome = "none"
            /\ UNCHANGED <<reservations, creditsUsed>>
        BY <2>2, <3>1 DEF ClaimInitial, InsertAttempt
      <3>3. attempts[req[s].on][1].trigger = "none"
        BY <1>1, <3>1, <3>2 DEF CreditInv
      <3>4. /\ attempts'[req[s].on][1].outcome = "open"
            /\ attempts'[req[s].on][1].trigger = "initial"
            /\ \A e \in Deliveries, m \in Numbers :
                  ~(e = req[s].on /\ m = 1) => attempts'[e][m] = attempts[e][m]
        BY <2>0, <3>1, InsertRows
      <3> QED BY <1>1, <3>2, <3>3, <3>4, CreditSame
    <2>3. ASSUME NEW s \in Senders, ClaimManual(s) PROVE CreditInv'
      BY <1>1, <2>3, CreditTaken
    <2>4. ASSUME NEW s \in Senders, ExpireClaim(s) \/ Complete(s) PROVE CreditInv'
      <3>1. PICK d \in Deliveries, n \in Numbers, outcome \in Outcomes :
               CloseAttempt(d, n, outcome)
        BY <1>1, <2>4, ClosingFacts
      <3>2. /\ attempts'[d][n].outcome = outcome
            /\ attempts'[d][n].started = attempts[d][n].started
            /\ attempts'[d][n].trigger = attempts[d][n].trigger
            /\ \A e \in Deliveries, m \in Numbers :
                  ~(e = d /\ m = n) => attempts'[e][m] = attempts[e][m]
        BY <2>0, <3>1, CloseRows
      <3>3. outcome # "none"
        BY DEF Outcomes
      <3>4. UNCHANGED <<reservations, creditsUsed>>
        BY <3>1 DEF CloseAttempt
      <3> QED BY <1>1, <3>2, <3>3, <3>4, CreditSame
    <2> QED BY <1>1, <2>1, <2>2, <2>3, <2>4, WritingSteps
  <1>2. CreditInv => CreditsMatchAttempts
    BY DEF CreditInv
  <1>3. IInv /\ CreditInv /\ WaitInv /\ [Next]_vars => CreditInv' /\ WaitInv'
    BY <1>1, WaitStep
  <1> QED BY <1>2, <1>3, CreditInit, WaitInit, Invariance, PTL DEF Spec

--------------------------------------------------------------------------------
(* What the attempt history says of the provider, for one that never answers 5xx *)
(* to mail it has accepted.                                                      *)

\* What a request is about to record is true.
ResultTrue(s) ==
    req[s].pc = "complete" =>
        /\ req[s].result = "provider_accepted" => <<req[s].on, req[s].attempt>> \in accepted
        /\ req[s].result = "failed" => <<req[s].on, req[s].attempt>> \notin accepted

\* Mail is only taken for attempts that exist.
AcceptedExists ==
    \A d \in Deliveries, n \in Numbers :
        <<d, n>> \in accepted => attempts[d][n].outcome # "none"

\* The attempt after an unknown one was confirmed.
UnknownConfirmed ==
    \A d \in Deliveries, m \in Numbers, n \in Numbers :
        /\ n = m + 1
        /\ attempts[d][m].outcome = "unknown"
        /\ attempts[d][n].outcome # "none"
        => attempts[d][n].confirmed

OInv ==
    /\ IInv
    /\ \A s \in Senders : ResultTrue(s)
    /\ AcceptedExists
    /\ RecordedOutcomesTrue
    /\ UnknownConfirmed

LEMMA OInit == Init => OInv
  <1> SUFFICES ASSUME Init PROVE OInv
    OBVIOUS
  <1>1. IInv
    BY InitInv
  <1>2. \A s \in Senders : req[s].pc # "complete"
    BY DEF Init, Ended
  <1>3. accepted = {} /\ \A d \in Deliveries, n \in Numbers : attempts[d][n].outcome = "none"
    BY DEF Init, NoAttempt
  <1> QED
    BY <1>1, <1>2, <1>3 DEF OInv, ResultTrue, AcceptedExists, RecordedOutcomesTrue,
                            UnknownConfirmed

\* A request comes to its last stage only with the provider's answer.
LEMMA CompleteStage ==
    ASSUME IInv, [Next]_vars, NEW t \in Senders, req'[t].pc = "complete"
    PROVE  req'[t] = req[t] \/ ReplyArrives(t)
  <1>0. TypeOK
    BY DEF IInv
  <1>1. ASSUME NEW r \in Reviewers, NEW d \in Deliveries, NEW confirmed \in BOOLEAN,
               StartRetry(r, d, confirmed)
        PROVE  req'[t] = req[t]
    BY <1>0, <1>1 DEF StartRetry, TypeOK
  <1>2. ASSUME NEW s \in Senders, SenderStep(s)
        PROVE  req'[t] = req[t] \/ ReplyArrives(t)
    BY <1>0, <1>2, StageStep DEF Waiting
  <1>3. CASE ProcessRestart
    BY <1>3 DEF ProcessRestart, Ended
  <1>4. CASE Tick \/ UNCHANGED vars
    BY <1>4 DEF Tick, vars
  <1> QED BY <1>1, <1>2, <1>3, <1>4 DEF Next, System

\* What the provider has taken grows by what one request transmits.
LEMMA AcceptedStep ==
    ASSUME [Next]_vars
    PROVE  \/ UNCHANGED accepted
           \/ \E s \in Senders :
                 /\ req[s].pc = "send"
                 /\ accepted' = accepted \cup {<<req[s].on, req[s].attempt>>}
                 /\ Transmit(s)
  <1> USE DEF database
  <1>1. ASSUME NEW s \in Senders, SenderStep(s), ~Transmit(s) PROVE UNCHANGED accepted
    BY <1>1 DEF SenderStep, ReconcileNothing, ReconcileActiveLease, ExpireClaim,
       ReadState, CallInitial, CallClaim, ClaimInitial, InitialUnavailable, ClaimManual,
       ManualRefused, ReplyArrives, Complete, CompleteIgnored, RequestFails
  <1>2. ASSUME NEW s \in Senders, Transmit(s)
        PROVE  \/ UNCHANGED accepted
               \/ req[s].pc = "send" /\ accepted' = accepted \cup {<<req[s].on, req[s].attempt>>}
    BY <1>2 DEF Transmit
  <1> QED
    BY <1>1, <1>2 DEF Next, System, StartRetry, ProcessRestart, Tick, vars

\* What the adapter makes of an answer is true of the mail it answers.
LEMMA ClassifyTrue ==
    ASSUME ~ServerErrorMayFollowAcceptance, NEW taken \in BOOLEAN,
           NEW reply \in Replies(taken)
    PROVE  /\ Classify(reply) = "provider_accepted" => taken
           /\ Classify(reply) = "failed" => ~taken
  BY DEF Replies, Classify

LEMMA ResultStep ==
    ASSUME ~ServerErrorMayFollowAcceptance, OInv, [Next]_vars, NEW t \in Senders
    PROVE  ResultTrue(t)'
  <1> SUFFICES ASSUME req'[t].pc = "complete"
               PROVE  /\ req'[t].result = "provider_accepted" =>
                            <<req'[t].on, req'[t].attempt>> \in accepted'
                      /\ req'[t].result = "failed" =>
                            <<req'[t].on, req'[t].attempt>> \notin accepted'
    BY DEF ResultTrue
  <1>0. IInv /\ TypeOK /\ ResultTrue(t)
    BY DEF OInv, IInv
  <1>1. CASE ReplyArrives(t)
    <2> DEFINE taken == <<req[t].on, req[t].attempt>> \in accepted
    <2>1. PICK reply \in Replies(taken) :
             req' = [req EXCEPT ![t] = [[req[t] EXCEPT !.pc = "complete"]
                                           EXCEPT !.result = Classify(reply)]]
      BY <1>1 DEF ReplyArrives
    <2>2. req[t] \in [pc : Working \cup Holding, on : Deliveries, confirmed : BOOLEAN,
                      asked : Nat, attempt : Numbers \cup {0}, result : Outcomes \cup {"none"}]
      BY <1>0, <1>1, LiveRequest DEF TypeOK, ReplyArrives, Holding
    <2>3. /\ req'[t].on = req[t].on /\ req'[t].attempt = req[t].attempt
          /\ req'[t].result = Classify(reply)
      BY <1>0, <2>1, <2>2 DEF TypeOK
    <2>4. /\ Classify(reply) = "provider_accepted" => taken
          /\ Classify(reply) = "failed" => ~taken
      <3>1. taken \in BOOLEAN
        OBVIOUS
      <3> HIDE DEF taken
      <3> QED BY <3>1, ClassifyTrue
    <2>5. accepted' = accepted
      BY <1>1 DEF ReplyArrives
    <2> QED BY <2>3, <2>4, <2>5
  <1>2. CASE req'[t] = req[t]
    <2>1. CASE UNCHANGED accepted
      BY <1>0, <1>2, <2>1 DEF ResultTrue
    <2>2. ASSUME NEW s \in Senders, req[s].pc = "send",
                 accepted' = accepted \cup {<<req[s].on, req[s].attempt>>}
          PROVE  <<req[t].on, req[t].attempt>> \in accepted' <=>
                    <<req[t].on, req[t].attempt>> \in accepted
      BY <1>0, <1>2, <2>2 DEF IInv, SoleHolder, Holding
    <2> QED BY <1>0, <1>2, <2>1, <2>2, AcceptedStep DEF ResultTrue
  <1> QED BY <1>0, <1>1, <1>2, CompleteStage

\* Where a step ends an attempt, what it records is true.
LEMMA ClosesTruly ==
    ASSUME OInv, [Next]_vars, NEW d \in Deliveries, NEW n \in Numbers,
           attempts[d][n].outcome = "open", attempts'[d][n].outcome # "open"
    PROVE  /\ attempts'[d][n].outcome = "provider_accepted" => <<d, n>> \in accepted
           /\ attempts'[d][n].outcome = "failed" => <<d, n>> \notin accepted
           /\ UNCHANGED accepted
  <1>0. IInv /\ TypeOK /\ attempts \in [Deliveries -> [Numbers -> Attempt]]
    BY DEF OInv, IInv, TypeOK
  <1>1. ~UNCHANGED attempts
    OBVIOUS
  <1>2. ~(\E e \in Deliveries, m \in Numbers, c \in BOOLEAN : Opens(e, m, c))
    BY <1>0, OpensEffect DEF Opens
  <1>3. ASSUME NEW s \in Senders, ExpireClaim(s)
        PROVE  attempts'[d][n].outcome = "unknown" /\ UNCHANGED accepted
    <2> DEFINE e == req[s].on
               m == delivery[e].active
    <2>1. e \in Deliveries
      BY <1>0, <1>3, LiveRequest DEF ExpireClaim, TypeOK, Working
    <2>2. delivery[e].state = "processing" /\ DeliveryShape(e)
      BY <1>0, <1>3, <2>1 DEF ExpireClaim, IInv
    <2>3. /\ delivery[e].retryCount \in 0 .. MaxRetries
          /\ m = delivery[e].retryCount + 1
      BY <1>0, <2>1, <2>2 DEF TypeOK, Delivery, DeliveryShape
    <2>4. m \in Numbers
      BY <2>3, BoundsAssumption DEF Numbers
    <2>5. Closes(e, m, "unknown") /\ UNCHANGED accepted
      BY <1>3 DEF ExpireClaim, CloseAttempt, Closes
    <2> HIDE DEF e, m
    <2>6. e = d /\ m = n
      BY <1>0, <2>1, <2>4, <2>5, ClosesEffect DEF Outcomes
    <2> QED BY <1>0, <2>1, <2>4, <2>5, <2>6, ClosesEffect DEF Outcomes
  <1>4. ASSUME NEW s \in Senders, Complete(s)
        PROVE  /\ attempts'[d][n].outcome = req[s].result
               /\ <<d, n>> = <<req[s].on, req[s].attempt>>
               /\ UNCHANGED accepted
               /\ req[s].pc = "complete"
    <2>1. /\ req[s].on \in Deliveries
          /\ req[s].attempt \in Numbers
          /\ req[s].result \in Outcomes
      BY <1>0, <1>4, LiveRequest DEF Complete, TypeOK, IInv, Holding, HolderShape
    <2>2. Closes(req[s].on, req[s].attempt, req[s].result) /\ UNCHANGED accepted
      BY <1>4 DEF Complete, ClaimStands, CloseAttempt, Closes
    <2>3. req[s].on = d /\ req[s].attempt = n
      BY <1>0, <2>1, <2>2, ClosesEffect
    <2>4. attempts'[d][n].outcome = req[s].result
      BY <1>0, <2>1, <2>2, <2>3, ClosesEffect
    <2> QED BY <1>4, <2>2, <2>3, <2>4 DEF Complete
  <1>5. ASSUME NEW s \in Senders, ClaimInitial(s) \/ ClaimManual(s) PROVE FALSE
    BY <1>0, <1>5 DEF ClaimInitial, ClaimManual, InsertAttempt
  <1>6. \E s \in Senders : ExpireClaim(s) \/ Complete(s)
    BY <1>1, <1>5 DEF Next, System, SenderStep, StartRetry, ProcessRestart, Tick, vars,
       database, ReconcileNothing, ReconcileActiveLease, ReadState, CallInitial,
       CallClaim, InitialUnavailable, ManualRefused, Transmit, ReplyArrives, CompleteIgnored, RequestFails
  <1>7. \A s \in Senders : ResultTrue(s)
    BY DEF OInv
  <1> QED BY <1>3, <1>4, <1>6, <1>7 DEF ResultTrue

LEMMA OutcomeStep ==
    ASSUME ~ServerErrorMayFollowAcceptance, OInv, [Next]_vars
    PROVE  OInv'
  <1>0. /\ IInv /\ TypeOK /\ attempts \in [Deliveries -> [Numbers -> Attempt]]
        /\ \A s \in Senders : HolderShape(s)
        /\ \A d \in Deliveries : DeliveryShape(d)
    BY DEF OInv, IInv, TypeOK
  <1>1. IInv' /\ TypeOK'
    BY <1>0, StepInv DEF IInv
  <1>2. \A s \in Senders : ResultTrue(s)'
    BY ResultStep
  \* What the attempt of a transmission looks like.
  <1>3. ASSUME NEW d \in Deliveries, NEW n \in Numbers, <<d, n>> \in accepted',
               <<d, n>> \notin accepted
        PROVE  attempts[d][n].outcome \in {"open", "unknown"} /\ UNCHANGED attempts
    <2>1. PICK s \in Senders :
             /\ req[s].pc = "send"
             /\ accepted' = accepted \cup {<<req[s].on, req[s].attempt>>}
             /\ Transmit(s)
      BY <1>3, AcceptedStep
    <2>2. d = req[s].on /\ n = req[s].attempt
      BY <1>3, <2>1
    <2>3. UNCHANGED attempts
      BY <2>1 DEF Transmit, database
    <2> QED BY <1>0, <2>1, <2>2, <2>3 DEF HolderShape, Holding
  \* The history as this step leaves it: a row is new, the same, or just ended.
  <1>4. ASSUME NEW d \in Deliveries, NEW n \in Numbers
        PROVE  \/ attempts[d][n].outcome = "none" /\ attempts'[d][n].outcome = "open"
               \/ attempts'[d][n] = attempts[d][n]
               \/ /\ attempts[d][n].outcome = "open"
                  /\ attempts'[d][n].outcome \in Outcomes
                  /\ attempts'[d][n].confirmed = attempts[d][n].confirmed
    <2>1. ASSUME NEW e \in Deliveries, NEW m \in Numbers, NEW c \in BOOLEAN, Opens(e, m, c)
          PROVE  \/ attempts[d][n].outcome = "none" /\ attempts'[d][n].outcome = "open"
                 \/ attempts'[d][n] = attempts[d][n]
      BY <1>0, <2>1, OpensEffect DEF Opens
    <2>2. ASSUME NEW e \in Deliveries, NEW m \in Numbers, NEW outcome \in Outcomes,
                 Closes(e, m, outcome)
          PROVE  \/ attempts'[d][n] = attempts[d][n]
                 \/ /\ attempts[d][n].outcome = "open"
                    /\ attempts'[d][n].outcome \in Outcomes
                    /\ attempts'[d][n].confirmed = attempts[d][n].confirmed
      <3>1. attempts[e][m].outcome = "open"
        BY <2>2 DEF Closes
      <3> QED BY <1>0, <2>2, <3>1, ClosesEffect
    <2> QED BY <1>0, <2>1, <2>2, AttemptStep
  <1>5. AcceptedExists'
    <2> SUFFICES ASSUME NEW d \in Deliveries, NEW n \in Numbers, <<d, n>> \in accepted'
                 PROVE  attempts'[d][n].outcome # "none"
      BY DEF AcceptedExists
    <2>1. attempts[d][n].outcome # "none"
      BY <1>3 DEF OInv, AcceptedExists
    <2> QED BY <1>4, <2>1 DEF Outcomes
  <1>6. RecordedOutcomesTrue'
    <2> SUFFICES ASSUME NEW d \in Deliveries, NEW n \in Numbers
                 PROVE  /\ attempts'[d][n].outcome = "provider_accepted" =>
                              <<d, n>> \in accepted'
                        /\ attempts'[d][n].outcome = "failed" => <<d, n>> \notin accepted'
      BY DEF RecordedOutcomesTrue
    <2>1. accepted \subseteq accepted'
      BY AcceptedStep
    <2>2. CASE attempts'[d][n] = attempts[d][n]
      BY <1>3, <2>1, <2>2 DEF OInv, RecordedOutcomesTrue
    <2>3. CASE attempts[d][n].outcome = "open" /\ attempts'[d][n].outcome \in Outcomes
      BY <2>3, ClosesTruly DEF Outcomes
    <2> QED BY <1>4, <2>2, <2>3
  <1>7. UnknownConfirmed'
    <2> SUFFICES ASSUME NEW d \in Deliveries, NEW m \in Numbers, NEW n \in Numbers,
                        n = m + 1, attempts'[d][m].outcome = "unknown",
                        attempts'[d][n].outcome # "none"
                 PROVE  attempts'[d][n].confirmed
      BY DEF UnknownConfirmed
    <2>1. CASE attempts[d][n].outcome = "none"
      <3>1. attempts'[d][n] # attempts[d][n]
        BY <2>1
      <3>2. PICK e \in Deliveries, k \in Numbers, c \in BOOLEAN : Opens(e, k, c)
        <4>1. ASSUME NEW e \in Deliveries, NEW k \in Numbers, NEW outcome \in Outcomes,
                     Closes(e, k, outcome)
              PROVE  FALSE
          <5>1. attempts[e][k].outcome = "open"
            BY <4>1 DEF Closes
          <5> QED BY <1>0, <2>1, <3>1, <4>1, <5>1, ClosesEffect
        <4> QED BY <1>0, <3>1, <4>1, AttemptStep
      <3>3. e = d /\ k = n /\ attempts'[d][n].confirmed = c
        BY <1>0, <3>1, <3>2, OpensEffect
      <3>4. m # n
        BY DEF Numbers
      <3>5. attempts'[d][m] = attempts[d][m]
        BY <1>0, <3>2, <3>3, <3>4, OpensEffect
      <3> QED BY <3>2, <3>3, <3>5 DEF Opens
    <2>2. CASE attempts[d][n].outcome # "none"
      <3>1. attempts'[d][n].confirmed = attempts[d][n].confirmed
        BY <1>4, <2>2
      <3>2. attempts[d][m].outcome \in {"failed", "unknown"}
        <4>1. /\ delivery[d].retryCount \in 0 .. MaxRetries /\ MaxRetries \in Nat
              /\ DeliveryShape(d)
          BY <1>0, BoundsAssumption DEF TypeOK, Delivery
        <4>2. delivery[d].state # "pending"
          BY <2>2, <4>1 DEF DeliveryShape
        <4> QED BY <2>2, <4>1, <4>2 DEF DeliveryShape, Numbers
      <3>3. attempts[d][m].outcome = "unknown"
        BY <1>4, <3>2
      <3> QED BY <2>2, <3>1, <3>3 DEF OInv, UnknownConfirmed
    <2> QED BY <2>1, <2>2
  <1> QED BY <1>1, <1>2, <1>5, <1>6, <1>7 DEF OInv

--------------------------------------------------------------------------------
(* Theorems.                                                                    *)

\* If a 5xx answer always means the mail was not taken, then what is on record is
\* true: accepted mail was taken, and failed mail was not, whichever requests
\* race, die or report late.
THEOREM OutcomesTrue == ~ServerErrorMayFollowAcceptance => (Spec => []RecordedOutcomesTrue)
  <1> SUFFICES ASSUME ~ServerErrorMayFollowAcceptance PROVE Spec => []RecordedOutcomesTrue
    OBVIOUS
  <1>1. OInv /\ [Next]_vars => OInv'
    BY OutcomeStep
  <1>2. OInv => RecordedOutcomesTrue
    BY DEF OInv
  <1> QED BY OInit, <1>1, <1>2, PTL DEF Spec

\* Under the same assumption no mail is taken twice unless a reviewer confirmed
\* the risk when the attempt right after the earlier one was claimed.
THEOREM DuplicateRiskConfirmed ==
    ~ServerErrorMayFollowAcceptance => (Spec => []DuplicatesConfirmed)
  <1> SUFFICES ASSUME ~ServerErrorMayFollowAcceptance PROVE Spec => []DuplicatesConfirmed
    OBVIOUS
  <1>1. OInv /\ [Next]_vars => OInv'
    BY OutcomeStep
  <1>2. ASSUME OInv, NEW d \in Deliveries, NEW m \in Numbers, NEW n \in Numbers,
               <<d, m>> \in accepted, <<d, n>> \in accepted, m < n
        PROVE  attempts[d][m + 1].confirmed
    <2> DEFINE k == delivery[d].retryCount + 1
    <2>1. /\ MaxRetries \in Nat
          /\ delivery[d] \in Delivery
          /\ DeliveryShape(d)
      BY <1>2, BoundsAssumption DEF OInv, IInv, TypeOK
    <2>2. delivery[d].retryCount \in 0 .. MaxRetries /\ k \in Numbers
      BY <2>1 DEF Delivery, Numbers
    <2>3. attempts[d][n].outcome # "none" /\ attempts[d][m].outcome # "failed"
      BY <1>2 DEF OInv, AcceptedExists, RecordedOutcomesTrue
    <2>4. delivery[d].state # "pending"
      BY <2>1, <2>3 DEF DeliveryShape
    <2>5. n <= k
      BY <2>1, <2>2, <2>3, <2>4 DEF DeliveryShape, Numbers
    <2>6. attempts[d][m].outcome = "unknown"
      BY <1>2, <2>1, <2>2, <2>3, <2>4, <2>5 DEF DeliveryShape, Numbers
    <2>7. m + 1 \in Numbers /\ m + 1 <= k
      BY <1>2, <2>1, <2>2, <2>5 DEF Numbers
    <2>8. attempts[d][m + 1].outcome # "none"
      <3>1. CASE m + 1 = k
        <4>1. delivery[d].state \in Outcomes \cup {"processing"}
          BY <2>1, <2>4 DEF Delivery
        <4> QED BY <2>1, <3>1, <4>1 DEF DeliveryShape, Outcomes
      <3>2. CASE m + 1 # k
        BY <2>1, <2>2, <2>4, <2>7, <3>2 DEF DeliveryShape, Numbers
      <3> QED BY <3>1, <3>2
    <2> QED BY <1>2, <2>6, <2>7, <2>8 DEF OInv, UnknownConfirmed
  <1>3. OInv => DuplicatesConfirmed
    BY <1>2 DEF DuplicatesConfirmed
  <1> QED BY OInit, <1>1, <1>3, PTL DEF Spec

================================================================================
