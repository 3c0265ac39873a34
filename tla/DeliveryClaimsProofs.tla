-------------------------- MODULE DeliveryClaimsProofs --------------------------
(* Theorems about DeliveryClaims, for every set of deliveries and reviewers and *)
(* every value of the bounds.                                                   *)
EXTENDS DeliveryClaims, TLAPS

\* How far a delivery has come, in one formula: with k = retry_count + 1, the
\* attempts before k have ended without acceptance, attempt k is what the
\* projection shows, and there is none after k.
DeliveryShape(d) ==
    LET k == delivery[d].retryCount + 1 IN
    /\ delivery[d].state = "pending" =>
          /\ delivery[d].retryCount = 0
          /\ \A n \in Numbers : attempts[d][n].outcome = "none"
    /\ delivery[d].state = "processing" =>
          delivery[d].active = k /\ attempts[d][k].outcome = "open"
    /\ delivery[d].state \in Outcomes => attempts[d][k].outcome = delivery[d].state
    /\ delivery[d].state # "pending" =>
          \A n \in Numbers :
              /\ n < k => attempts[d][n].outcome \in {"failed", "unknown"}
              /\ n > k => attempts[d][n].outcome = "none"

\* A request that holds a claim holds an attempt that exists and that nobody but
\* an expiry has ended; when it is about to record, it has an outcome to record.
HolderShape(s) ==
    /\ req[s].pc \in Holding =>
          /\ req[s].attempt \in Numbers
          /\ attempts[req[s].on][req[s].attempt].outcome \in {"open", "unknown"}
    /\ req[s].pc = "complete" => req[s].result \in Outcomes

IInv ==
    /\ TypeOK
    /\ \A d \in Deliveries : DeliveryShape(d)
    /\ \A s \in Senders : HolderShape(s)
    /\ SoleHolder

--------------------------------------------------------------------------------
(* Lemmas.                                                                      *)

\* A budget day of the horizon is one of Days.
LEMMA DayType == ASSUME NEW t \in 0 .. MaxTime PROVE Day(t) \in Days
  <1>1. /\ DayLength \in Nat \ {0} /\ MaxTime \in Nat
    BY BoundsAssumption
  <1>2. /\ t \div DayLength \in Nat
        /\ t \div DayLength <= t
    BY <1>1
  <1> QED BY <1>1, <1>2 DEF Day, Days

\* A working request is never one that has ended.
LEMMA LiveRequest ==
    ASSUME NEW r \in Request, r.pc \in Working \cup Holding
    PROVE  r \in [pc : Working \cup Holding, on : Deliveries, confirmed : BOOLEAN,
                  asked : Nat, attempt : Numbers \cup {0}, result : Outcomes \cup {"none"}]
  BY DEF Request, Working, Waiting, Holding

\* Every day the budget may read lies in the horizon.
LEMMA BudgetDaysType ==
    ASSUME TypeOK, NEW s \in Senders, req[s].pc \in Working
    PROVE  BudgetDays(s) \subseteq Days
  <1>1. req[s].asked \in Nat /\ MaxTime \in Nat /\ now \in 0 .. MaxTime
    BY LiveRequest, BoundsAssumption DEF TypeOK
  <1>2. \A t \in req[s].asked .. now : t \in 0 .. MaxTime
    BY <1>1
  <1> QED BY <1>2, DayType DEF BudgetDays

LEMMA InitInv == Init => IInv
  <1> SUFFICES ASSUME Init PROVE IInv
    OBVIOUS
  <1> USE BoundsAssumption
  <1>1. TypeOK
    <2>1. delivery \in [Deliveries -> Delivery]
      BY DEF Init, Delivery
    <2>2. attempts \in [Deliveries -> [Numbers -> Attempt]]
      BY DEF Init, Attempt, NoAttempt
    <2>3. req \in [Senders -> Request]
      BY DEF Init, Request, Working, Ended, Senders
    <2> QED BY <2>1, <2>2, <2>3 DEF Init, TypeOK
  <1>2. ASSUME NEW d \in Deliveries PROVE DeliveryShape(d)
    BY DEF Init, DeliveryShape, NoAttempt, Outcomes
  <1>3. ASSUME NEW s \in Senders PROVE req[s].pc \notin Holding
    BY DEF Init, Holding, Ended
  <1> QED BY <1>1, <1>2, <1>3 DEF IInv, HolderShape, SoleHolder, Holding

\* Opening the next attempt of a delivery keeps every invariant.
LEMMA InsertInv ==
    ASSUME IInv, NEW s \in Senders, NEW n \in Numbers,
           NEW trigger \in {"initial", "manual"},
           req[s].pc \in Working,
           InsertAttempt(s, n, trigger),
           \/ /\ trigger = "initial"
              /\ n = 1
              /\ delivery[req[s].on].state = "pending"
           \/ /\ trigger = "manual"
              /\ n = delivery[req[s].on].retryCount + 2
              /\ delivery[req[s].on].state \in {"failed", "unknown"}
              /\ delivery[req[s].on].retryCount < MaxRetries
    PROVE  /\ delivery' \in [Deliveries -> Delivery]
           /\ attempts' \in [Deliveries -> [Numbers -> Attempt]]
           /\ req' \in [Senders -> Request]
           /\ \A d \in Deliveries : DeliveryShape(d)'
           /\ \A t \in Senders : HolderShape(t)'
           /\ SoleHolder'
  <1> DEFINE on == req[s].on
             v_now == req[s].asked
             row == [outcome |-> "open", trigger |-> trigger, started |-> v_now,
                     ended |-> 0, confirmed |-> trigger = "manual" /\ req[s].confirmed]
             count == IF trigger = "manual" THEN delivery[on].retryCount + 1
                      ELSE delivery[on].retryCount
             proj == [state |-> "processing", active |-> n, expires |-> v_now + Lease,
                      retryCount |-> count, lastAttemptAt |-> v_now]
             entry == [[[req[s] EXCEPT !.pc = "send"] EXCEPT !.asked = 0]
                          EXCEPT !.attempt = n]
  <1>0. /\ MaxRetries \in Nat /\ MaxTime \in Nat /\ Lease \in Nat \ {0}
        /\ TypeOK
    BY BoundsAssumption DEF IInv
  <1>1. req[s] \in [pc : Working \cup Holding, on : Deliveries, confirmed : BOOLEAN,
                    asked : Nat, attempt : Numbers \cup {0}, result : Outcomes \cup {"none"}]
    BY <1>0, LiveRequest DEF TypeOK
  <1>2. /\ on \in Deliveries
        /\ attempts' = [attempts EXCEPT ![on] = [attempts[on] EXCEPT ![n] = row]]
        /\ delivery' = [delivery EXCEPT ![on] = proj]
        /\ req' = [req EXCEPT ![s] = entry]
        /\ attempts[on][n].outcome = "none"
    BY <1>1 DEF InsertAttempt
  <1>3. /\ row \in Attempt
        /\ v_now \in Nat
    BY <1>0, <1>1 DEF TypeOK, Attempt
  <1>4. delivery[on] \in Delivery
    BY <1>0, <1>2 DEF TypeOK
  <1>5. count \in 0 .. MaxRetries /\ n = count + 1
    BY <1>0, <1>4, <1>2 DEF IInv, DeliveryShape, Delivery
  <1>6. proj \in Delivery
    BY <1>0, <1>3, <1>5 DEF Delivery
  <1>7. delivery' \in [Deliveries -> Delivery]
    BY <1>0, <1>2, <1>6 DEF TypeOK
  <1>8. attempts' \in [Deliveries -> [Numbers -> Attempt]]
    BY <1>0, <1>2, <1>3 DEF TypeOK
  <1>9. req' \in [Senders -> Request]
    <2>1. entry \in Request
      BY <1>1 DEF Request, Working, Holding
    <2> QED BY <1>0, <1>2, <2>1 DEF TypeOK
  <1>10. /\ attempts'[on][n].outcome = "open"
         /\ \A m \in Numbers : m # n => attempts'[on][m] = attempts[on][m]
         /\ \A d \in Deliveries : d # on => attempts'[d] = attempts[d]
    BY <1>0, <1>2 DEF TypeOK
  <1>11. ASSUME NEW d \in Deliveries PROVE DeliveryShape(d)'
    <2>1. CASE d # on
      BY <1>0, <1>2, <1>10, <2>1 DEF IInv, DeliveryShape, TypeOK
    <2>2. CASE d = on
      <3>1. delivery'[d] = proj
        BY <1>0, <1>2, <2>2 DEF TypeOK
      <3>2. \A m \in Numbers :
               /\ m < n => attempts[d][m].outcome \in {"failed", "unknown"}
               /\ m > n => attempts[d][m].outcome = "none"
        BY <1>0, <1>4, <1>5, <2>2 DEF IInv, DeliveryShape, Delivery, Numbers, Outcomes
      <3>3. /\ delivery'[d].state = "processing"
            /\ delivery'[d].active = n
            /\ delivery'[d].retryCount + 1 = n
        BY <1>5, <3>1
      <3>4. \A m \in Numbers :
               /\ m < n => attempts'[d][m].outcome \in {"failed", "unknown"}
               /\ m > n => attempts'[d][m].outcome = "none"
        BY <3>2, <1>10, <2>2 DEF Numbers
      <3>5. attempts'[d][n].outcome = "open"
        BY <1>10, <2>2
      <3> HIDE DEF proj, count, row
      <3> QED
        BY <3>3, <3>4, <3>5 DEF DeliveryShape, Outcomes
    <2> QED BY <2>1, <2>2
  <1>12. /\ req'[s].pc = "send" /\ req'[s].on = on /\ req'[s].attempt = n
         /\ \A t \in Senders : t # s => req'[t] = req[t]
    BY <1>0, <1>1, <1>2 DEF TypeOK
  <1>13. ASSUME NEW t \in Senders, t # s, req[t].pc \in Holding
         PROVE  /\ ~(req[t].on = on /\ req[t].attempt = n)
                /\ attempts'[req[t].on][req[t].attempt] = attempts[req[t].on][req[t].attempt]
    <2>1. /\ req[t].attempt \in Numbers
          /\ attempts[req[t].on][req[t].attempt].outcome # "none"
      BY <1>13 DEF IInv, HolderShape
    <2>2. req[t].on \in Deliveries
      BY <1>0, <1>13, LiveRequest DEF TypeOK
    <2> QED BY <1>2, <1>10, <2>1, <2>2
  <1>14. ASSUME NEW t \in Senders PROVE HolderShape(t)'
    BY <1>10, <1>12, <1>13 DEF IInv, HolderShape, Holding
  <1>15. SoleHolder'
    <2> SUFFICES ASSUME NEW t \in Senders, NEW u \in Senders,
                        req'[t].pc \in Holding, req'[u].pc \in Holding,
                        req'[t].on = req'[u].on, req'[t].attempt = req'[u].attempt,
                        t # u
                 PROVE  FALSE
      BY DEF SoleHolder
    <2>1. CASE t = s
      BY <1>12, <1>13, <2>1
    <2>2. CASE u = s
      BY <1>12, <1>13, <2>2
    <2>3. CASE t # s /\ u # s
      BY <1>12, <2>3 DEF IInv, SoleHolder
    <2> QED BY <2>1, <2>2, <2>3
  <1> QED BY <1>7, <1>8, <1>9, <1>11, <1>14, <1>15

\* Ending the open attempt of a delivery keeps the shape of every delivery.
LEMMA CloseInv ==
    ASSUME IInv, NEW d \in Deliveries, NEW n \in Numbers, NEW outcome \in Outcomes,
           ClaimStands(d, n), CloseAttempt(d, n, outcome)
    PROVE  /\ delivery' \in [Deliveries -> Delivery]
           /\ attempts' \in [Deliveries -> [Numbers -> Attempt]]
           /\ \A e \in Deliveries : DeliveryShape(e)'
           /\ attempts'[d][n].outcome = outcome
           /\ \A e \in Deliveries, m \in Numbers :
                 ~(e = d /\ m = n) => attempts'[e][m] = attempts[e][m]
  <1> DEFINE row == [[attempts[d][n] EXCEPT !.outcome = outcome] EXCEPT !.ended = now]
             proj == [[[delivery[d] EXCEPT !.state = outcome] EXCEPT !.active = 0]
                         EXCEPT !.expires = 0]
  <1>0. /\ MaxRetries \in Nat /\ MaxTime \in Nat
        /\ TypeOK
    BY BoundsAssumption DEF IInv
  <1>1. /\ attempts' = [attempts EXCEPT ![d] = [attempts[d] EXCEPT ![n] = row]]
        /\ delivery' = [delivery EXCEPT ![d] = proj]
    BY <1>0 DEF CloseAttempt, TypeOK
  <1>2. delivery[d] \in Delivery /\ attempts[d][n] \in Attempt /\ now \in Nat
    BY <1>0 DEF TypeOK
  <1>3. row \in Attempt /\ row.outcome = outcome
    BY <1>2 DEF Attempt
  <1>4. /\ proj \in Delivery
        /\ proj.state = outcome /\ proj.retryCount = delivery[d].retryCount
    BY <1>2 DEF Delivery
  <1>5. delivery' \in [Deliveries -> Delivery]
    BY <1>0, <1>1, <1>4 DEF TypeOK
  <1>6. attempts' \in [Deliveries -> [Numbers -> Attempt]]
    BY <1>0, <1>1, <1>3 DEF TypeOK
  <1>7. /\ attempts'[d][n] = row
        /\ \A e \in Deliveries, m \in Numbers :
              ~(e = d /\ m = n) => attempts'[e][m] = attempts[e][m]
    BY <1>0, <1>1 DEF TypeOK
  <1>8. ASSUME NEW e \in Deliveries PROVE DeliveryShape(e)'
    <2>1. CASE e # d
      <3>1. delivery'[e] = delivery[e] /\ attempts'[e] = attempts[e]
        BY <1>0, <1>1, <2>1 DEF TypeOK
      <3> QED BY <3>1 DEF IInv, DeliveryShape
    <2>2. CASE e = d
      <3>1. delivery'[e] = proj
        BY <1>0, <1>1, <2>2 DEF TypeOK
      <3>2. n = delivery[d].retryCount + 1
        BY DEF IInv, DeliveryShape, ClaimStands
      <3>3. \A m \in Numbers :
               /\ m < n => attempts[d][m].outcome \in {"failed", "unknown"}
               /\ m > n => attempts[d][m].outcome = "none"
        BY <3>2 DEF IInv, DeliveryShape, ClaimStands
      <3>4. delivery'[e].state = outcome /\ delivery'[e].retryCount + 1 = n
        BY <3>1, <3>2, <1>4
      <3> QED
        BY <3>3, <3>4, <1>0, <1>3, <1>7, <2>2 DEF DeliveryShape, Outcomes, Numbers
    <2> QED BY <2>1, <2>2
  <1> QED BY <1>3, <1>5, <1>6, <1>7, <1>8

\* A step that leaves the tables alone and only lets requests end, or go on with
\* what they hold, keeps every invariant.
LEMMA RequestOnlyInv ==
    ASSUME IInv, UNCHANGED <<delivery, attempts>>, req' \in [Senders -> Request],
           \A t \in Senders :
              \/ req'[t].pc \notin Holding
              \/ /\ req[t].pc \in Holding
                 /\ req'[t].on = req[t].on
                 /\ req'[t].attempt = req[t].attempt
                 /\ req'[t].pc = "complete" => req'[t].result \in Outcomes
    PROVE  /\ \A d \in Deliveries : DeliveryShape(d)'
           /\ \A t \in Senders : HolderShape(t)'
           /\ SoleHolder'
  <1>1. \A d \in Deliveries : DeliveryShape(d)'
    BY DEF IInv, DeliveryShape
  <1>2. \A t \in Senders : HolderShape(t)'
    BY DEF IInv, HolderShape, Holding
  <1>3. SoleHolder'
    BY DEF IInv, SoleHolder
  <1> QED BY <1>1, <1>2, <1>3

\* The ways a request's entry changes while it works.
LEMMA GotoType ==
    ASSUME TypeOK, NEW s \in Senders, NEW stage \in Working \cup Holding,
           req[s].pc \in Working \cup Holding, Goto(s, stage)
    PROVE  /\ req' \in [Senders -> Request]
           /\ req'[s].pc = stage
           /\ req'[s].on = req[s].on /\ req'[s].attempt = req[s].attempt
           /\ req'[s].result = req[s].result
           /\ \A t \in Senders : t # s => req'[t] = req[t]
  <1>1. req[s] \in [pc : Working \cup Holding, on : Deliveries, confirmed : BOOLEAN,
                    asked : Nat, attempt : Numbers \cup {0}, result : Outcomes \cup {"none"}]
    BY LiveRequest DEF TypeOK
  <1>2. [req[s] EXCEPT !.pc = stage] \in Request
    BY <1>1 DEF Request
  <1>3. req' = [req EXCEPT ![s] = [req[s] EXCEPT !.pc = stage]]
    BY DEF Goto
  <1> QED BY <1>1, <1>2, <1>3 DEF TypeOK

LEMMA CallType ==
    ASSUME TypeOK, NEW s \in Senders, NEW stage \in Waiting,
           req[s].pc \in Working, CallClaim(s, stage)
    PROVE  /\ req' \in [Senders -> Request]
           /\ req'[s].pc = stage
           /\ req'[s].asked = now
           /\ \A t \in Senders : t # s => req'[t] = req[t]
  <1> DEFINE entry == [[req[s] EXCEPT !.pc = stage] EXCEPT !.asked = now]
  <1>1. req[s] \in [pc : Working \cup Holding, on : Deliveries, confirmed : BOOLEAN,
                    asked : Nat, attempt : Numbers \cup {0}, result : Outcomes \cup {"none"}]
    BY LiveRequest DEF TypeOK
  <1>2. stage \in Working /\ now \in Nat
    BY BoundsAssumption DEF Working, TypeOK
  <1>3. entry \in Request /\ entry.pc = stage /\ entry.asked = now
    BY <1>1, <1>2 DEF Request
  <1>4. req' = [req EXCEPT ![s] = entry]
    BY DEF CallClaim
  <1> HIDE DEF entry
  <1> QED BY <1>3, <1>4 DEF TypeOK

LEMMA FinishType ==
    ASSUME TypeOK, NEW s \in Senders, Finish(s)
    PROVE  /\ req' \in [Senders -> Request]
           /\ req'[s].pc \in {"idle", "done"}
           /\ \A t \in Senders : t # s => req'[t] = req[t]
  <1>1. Ended(s) \in Request /\ Ended(s).pc \in {"idle", "done"}
    BY DEF Ended, Request
  <1> QED BY <1>1 DEF Finish, TypeOK

LEMMA StepInv == IInv /\ [Next]_vars => IInv'
  <1> SUFFICES ASSUME IInv, [Next]_vars PROVE IInv'
    OBVIOUS
  <1> USE DEF IInv
  <1>0. /\ MaxRetries \in Nat /\ MaxTime \in Nat /\ Lease \in Nat \ {0}
        /\ DayLength \in Nat \ {0}
        /\ TypeOK
    BY BoundsAssumption
  <1>1. ASSUME NEW r \in Reviewers, NEW d \in Deliveries, NEW confirmed \in BOOLEAN,
               StartRetry(r, d, confirmed)
        PROVE  IInv'
    <2>1. [pc |-> "reconcile", on |-> d, confirmed |-> confirmed, asked |-> 0,
           attempt |-> 0, result |-> "none"] \in Request
      BY DEF Request, Working
    <2>2. r \in Senders
      BY DEF Senders
    <2>3. /\ req' \in [Senders -> Request]
          /\ req'[r].pc = "reconcile"
          /\ \A t \in Senders : t # r => req'[t] = req[t]
      BY <1>0, <1>1, <2>1, <2>2 DEF StartRetry, TypeOK
    <2>4. UNCHANGED <<now, database, accepted>>
      BY <1>1 DEF StartRetry
    <2>5. \A t \in Senders : HolderShape(t)
      OBVIOUS
    <2>6. /\ \A d_1 \in Deliveries : DeliveryShape(d_1)'
          /\ \A t \in Senders : HolderShape(t)'
          /\ SoleHolder'
      BY <2>3, <2>4, <2>5, RequestOnlyInv DEF database, Holding, HolderShape
    <2> QED BY <1>0, <2>3, <2>4, <2>6 DEF TypeOK, database
  <1>2. ASSUME NEW s \in Senders, NEW stage \in Working \cup Holding,
               req[s].pc \in Working \cup Holding,
               stage \in Holding => req[s].pc \in Holding /\ stage # "complete",
               Goto(s, stage), UNCHANGED <<now, database>>, accepted' \subseteq Deliveries \X Numbers
        PROVE  IInv'
    <2>1. /\ req' \in [Senders -> Request]
          /\ req'[s].pc = stage
          /\ req'[s].on = req[s].on /\ req'[s].attempt = req[s].attempt
          /\ \A t \in Senders : t # s => req'[t] = req[t]
      BY <1>0, <1>2, GotoType
    <2>2. /\ \A d \in Deliveries : DeliveryShape(d)'
          /\ \A t \in Senders : HolderShape(t)'
          /\ SoleHolder'
      BY <1>2, <2>1, RequestOnlyInv DEF database, HolderShape
    <2> QED BY <1>0, <1>2, <2>1, <2>2 DEF TypeOK, database
  <1>3. ASSUME NEW s \in Senders, Finish(s), UNCHANGED <<now, database, accepted>>
        PROVE  IInv'
    <2>1. /\ req' \in [Senders -> Request]
          /\ req'[s].pc \notin Holding
          /\ \A t \in Senders : t # s => req'[t] = req[t]
      BY <1>0, <1>3, FinishType DEF Holding
    <2>2. /\ \A d \in Deliveries : DeliveryShape(d)'
          /\ \A t \in Senders : HolderShape(t)'
          /\ SoleHolder'
      BY <1>3, <2>1, RequestOnlyInv DEF database, HolderShape
    <2> QED BY <1>0, <1>3, <2>1, <2>2 DEF TypeOK, database
  <1>4. ASSUME NEW s \in Senders, SenderStep(s)
        PROVE  IInv'
    <2> USE <1>0
    <2>1. CASE ReconcileNothing(s)
      BY <1>2, <2>1 DEF ReconcileNothing, Working, Holding, TypeOK
    <2>2. CASE ReconcileActiveLease(s)
      BY <1>3, <2>2 DEF ReconcileActiveLease
    <2>3. CASE ExpireClaim(s)
      <3> DEFINE d == req[s].on
                 n == delivery[d].active
      <3>1. d \in Deliveries
        BY <2>3, LiveRequest DEF ExpireClaim, TypeOK, Working
      <3>2. n \in Numbers
        <4>1. delivery[d].retryCount \in 0 .. MaxRetries
          BY <3>1 DEF TypeOK, Delivery
        <4>2. n = delivery[d].retryCount + 1
          BY <2>3, <3>1 DEF ExpireClaim, DeliveryShape
        <4> QED BY <4>1, <4>2 DEF Numbers
      <3>3. ClaimStands(d, n) /\ CloseAttempt(d, n, "unknown")
        BY <2>3 DEF ExpireClaim, ClaimStands
      <3>4. /\ delivery' \in [Deliveries -> Delivery]
            /\ attempts' \in [Deliveries -> [Numbers -> Attempt]]
            /\ \A e \in Deliveries : DeliveryShape(e)'
            /\ attempts'[d][n].outcome = "unknown"
            /\ \A e \in Deliveries, m \in Numbers :
                  ~(e = d /\ m = n) => attempts'[e][m] = attempts[e][m]
        BY <3>1, <3>2, <3>3, CloseInv DEF Outcomes
      <3>5. /\ req' \in [Senders -> Request]
            /\ req'[s].pc = "read"
            /\ \A t \in Senders : t # s => req'[t] = req[t]
        BY <2>3, GotoType DEF ExpireClaim, Working
      <3>6. ASSUME NEW t \in Senders PROVE HolderShape(t)'
        <4>1. CASE t = s
          BY <3>5, <4>1 DEF HolderShape, Holding
        <4>2. CASE t # s /\ req[t].pc \in Holding
          <5>1. req[t].on \in Deliveries /\ req[t].attempt \in Numbers
            BY <4>2, LiveRequest DEF TypeOK, HolderShape
          <5> QED BY <3>4, <3>5, <4>2, <5>1 DEF HolderShape
        <4>3. CASE t # s /\ req[t].pc \notin Holding
          BY <3>5, <4>3 DEF HolderShape, Holding
        <4> QED BY <4>1, <4>2, <4>3
      <3>7. SoleHolder'
        BY <3>5 DEF SoleHolder, Holding
      <3>8. UNCHANGED <<now, reservations, creditsUsed, accepted>>
        BY <2>3 DEF ExpireClaim, CloseAttempt
      <3> QED BY <3>4, <3>5, <3>6, <3>7, <3>8 DEF TypeOK
    <2>4. ASSUME NEW stage \in Waiting, req[s].pc \in Working, CallClaim(s, stage)
          PROVE  IInv'
      <3>1. /\ req' \in [Senders -> Request]
            /\ req'[s].pc \notin Holding
            /\ \A t \in Senders : t # s => req'[t] = req[t]
        BY <2>4, CallType DEF Waiting, Holding
      <3>2. UNCHANGED <<now, database, accepted>>
        BY <2>4 DEF CallClaim
      <3>3. /\ \A d \in Deliveries : DeliveryShape(d)'
            /\ \A t \in Senders : HolderShape(t)'
            /\ SoleHolder'
        BY <3>1, <3>2, RequestOnlyInv DEF database, HolderShape
      <3> QED BY <3>1, <3>2, <3>3 DEF TypeOK, database
    <2>14. CASE CallInitial(s)
      BY <2>4, <2>14 DEF CallInitial, Waiting, Working
    <2>15. CASE ReadState(s)
      BY <2>4, <2>15 DEF ReadState, Waiting, Working
    <2>5. CASE ClaimInitial(s)
      <3>1. /\ req[s].pc \in Working
            /\ InsertAttempt(s, 1, "initial")
            /\ delivery[req[s].on].state = "pending"
            /\ UNCHANGED <<now, reservations, creditsUsed, accepted>>
        BY <2>5 DEF ClaimInitial, InitialAvailable, Working, Waiting
      <3>2. 1 \in Numbers
        BY DEF Numbers
      <3>3. /\ delivery' \in [Deliveries -> Delivery]
            /\ attempts' \in [Deliveries -> [Numbers -> Attempt]]
            /\ req' \in [Senders -> Request]
            /\ \A d \in Deliveries : DeliveryShape(d)'
            /\ \A t \in Senders : HolderShape(t)'
            /\ SoleHolder'
        BY <3>1, <3>2, InsertInv
      <3> QED BY <3>1, <3>3 DEF TypeOK
    <2>6. CASE InitialUnavailable(s)
      BY <1>3, <2>6 DEF InitialUnavailable
    <2>7. CASE ClaimManual(s)
      <3> DEFINE d == req[s].on
                 n == delivery[d].retryCount + 2
      <3>0. PICK day \in BudgetDays(s) :
               ManualAvailable(s, day) /\ ReserveRetryCredit(d, n, day)
        BY <2>7 DEF ClaimManual
      <3>1. /\ req[s].pc \in Working
            /\ InsertAttempt(s, n, "manual")
            /\ delivery[d].state \in {"failed", "unknown"}
            /\ delivery[d].retryCount < MaxRetries
            /\ UNCHANGED <<now, accepted>>
        BY <2>7, <3>0 DEF ClaimManual, ManualAvailable, Working, Waiting
      <3>2. d \in Deliveries
        BY <3>1, LiveRequest DEF TypeOK
      <3>3. n \in Numbers
        <4>1. delivery[d].retryCount \in 0 .. MaxRetries
          BY <3>2 DEF TypeOK, Delivery
        <4> QED BY <3>1, <4>1 DEF Numbers
      <3>4. /\ delivery' \in [Deliveries -> Delivery]
            /\ attempts' \in [Deliveries -> [Numbers -> Attempt]]
            /\ req' \in [Senders -> Request]
            /\ \A e \in Deliveries : DeliveryShape(e)'
            /\ \A t \in Senders : HolderShape(t)'
            /\ SoleHolder'
        BY <3>1, <3>3, InsertInv
      <3>5. day \in Days
        BY <3>0, <3>1, BudgetDaysType
      <3>6. reservations' \subseteq Reservation /\ creditsUsed' \in [Days -> Nat]
        BY <3>0, <3>2, <3>3, <3>5 DEF ReserveRetryCredit, Reservation, TypeOK
      <3> QED BY <3>1, <3>4, <3>6 DEF TypeOK
    <2>8. CASE ManualRefused(s)
      BY <1>3, <2>8 DEF ManualRefused
    <2>9. CASE Transmit(s)
      <3>1. req[s].pc = "send" /\ Goto(s, "await") /\ UNCHANGED <<now, database>>
        BY <2>9 DEF Transmit
      <3>2. <<req[s].on, req[s].attempt>> \in Deliveries \X Numbers
        BY <3>1, LiveRequest DEF TypeOK, Holding, HolderShape
      <3>3. accepted' \subseteq Deliveries \X Numbers
        BY <2>9, <3>2 DEF Transmit, TypeOK
      <3> QED BY <1>2, <3>1, <3>3 DEF Working, Holding
    <2>10. CASE ReplyArrives(s)
      <3>1. PICK reply \in Replies(<<req[s].on, req[s].attempt>> \in accepted) :
               req' = [req EXCEPT ![s].pc = "complete", ![s].result = Classify(reply)]
        BY <2>10 DEF ReplyArrives
      <3>2. Classify(reply) \in Outcomes
        BY DEF Classify, Outcomes
      <3>3. req[s].pc = "await" /\ UNCHANGED <<now, database, accepted>>
        BY <2>10 DEF ReplyArrives
      <3>4. req[s] \in [pc : Working \cup Holding, on : Deliveries, confirmed : BOOLEAN,
                        asked : Nat, attempt : Numbers \cup {0}, result : Outcomes \cup {"none"}]
        BY <3>3, LiveRequest DEF TypeOK, Holding
      <3> DEFINE entry == [[req[s] EXCEPT !.pc = "complete"]
                              EXCEPT !.result = Classify(reply)]
      <3>5. req' = [req EXCEPT ![s] = entry]
        BY <3>1
      <3>6. /\ entry \in Request /\ entry.pc = "complete"
            /\ entry.result \in Outcomes
            /\ entry.on = req[s].on /\ entry.attempt = req[s].attempt
        BY <3>2, <3>4 DEF Request, Holding
      <3>7. /\ req' \in [Senders -> Request]
            /\ req'[s] = entry
            /\ \A t \in Senders : t # s => req'[t] = req[t]
        BY <3>5, <3>6 DEF TypeOK
      <3> HIDE DEF entry
      <3>8. /\ \A d \in Deliveries : DeliveryShape(d)'
            /\ \A t \in Senders : HolderShape(t)'
            /\ SoleHolder'
        BY <3>3, <3>6, <3>7, RequestOnlyInv DEF database, HolderShape, Holding
      <3> QED BY <3>3, <3>7, <3>8 DEF TypeOK, database
    <2>11. CASE Complete(s)
      <3> DEFINE d == req[s].on
                 n == req[s].attempt
      <3>1. /\ req[s].pc = "complete"
            /\ ClaimStands(d, n)
            /\ CloseAttempt(d, n, req[s].result)
            /\ Finish(s)
            /\ UNCHANGED <<now, reservations, creditsUsed, accepted>>
        BY <2>11 DEF Complete, CloseAttempt
      <3>2. d \in Deliveries /\ n \in Numbers /\ req[s].result \in Outcomes
        BY <3>1, LiveRequest DEF TypeOK, Holding, HolderShape
      <3>3. /\ delivery' \in [Deliveries -> Delivery]
            /\ attempts' \in [Deliveries -> [Numbers -> Attempt]]
            /\ \A e \in Deliveries : DeliveryShape(e)'
            /\ \A e \in Deliveries, m \in Numbers :
                  ~(e = d /\ m = n) => attempts'[e][m] = attempts[e][m]
        BY <3>1, <3>2, CloseInv
      <3>4. /\ req' \in [Senders -> Request]
            /\ req'[s].pc \notin Holding
            /\ \A t \in Senders : t # s => req'[t] = req[t]
        BY <3>1, FinishType DEF Holding
      <3>5. ASSUME NEW t \in Senders PROVE HolderShape(t)'
        <4>1. CASE t = s
          BY <3>4, <4>1 DEF HolderShape, Holding
        <4>2. CASE t # s /\ req[t].pc \in Holding
          <5>1. req[t].on \in Deliveries /\ req[t].attempt \in Numbers
            BY <4>2, LiveRequest DEF TypeOK, HolderShape
          <5>2. ~(req[t].on = d /\ req[t].attempt = n)
            BY <3>1, <4>2 DEF SoleHolder, Holding
          <5>3. attempts'[req[t].on][req[t].attempt] = attempts[req[t].on][req[t].attempt]
            BY <3>3, <5>1, <5>2
          <5> QED BY <3>4, <4>2, <5>3 DEF HolderShape
        <4>3. CASE t # s /\ req[t].pc \notin Holding
          BY <3>4, <4>3 DEF HolderShape, Holding
        <4> QED BY <4>1, <4>2, <4>3
      <3>6. SoleHolder'
        BY <3>4 DEF SoleHolder
      <3> QED BY <3>1, <3>3, <3>4, <3>5, <3>6 DEF TypeOK
    <2>12. CASE CompleteIgnored(s)
      BY <1>3, <2>12 DEF CompleteIgnored
    <2>13. CASE RequestFails(s)
      BY <1>3, <2>13 DEF RequestFails
    <2> QED
      BY <1>4, <2>1, <2>2, <2>3, <2>5, <2>6, <2>7, <2>8, <2>9, <2>10, <2>11,
         <2>12, <2>13, <2>14, <2>15 DEF SenderStep
  <1>5. CASE ProcessRestart
    <2>1. \A t \in Senders : Ended(t) \in Request /\ Ended(t).pc \notin Holding
      BY DEF Ended, Request, Holding
    <2>2. /\ req' \in [Senders -> Request]
          /\ \A t \in Senders : req'[t].pc \notin Holding
          /\ UNCHANGED <<now, database, accepted>>
      BY <1>5, <2>1 DEF ProcessRestart
    <2>3. /\ \A d \in Deliveries : DeliveryShape(d)'
          /\ \A t \in Senders : HolderShape(t)'
          /\ SoleHolder'
      BY <2>2, RequestOnlyInv DEF database
    <2> QED BY <1>0, <2>2, <2>3 DEF TypeOK, database
  <1>6. CASE Tick
    <2>1. now' \in 0 .. MaxTime /\ UNCHANGED <<database, req, accepted>>
      BY <1>0, <1>6 DEF Tick, TypeOK
    <2>2. /\ \A d \in Deliveries : DeliveryShape(d)'
          /\ \A t \in Senders : HolderShape(t)'
          /\ SoleHolder'
      BY <2>1 DEF database, DeliveryShape, HolderShape, SoleHolder
    <2> QED BY <1>0, <2>1, <2>2 DEF TypeOK, database
  <1>7. CASE UNCHANGED vars
    BY <1>0, <1>7 DEF vars, TypeOK, DeliveryShape, HolderShape, SoleHolder
  <1> QED
    BY <1>1, <1>4, <1>5, <1>6, <1>7 DEF Next, System

--------------------------------------------------------------------------------
(* Theorems.                                                                    *)

\* The inductive invariant holds of every behaviour.
THEOREM Invariance == Spec => []IInv
  BY InitInv, StepInv, PTL DEF Spec

\* Every variable keeps its type: in particular no delivery is retried more than
\* MaxRetries times, and no attempt has a number above MaxRetries + 1.
THEOREM TypeCorrect == Spec => []TypeOK
  <1>1. IInv => TypeOK
    BY DEF IInv
  <1> QED BY <1>1, Invariance, PTL

\* The projection of a delivery and its attempt history never disagree.
THEOREM ProjectionCorrect == Spec => []ProjectionMatchesHistory
  <1>1. ASSUME IInv, NEW d \in Deliveries, NEW n \in Numbers
        PROVE  /\ attempts[d][n].outcome = "open" =>
                     delivery[d].state = "processing" /\ delivery[d].active = n
               /\ IsLatest(d, n) =>
                     delivery[d].state = IF attempts[d][n].outcome = "open"
                                         THEN "processing" ELSE attempts[d][n].outcome
               /\ attempts[d][n].outcome # "none" <=>
                     delivery[d].state # "pending" /\ n <= delivery[d].retryCount + 1
    <2> DEFINE k == delivery[d].retryCount + 1
    <2>1. k \in Numbers /\ n \in Nat /\ k \in Nat
      BY <1>1, BoundsAssumption DEF IInv, TypeOK, Delivery, Numbers
    <2>2. DeliveryShape(d) /\ delivery[d] \in Delivery
      BY <1>1 DEF IInv, TypeOK
    <2>3. CASE delivery[d].state = "pending"
      BY <2>2, <2>3 DEF DeliveryShape, IsLatest
    <2>4. CASE delivery[d].state # "pending"
      <3>1. attempts[d][k].outcome =
               IF delivery[d].state = "processing" THEN "open" ELSE delivery[d].state
        BY <2>2, <2>4 DEF DeliveryShape, Delivery
      <3>2. IsLatest(d, n) => n = k
        BY <2>1, <2>2, <2>4, <3>1 DEF DeliveryShape, IsLatest, Delivery, Outcomes
      <3>3. attempts[d][n].outcome = "open" => n = k
        BY <2>1, <2>2, <2>4 DEF DeliveryShape
      <3>4. attempts[d][n].outcome # "none" <=> n <= k
        <4>1. attempts[d][k].outcome # "none"
          BY <2>2, <2>4, <3>1 DEF Delivery, Outcomes
        <4>2. /\ n < k => attempts[d][n].outcome \in {"failed", "unknown"}
              /\ n > k => attempts[d][n].outcome = "none"
          BY <2>2, <2>4 DEF DeliveryShape
        <4> QED
          BY <2>1, <4>1, <4>2
      <3> QED
        BY <2>2, <2>4, <3>1, <3>2, <3>3, <3>4 DEF DeliveryShape, Delivery, Outcomes
    <2> QED BY <2>3, <2>4
  <1>2. IInv => ProjectionMatchesHistory
    BY <1>1 DEF ProjectionMatchesHistory
  <1> QED BY <1>2, Invariance, PTL

\* No claim is in two hands: whoever still works on an attempt works on it alone.
THEOREM ClaimsExclusive == Spec => []SoleHolder
  <1>1. IInv => SoleHolder
    BY DEF IInv, HolderShape
  <1> QED BY <1>1, Invariance, PTL

\* A claim lost to its lease reads unknown, whatever its late holder answered.
THEOREM LostClaimsReadUnknown == Spec => []LostClaimsAreUnknown
  <1>1. IInv => LostClaimsAreUnknown
    BY DEF IInv, HolderShape, LostClaimsAreUnknown
  <1> QED BY <1>1, Invariance, PTL

\* The next attempt of a delivery is inserted.
Opens(d, n, c) ==
    /\ attempts[d][n].outcome = "none"
    /\ \A m \in Numbers : m < n => attempts[d][m].outcome \in {"failed", "unknown"}
    /\ \A m \in Numbers : m + 1 = n /\ attempts[d][m].outcome = "unknown" => c
    /\ \E trigger \in {"initial", "manual"}, began \in Nat :
          attempts' = [attempts EXCEPT ![d][n] =
             [outcome |-> "open", trigger |-> trigger, started |-> began,
              ended |-> 0, confirmed |-> c]]

\* The open attempt of a delivery ends.
Closes(d, n, outcome) ==
    /\ attempts[d][n].outcome = "open"
    /\ attempts' = [attempts EXCEPT ![d][n].outcome = outcome, ![d][n].ended = now]

\* The effect of the two on every attempt, without EXCEPT.
LEMMA OpensEffect ==
    ASSUME attempts \in [Deliveries -> [Numbers -> Attempt]],
           NEW d \in Deliveries, NEW n \in Numbers, NEW c \in BOOLEAN, Opens(d, n, c)
    PROVE  \A e \in Deliveries, m \in Numbers :
              /\ e = d /\ m = n => /\ attempts'[e][m].outcome = "open"
                                   /\ attempts'[e][m].confirmed = c
                                   /\ attempts'[e][m].ended = 0
              /\ ~(e = d /\ m = n) => attempts'[e][m] = attempts[e][m]
  <1>1. PICK trigger \in {"initial", "manual"}, began \in Nat :
           attempts' = [attempts EXCEPT ![d][n] =
             [outcome |-> "open", trigger |-> trigger, started |-> began,
              ended |-> 0, confirmed |-> c]]
    BY DEF Opens
  <1> QED BY <1>1

LEMMA ClosesEffect ==
    ASSUME attempts \in [Deliveries -> [Numbers -> Attempt]],
           NEW d \in Deliveries, NEW n \in Numbers, NEW outcome \in Outcomes,
           Closes(d, n, outcome)
    PROVE  \A e \in Deliveries, m \in Numbers :
              /\ e = d /\ m = n => /\ attempts'[e][m].outcome = outcome
                                   /\ attempts'[e][m].ended = now
                                   /\ attempts'[e][m].confirmed = attempts[e][m].confirmed
                                   /\ attempts'[e][m].started = attempts[e][m].started
                                   /\ attempts'[e][m].trigger = attempts[e][m].trigger
              /\ ~(e = d /\ m = n) => attempts'[e][m] = attempts[e][m]
  <1> DEFINE row == [[attempts[d][n] EXCEPT !.outcome = outcome] EXCEPT !.ended = now]
  <1>1. attempts' = [attempts EXCEPT ![d] = [attempts[d] EXCEPT ![n] = row]]
    BY DEF Closes
  <1>2. attempts[d][n] \in Attempt
    OBVIOUS
  <1>3. /\ row.outcome = outcome /\ row.ended = now
        /\ row.confirmed = attempts[d][n].confirmed
        /\ row.started = attempts[d][n].started
        /\ row.trigger = attempts[d][n].trigger
    BY <1>2 DEF Attempt
  <1> HIDE DEF row
  <1>4. attempts'[d][n] = row
    BY <1>1
  <1>5. \A e \in Deliveries, m \in Numbers :
           ~(e = d /\ m = n) => attempts'[e][m] = attempts[e][m]
    BY <1>1
  <1> QED BY <1>3, <1>4, <1>5

\* What a step of the protocol does to the history: nothing, a claim's insertion
\* of the next attempt, or the end of the open one.
LEMMA AttemptStep ==
    ASSUME IInv, [Next]_vars
    PROVE  \/ UNCHANGED attempts
           \/ \E d \in Deliveries, n \in Numbers, c \in BOOLEAN : Opens(d, n, c)
           \/ \E d \in Deliveries, n \in Numbers, outcome \in Outcomes : Closes(d, n, outcome)
  <1> USE DEF IInv
  <1>0. MaxRetries \in Nat /\ TypeOK
    BY BoundsAssumption
  <1>1. ASSUME NEW s \in Senders, ClaimInitial(s) PROVE
           \E d \in Deliveries, n \in Numbers, c \in BOOLEAN : Opens(d, n, c)
    <2> DEFINE d == req[s].on
               c == "initial" = "manual" /\ req[s].confirmed
    <2>1. d \in Deliveries /\ req[s].asked \in Nat
      BY <1>0, <1>1, LiveRequest DEF ClaimInitial, TypeOK, Working, Waiting
    <2>2. InsertAttempt(s, 1, "initial")
      BY <1>1 DEF ClaimInitial
    <2>3. /\ attempts[d][1].outcome = "none"
          /\ attempts' = [attempts EXCEPT ![d][1] =
                [outcome |-> "open", trigger |-> "initial", started |-> req[s].asked,
                 ended |-> 0, confirmed |-> c]]
      BY <2>2 DEF InsertAttempt
    <2>4. 1 \in Numbers /\ \A m \in Numbers : ~(m < 1) /\ m + 1 # 1
      BY <1>0 DEF Numbers
    <2>5. c \in BOOLEAN
      OBVIOUS
    <2> HIDE DEF c, d
    <2> QED BY <2>1, <2>3, <2>4, <2>5 DEF Opens
  <1>2. ASSUME NEW s \in Senders, ClaimManual(s) PROVE
           \E d \in Deliveries, n \in Numbers, c \in BOOLEAN : Opens(d, n, c)
    <2> DEFINE d == req[s].on
               n == delivery[d].retryCount + 2
               c == "manual" = "manual" /\ req[s].confirmed
    <2>1. /\ d \in Deliveries
          /\ req[s].confirmed \in BOOLEAN
          /\ req[s].asked \in Nat
      BY <1>0, <1>2, LiveRequest DEF ClaimManual, TypeOK, Working, Waiting
    <2>2. /\ InsertAttempt(s, n, "manual")
          /\ \E day \in BudgetDays(s) : ManualAvailable(s, day)
      BY <1>2 DEF ClaimManual
    <2>3. /\ attempts[d][n].outcome = "none"
          /\ attempts' = [attempts EXCEPT ![d][n] =
                [outcome |-> "open", trigger |-> "manual", started |-> req[s].asked,
                 ended |-> 0, confirmed |-> c]]
      BY <2>2 DEF InsertAttempt
    <2>4. /\ delivery[d].state \in {"failed", "unknown"}
          /\ delivery[d].state = "unknown" => req[s].confirmed
          /\ delivery[d].retryCount \in 0 .. MaxRetries
          /\ delivery[d].retryCount < MaxRetries
      BY <1>0, <2>1, <2>2 DEF ManualAvailable, TypeOK, Delivery
    <2>5. n \in Numbers
      BY <1>0, <2>4 DEF Numbers
    <2>6. \A m \in Numbers : m < n => attempts[d][m].outcome \in {"failed", "unknown"}
      BY <1>0, <2>1, <2>4 DEF DeliveryShape, Numbers, Outcomes
    <2>7. \A m \in Numbers : m + 1 = n /\ attempts[d][m].outcome = "unknown" => c
      BY <1>0, <2>1, <2>4 DEF DeliveryShape, Numbers, Outcomes
    <2>8. c \in BOOLEAN
      BY <2>1
    <2> HIDE DEF c, d, n
    <2> QED BY <2>1, <2>3, <2>5, <2>6, <2>7, <2>8 DEF Opens
  <1>3. ASSUME NEW s \in Senders, ExpireClaim(s) PROVE
           \E d \in Deliveries, n \in Numbers, outcome \in Outcomes : Closes(d, n, outcome)
    <2> DEFINE d == req[s].on
               n == delivery[d].active
    <2>1. d \in Deliveries
      BY <1>0, <1>3, LiveRequest DEF ExpireClaim, TypeOK, Working
    <2>2. n \in Numbers
      <3>1. delivery[d].retryCount \in 0 .. MaxRetries
        BY <1>0, <2>1 DEF TypeOK, Delivery
      <3>2. n = delivery[d].retryCount + 1
        BY <1>3, <2>1 DEF ExpireClaim, DeliveryShape
      <3> QED BY <1>0, <3>1, <3>2 DEF Numbers
    <2>3. attempts[d][n].outcome = "open" /\ CloseAttempt(d, n, "unknown")
      BY <1>3 DEF ExpireClaim
    <2> HIDE DEF d, n
    <2> QED BY <2>1, <2>2, <2>3 DEF CloseAttempt, Closes, Outcomes
  <1>4. ASSUME NEW s \in Senders, Complete(s) PROVE
           \E d \in Deliveries, n \in Numbers, outcome \in Outcomes : Closes(d, n, outcome)
    <2>1. /\ req[s].on \in Deliveries
          /\ req[s].attempt \in Numbers
          /\ req[s].result \in Outcomes
      BY <1>0, <1>4, LiveRequest DEF Complete, TypeOK, Holding, HolderShape
    <2>2. /\ attempts[req[s].on][req[s].attempt].outcome = "open"
          /\ CloseAttempt(req[s].on, req[s].attempt, req[s].result)
      BY <1>4 DEF Complete, ClaimStands
    <2> QED BY <2>1, <2>2 DEF CloseAttempt, Closes
  <1>5. ASSUME NEW s \in Senders,
               \/ ReconcileNothing(s) \/ ReconcileActiveLease(s) \/ ReadState(s) \/ CallInitial(s)
               \/ InitialUnavailable(s) \/ ManualRefused(s) \/ Transmit(s)
               \/ ReplyArrives(s) \/ CompleteIgnored(s) \/ RequestFails(s)
        PROVE  UNCHANGED attempts
    BY <1>5 DEF ReconcileNothing, ReconcileActiveLease, ReadState, CallInitial,
                CallClaim, InitialUnavailable, ManualRefused, Transmit, ReplyArrives, CompleteIgnored, RequestFails,
                database
  <1>6. ASSUME \/ \E r \in Reviewers, d \in Deliveries, confirmed \in BOOLEAN :
                     StartRetry(r, d, confirmed)
               \/ ProcessRestart \/ Tick \/ UNCHANGED vars
        PROVE  UNCHANGED attempts
    BY <1>6 DEF StartRetry, ProcessRestart, Tick, vars, database
  <1> HIDE DEF IInv
  <1> QED
    BY <1>1, <1>2, <1>3, <1>4, <1>5, <1>6 DEF Next, System, SenderStep

\* The claim protocol implements the append-only ledger: attempts follow one
\* another, none follows an accepted one, and one that follows an unknown outcome
\* carries a confirmation.
THEOREM Implementation == Spec => ImplementsLedger
  <1>1. Init => Ledger!Init
    BY DEF Init, Ledger!Init, NoAttempt
  <1>2. ASSUME IInv, [Next]_vars
        PROVE  [Ledger!Next]_<<[d \in Deliveries |-> [n \in Numbers |-> attempts[d][n].outcome]],
                 [d \in Deliveries |-> [n \in Numbers |-> attempts[d][n].confirmed]]>>
    <2>0. attempts \in [Deliveries -> [Numbers -> Attempt]]
      BY <1>2 DEF IInv, TypeOK
    <2>1. CASE UNCHANGED attempts
      BY <2>1
    <2>2. ASSUME NEW d \in Deliveries, NEW n \in Numbers, NEW c \in BOOLEAN,
                 Opens(d, n, c)
          PROVE  Ledger!Begin(d, n, c)
      <3>1. \A e \in Deliveries, m \in Numbers :
              /\ e = d /\ m = n => attempts'[e][m].outcome = "open"
                                  /\ attempts'[e][m].confirmed = c
              /\ ~(e = d /\ m = n) => attempts'[e][m] = attempts[e][m]
        BY <2>0, <2>2, OpensEffect
      <3> DEFINE L == [e \in Deliveries |-> [m \in Numbers |-> attempts[e][m].outcome]]
                 C == [e \in Deliveries |-> [m \in Numbers |-> attempts[e][m].confirmed]]
      <3>2. L' = [L EXCEPT ![d] = [L[d] EXCEPT ![n] = "open"]]
        <4>1. L' = [e \in Deliveries |-> [m \in Numbers |->
                        IF e = d /\ m = n THEN "open" ELSE attempts[e][m].outcome]]
          BY <3>1
        <4>2. [L EXCEPT ![d] = [L[d] EXCEPT ![n] = "open"]]
                 = [e \in Deliveries |-> [m \in Numbers |->
                        IF e = d /\ m = n THEN "open" ELSE attempts[e][m].outcome]]
          OBVIOUS
        <4> QED BY <4>1, <4>2
      <3>3. C' = [C EXCEPT ![d] = [C[d] EXCEPT ![n] = c]]
        <4>1. C' = [e \in Deliveries |-> [m \in Numbers |->
                        IF e = d /\ m = n THEN c ELSE attempts[e][m].confirmed]]
          BY <3>1
        <4>2. [C EXCEPT ![d] = [C[d] EXCEPT ![n] = c]]
                 = [e \in Deliveries |-> [m \in Numbers |->
                        IF e = d /\ m = n THEN c ELSE attempts[e][m].confirmed]]
          OBVIOUS
        <4> QED BY <4>1, <4>2
      <3> QED BY <2>2, <3>2, <3>3 DEF Ledger!Begin, Opens
    <2>3. ASSUME NEW d \in Deliveries, NEW n \in Numbers, NEW outcome \in Outcomes,
                 Closes(d, n, outcome)
          PROVE  Ledger!End(d, n, outcome)
      <3>1. \A e \in Deliveries, m \in Numbers :
              /\ e = d /\ m = n =>
                    attempts'[e][m].outcome = outcome
                    /\ attempts'[e][m].confirmed = attempts[e][m].confirmed
              /\ ~(e = d /\ m = n) => attempts'[e][m] = attempts[e][m]
        BY <2>0, <2>3, ClosesEffect
      <3> DEFINE L == [e \in Deliveries |-> [m \in Numbers |-> attempts[e][m].outcome]]
                 C == [e \in Deliveries |-> [m \in Numbers |-> attempts[e][m].confirmed]]
      <3>2. L' = [L EXCEPT ![d] = [L[d] EXCEPT ![n] = outcome]]
        <4>1. L' = [e \in Deliveries |-> [m \in Numbers |->
                        IF e = d /\ m = n THEN outcome ELSE attempts[e][m].outcome]]
          BY <3>1
        <4>2. [L EXCEPT ![d] = [L[d] EXCEPT ![n] = outcome]]
                 = [e \in Deliveries |-> [m \in Numbers |->
                        IF e = d /\ m = n THEN outcome ELSE attempts[e][m].outcome]]
          OBVIOUS
        <4> QED BY <4>1, <4>2
      <3>3. C' = C
        BY <3>1
      <3> QED BY <2>3, <3>2, <3>3 DEF Ledger!End, Closes
    <2>4. Outcomes = Ledger!Final
      BY DEF Outcomes, Ledger!Final
    <2>5. ASSUME NEW d \in Deliveries, NEW n \in Numbers, NEW c \in BOOLEAN,
                 Opens(d, n, c)
          PROVE  Ledger!Next
      <3>1. attempts[d][n].outcome = "none"
        BY <2>5 DEF Opens
      <3>2. Ledger!Begin(d, n, c)
        BY <2>2, <2>5
      <3> QED BY <3>1, <3>2 DEF Ledger!Next
    <2>6. ASSUME NEW d \in Deliveries, NEW n \in Numbers, NEW outcome \in Outcomes,
                 Closes(d, n, outcome)
          PROVE  Ledger!Next
      <3>1. attempts[d][n].outcome = "open"
        BY <2>6 DEF Closes
      <3>2. Ledger!End(d, n, outcome) /\ outcome \in Ledger!Final
        BY <2>3, <2>4, <2>6
      <3> QED BY <3>1, <3>2 DEF Ledger!Next
    <2> QED BY <1>2, <2>1, <2>5, <2>6, AttemptStep
  <1> QED
    BY <1>1, <1>2, Invariance, PTL DEF Spec, ImplementsLedger, Ledger!Spec

\* An attempt that has ended never changes, and one that is open keeps its
\* identity.
THEOREM HistoryAppendOnly == Spec => HistoryImmutable
  <1>1. ASSUME IInv, [Next]_vars, NEW d \in Deliveries, NEW n \in Numbers
        PROVE  /\ attempts[d][n].outcome \in Outcomes => attempts'[d][n] = attempts[d][n]
               /\ attempts[d][n].outcome = "open" =>
                     /\ attempts'[d][n].outcome # "none"
                     /\ attempts'[d][n].started = attempts[d][n].started
                     /\ attempts'[d][n].trigger = attempts[d][n].trigger
    <2>0. attempts \in [Deliveries -> [Numbers -> Attempt]]
      BY <1>1 DEF IInv, TypeOK
    <2>1. CASE UNCHANGED attempts
      BY <2>1
    <2>2. ASSUME NEW e \in Deliveries, NEW m \in Numbers, NEW c \in BOOLEAN,
                 Opens(e, m, c)
          PROVE  attempts[d][n].outcome # "none" => attempts'[d][n] = attempts[d][n]
      BY <2>0, <2>2, OpensEffect DEF Opens
    <2>3. ASSUME NEW e \in Deliveries, NEW m \in Numbers, NEW outcome \in Outcomes,
                 Closes(e, m, outcome)
          PROVE  /\ attempts[d][n].outcome # "open" => attempts'[d][n] = attempts[d][n]
                 /\ attempts[d][n].outcome = "open" =>
                     /\ attempts'[d][n].outcome # "none"
                     /\ attempts'[d][n].started = attempts[d][n].started
                     /\ attempts'[d][n].trigger = attempts[d][n].trigger
      <3>1. attempts[e][m].outcome = "open" /\ outcome # "none"
        BY <2>3 DEF Closes, Outcomes
      <3>2. CASE d = e /\ n = m
        <4>1. /\ attempts'[d][n].outcome = outcome
              /\ attempts'[d][n].started = attempts[d][n].started
              /\ attempts'[d][n].trigger = attempts[d][n].trigger
          BY <2>0, <2>3, <3>2, ClosesEffect
        <4> QED BY <3>1, <3>2, <4>1
      <3>3. CASE ~(d = e /\ n = m)
        <4>1. attempts'[d][n] = attempts[d][n]
          BY <2>0, <2>3, <3>3, ClosesEffect
        <4> QED BY <4>1
      <3> QED BY <3>2, <3>3
    <2> QED
      BY <1>1, <2>1, <2>2, <2>3, AttemptStep DEF Outcomes
  <1>2. IInv /\ [Next]_vars =>
           [\A d \in Deliveries, n \in Numbers :
               LET before == attempts[d][n]
                   after == attempts'[d][n]
               IN  /\ before.outcome \in Outcomes => after = before
                   /\ before.outcome = "open" =>
                         /\ after.outcome # "none"
                         /\ after.started = before.started
                         /\ after.trigger = before.trigger]_attempts
    BY <1>1
  <1> QED BY <1>2, Invariance, PTL DEF Spec, HistoryImmutable

================================================================================
