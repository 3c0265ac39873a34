---------------------------- MODULE FrontDoorProofs ----------------------------
(* Proofs about FrontDoor, for any clients, proxies, limits, caps and lengths:  *)
(* that the layers use the limiter as RateLimiter describes it, so that what is *)
(* proved of it holds behind them; that no client gets past it more often than  *)
(* it allows; that answers tell the truth and can be traced; that what is       *)
(* accepted can be stored; and that only safe settings start the process.       *)
(*                                                                              *)
(* The invariant says of the request under way what its place in the layers     *)
(* means: an answer is one whose status its cause justifies, a submission at    *)
(* intake is one the checks let pass.                                           *)
EXTENDS FrontDoor, RateLimiterProofs

--------------------------------------------------------------------------------
(* Exceptions and their statuses.                                               *)

\* Everything but an unknown class and a bare database error has a handler.
LEMMA Handlers ==
    /\ \A c \in Handled : HandlerOf(c) = c
    /\ HandlerOf("Other") = "Exception" /\ HandlerOf("SQLAlchemyError") = "Exception"
  <1>1. \A c \in Handled : HandlerOf(c) = c
    BY DEF HandlerOf
  <1>2. /\ "Other" \in Classes /\ "SQLAlchemyError" \in Classes
        /\ "Other" \notin UseCaseErrors /\ "SQLAlchemyError" \notin UseCaseErrors
        /\ "Other" \notin Handled /\ "SQLAlchemyError" \notin Handled
        /\ "Exception" \notin Handled
    BY DEF Classes, UseCaseErrors, Handled
  <1>3. Base["Other"] = "Exception" /\ Base["SQLAlchemyError"] = "Exception"
    BY <1>2 DEF Base
  <1> QED BY <1>1, <1>2, <1>3 DEF HandlerOf

LEMMA Statuses ==
    /\ \A code : /\ StatusOf(Exception("RequestBodyTooLarge", code)) = 413
                 /\ StatusOf(Exception("AuthenticationError", code)) = 401
                 /\ StatusOf(Exception("TicketError", code)) = 401
                 /\ StatusOf(Exception("DependencyUnavailableError", code)) = 503
                 /\ StatusOf(Exception("NotFoundError", code)) = 404
                 /\ StatusOf(Exception("ConcurrencyError", code)) = 409
                 /\ StatusOf(Exception("BudgetExceededError", code)) = 429
                 /\ StatusOf(Exception("InvalidCursorError", code)) = 422
                 /\ StatusOf(Exception("ApplicationError", code)) = 422
                 /\ StatusOf(Exception("RequestValidationError", code)) = 422
                 /\ StatusOf(Exception("DomainError", code)) =
                       IF code \in Conflicts THEN 409 ELSE 422
                 /\ StatusOf(Exception("Other", code)) = 500
                 /\ StatusOf(Exception("SQLAlchemyError", code)) = 500
    /\ \A status : StatusOf(HttpException(status)) = status
  <1>1. \A c, code : /\ Exception(c, code).class = c /\ Exception(c, code).code = code
    BY DEF Exception
  <1>2. \A status : /\ HttpException(status).class = "HTTPException"
                    /\ HttpException(status).status = status
    BY DEF HttpException
  <1>3. {"RequestBodyTooLarge", "AuthenticationError", "TicketError",
         "DependencyUnavailableError", "NotFoundError", "ConcurrencyError",
         "BudgetExceededError", "InvalidCursorError", "ApplicationError",
         "RequestValidationError", "DomainError", "HTTPException"} \subseteq Handled
    BY DEF Handled
  <1>4. \A e : e.class \in Handled => HandlerOf(e.class) = e.class
    BY Handlers
  <1>5. \A e : e.class = "HTTPException" => StatusOf(e) = e.status
    BY <1>3, <1>4 DEF StatusOf
  <1>6. \A e : e.class = "DomainError" =>
                  StatusOf(e) = IF e.code \in Conflicts THEN 409 ELSE 422
    BY <1>3, <1>4 DEF StatusOf
  <1>7. \A e : e.class \in {"InvalidCursorError", "ApplicationError",
                            "RequestValidationError"} => StatusOf(e) = 422
    BY <1>3, <1>4 DEF StatusOf
  <1>8. \A e : e.class \in {"Other", "SQLAlchemyError"} => StatusOf(e) = 500
    BY Handlers DEF StatusOf
  <1>9. \A e : /\ e.class = "RequestBodyTooLarge" => StatusOf(e) = 413
               /\ e.class \in {"AuthenticationError", "TicketError"} => StatusOf(e) = 401
    BY <1>3, <1>4 DEF StatusOf
  <1>10. \A e : /\ e.class = "DependencyUnavailableError" => StatusOf(e) = 503
                /\ e.class = "NotFoundError" => StatusOf(e) = 404
                /\ e.class = "ConcurrencyError" => StatusOf(e) = 409
                /\ e.class = "BudgetExceededError" => StatusOf(e) = 429
    BY <1>3, <1>4 DEF StatusOf
  <1> QED BY <1>1, <1>2, <1>5, <1>6, <1>7, <1>8, <1>9, <1>10

--------------------------------------------------------------------------------
(* Answers.                                                                     *)

\* The layers inside the request context.
LEMMA Tags ==
    /\ Inside("context", "cap") /\ Inside("context", "limit")
    /\ Inside("context", "handlers") /\ Inside("context", "router")
  <1>1. /\ Len(Layers) = 7 /\ Layers[3] = "context" /\ Layers[4] = "cap"
        /\ Layers[5] = "limit" /\ Layers[6] = "handlers" /\ Layers[7] = "router"
    BY DEF Layers
  <1>2. \A j \in 4 .. 7 : Inside("context", Layers[j])
    <2> SUFFICES ASSUME NEW j \in 4 .. 7
                 PROVE  \E i, k \in 1 .. Len(Layers) :
                            Layers[i] = "context" /\ Layers[k] = Layers[j] /\ i < k
      BY DEF Inside
    <2>1. 3 \in 1 .. Len(Layers) /\ j \in 1 .. Len(Layers) /\ 3 < j
      BY <1>1
    <2> QED BY <1>1, <2>1
  <1>3. 4 \in 4 .. 7 /\ 5 \in 4 .. 7 /\ 6 \in 4 .. 7 /\ 7 \in 4 .. 7
    OBVIOUS
  <1> QED BY <1>1, <1>2, <1>3

\* An answer whose cause justifies its status, and which can be traced unless it is
\* a preflight's or the outermost layer's.
GoodAnswer(answer) ==
    \E status, cause, tagged :
        /\ answer = [at |-> "answered", status |-> status, cause |-> cause,
                     tagged |-> tagged]
        /\ cause # "preflight" => status \in Truthful(cause)
        /\ tagged \/ cause \in {"preflight", "defect", "rollback"}

LEMMA LayerAnswers ==
    ASSUME NEW layer \in {"cap", "limit", "handlers", "router"}, NEW status, NEW cause,
           status \in Truthful(cause)
    PROVE  GoodAnswer(Answered(layer, status, cause))
  BY Tags DEF GoodAnswer, Answered

\* A failure that is answered with a status its cause justifies; only what is a
\* defect, or a lost rollback, is left to the outermost layer.
Told(f) ==
    /\ StatusOf(f.e) \in Truthful(f.cause)
    /\ HandlerOf(f.e.class) = "Exception" => f.cause \in {"defect", "rollback"}

LEMMA ToldAnswers ==
    ASSUME NEW e, NEW cause, Told(Failure(e, cause))
    PROVE  GoodAnswer(Problem(e, cause))
  <1>1. /\ StatusOf(e) \in Truthful(cause)
        /\ HandlerOf(e.class) = "Exception" => cause \in {"defect", "rollback"}
    BY DEF Told, Failure
  <1>2. CASE HandlerOf(e.class) = "Exception"
    <2>1. cause \in {"defect", "rollback"}
          /\ Problem(e, cause) = Answered("errors", StatusOf(e), cause)
      BY <1>1, <1>2 DEF Problem
    <2> QED BY <1>1, <2>1 DEF GoodAnswer, Answered
  <1>3. CASE HandlerOf(e.class) # "Exception"
    <2>1. Problem(e, cause) = Answered("handlers", StatusOf(e), cause)
      BY <1>3 DEF Problem
    <2> QED BY <1>1, <2>1, LayerAnswers
  <1> QED BY <1>2, <1>3

LEMMA Truths ==
    /\ 200 \in Truthful("none") /\ 201 \in Truthful("none")
    /\ 400 \in Truthful("input") /\ 422 \in Truthful("input")
    /\ 413 \in Truthful("size") /\ 422 \in Truthful("size")
    /\ 401 \in Truthful("caller") /\ 404 \in Truthful("missing")
    /\ 409 \in Truthful("conflict") /\ 409 \in Truthful("contention")
    /\ 429 \in Truthful("capacity") /\ 429 \in Truthful("rate")
    /\ 503 \in Truthful("outage")
    /\ 500 \in Truthful("defect") /\ 500 \in Truthful("rollback")
  <1>1. /\ Truthful("none") = {200, 201} /\ Truthful("input") = {400, 422}
        /\ Truthful("size") = {413, 422}
    BY DEF Truthful
  <1>2. /\ Truthful("caller") = {401} /\ Truthful("missing") = {404}
        /\ Truthful("conflict") = {409} /\ Truthful("contention") = {409, 503}
    BY DEF Truthful
  <1>3. /\ Truthful("capacity") = {429} /\ Truthful("rate") = {429}
        /\ Truthful("outage") = {503}
    BY DEF Truthful
  <1>4. Truthful("defect") = {500} /\ Truthful("rollback") = {500}
    BY DEF Truthful
  <1> QED BY <1>1, <1>2, <1>3, <1>4

\* The classes that have a handler of their own.
OwnHandler ==
    {"RequestBodyTooLarge", "AuthenticationError", "TicketError",
     "DependencyUnavailableError", "NotFoundError", "ConcurrencyError",
     "BudgetExceededError", "InvalidCursorError", "ApplicationError",
     "RequestValidationError", "DomainError", "HTTPException"}

LEMMA ToldWhenHandled ==
    ASSUME NEW e, NEW cause, e.class \in OwnHandler, StatusOf(e) \in Truthful(cause)
    PROVE  Told(Failure(e, cause))
  <1>1. OwnHandler \subseteq Handled /\ "Exception" \notin OwnHandler
    BY DEF OwnHandler, Handled
  <1> QED BY <1>1, Handlers DEF Told, Failure

\* Every error code of the database is translated to an exception that tells what
\* the code means.
LEMMA TranslationsTold ==
    ASSUME NEW s \in SqlStates, NEW about \in Subjects
    PROVE  /\ Translate(s, about).class \in OwnHandler
           /\ StatusOf(Translate(s, about)) \in Truthful(CauseOfState(s))
  <1> USE DEF OwnHandler
  <1>0. \A c, code : Exception(c, code).class = c
    BY DEF Exception
  <1>1. CASE s = "P0002"
    <2>1. /\ Translate(s, about) = Exception("NotFoundError", "not_found")
          /\ CauseOfState(s) = "missing"
      BY <1>1 DEF Translate, CauseOfState
    <2> QED BY <1>0, <2>1, Statuses, Truths
  <1>2. CASE s = "P0001"
    <2>1. /\ Translate(s, about) = Exception("BudgetExceededError", "budget_exceeded")
          /\ CauseOfState(s) = "capacity"
      BY <1>2 DEF Translate, CauseOfState
    <2> QED BY <1>0, <2>1, Statuses, Truths
  <1>3. CASE s \in {"54000", "23514"} \/ (s = "55000" /\ about # "other")
    <2>1. /\ \/ Translate(s, about) = Exception("DomainError", "retry_limit_reached")
             \/ Translate(s, about) = Exception("DomainError", "retry_cooldown")
             \/ Translate(s, about) = Exception("DomainError", "delivery_not_retryable")
             \/ Translate(s, about) = Exception("DomainError", "invalid_status_transition")
          /\ CauseOfState(s) = "conflict"
      BY <1>3 DEF Translate, CauseOfState, Subjects
    <2>2. {"retry_limit_reached", "retry_cooldown", "delivery_not_retryable",
           "invalid_status_transition"} \subseteq Conflicts
      BY DEF Conflicts
    <2> QED BY <1>0, <2>1, <2>2, Statuses, Truths
  <1>4. CASE s = "55P03"
    <2>1. /\ Translate(s, about) = Exception("DomainError", "delivery_in_progress")
          /\ CauseOfState(s) = "contention"
      BY <1>4 DEF Translate, CauseOfState
    <2>2. "delivery_in_progress" \in Conflicts
      BY DEF Conflicts
    <2> QED BY <1>0, <2>1, <2>2, Statuses, Truths
  <1>5. CASE s = "23505" \/ (s = "55000" /\ about = "other")
    <2>1. /\ Translate(s, about) = Exception("ConcurrencyError", "concurrency_conflict")
          /\ CauseOfState(s) = "conflict"
      BY <1>5 DEF Translate, CauseOfState
    <2> QED BY <1>0, <2>1, Statuses, Truths
  <1>6. CASE s \in {"22004", "22023"}
    <2>1. /\ Translate(s, about) = Exception("ApplicationError", "application_error")
          /\ CauseOfState(s) = "input"
      BY <1>6 DEF Translate, CauseOfState
    <2> QED BY <1>0, <2>1, Statuses, Truths
  <1>7. CASE s = "other"
    <2>1. /\ Translate(s, about) =
                Exception("DependencyUnavailableError", "dependency_unavailable")
          /\ CauseOfState(s) = "outage"
      BY <1>7 DEF Translate, CauseOfState
    <2> QED BY <1>0, <2>1, Statuses, Truths
  <1> QED BY <1>1, <1>2, <1>3, <1>4, <1>5, <1>6, <1>7 DEF SqlStates, Subjects

\* A unit of work ends with the exception it met, made an outage if nobody has
\* translated it, or with the failure of its rollback.
LEMMA DatabaseFailuresTold == \A f \in DatabaseFailures : Told(f)
  <1>0. /\ \A c, code : Exception(c, code).class = c
        /\ \A e, cause : Failure(e, cause).e = e /\ Failure(e, cause).cause = cause
        /\ {"DependencyUnavailableError"} \subseteq OwnHandler
        /\ "SQLAlchemyError" \notin OwnHandler
    BY DEF Exception, Failure, OwnHandler
  <1>1. ASSUME NEW f \in Raised PROVE Told(Failure(UnitOfWorkEnds(f.e, FALSE), f.cause))
    <2> PICK e, cause : e = UnitOfWorkEnds(f.e, FALSE) /\ cause = f.cause
      OBVIOUS
    <2>0. e = IF f.e.class = "SQLAlchemyError"
              THEN Exception("DependencyUnavailableError", "dependency_unavailable")
              ELSE f.e
      BY DEF UnitOfWorkEnds
    <2>1. ASSUME NEW s \in SqlStates, NEW about \in Subjects,
                 f = Failure(Translate(s, about), CauseOfState(s))
          PROVE  e.class \in OwnHandler /\ StatusOf(e) \in Truthful(cause)
      <3>1. f.e = Translate(s, about) /\ cause = CauseOfState(s)
        BY <1>0, <2>1
      <3>2. f.e.class # "SQLAlchemyError"
        BY <1>0, <3>1, TranslationsTold
      <3>3. e = Translate(s, about)
        BY <2>0, <3>1, <3>2
      <3>4. /\ Translate(s, about).class \in OwnHandler
            /\ StatusOf(Translate(s, about)) \in Truthful(CauseOfState(s))
        BY TranslationsTold
      <3>5. e.class \in OwnHandler
        BY <3>3, <3>4, Zenon
      <3>6. StatusOf(e) \in Truthful(cause)
        BY <3>1, <3>3, <3>4, Zenon
      <3> QED BY <3>5, <3>6
    <2>2. ASSUME f = Failure(Exception("SQLAlchemyError", "database"), "outage")
          PROVE  e.class \in OwnHandler /\ StatusOf(e) \in Truthful(cause)
      <3>1. f.e.class = "SQLAlchemyError" /\ cause = "outage"
        BY <1>0, <2>2
      <3>2. e = Exception("DependencyUnavailableError", "dependency_unavailable")
        BY <2>0, <3>1
      <3>3. e.class \in OwnHandler
        BY <1>0, <3>2
      <3>4. StatusOf(Exception("DependencyUnavailableError", "dependency_unavailable"))
               \in Truthful("outage")
        BY Statuses, Truths
      <3>5. StatusOf(e) \in Truthful(cause)
        BY <3>1, <3>2, <3>4, Zenon
      <3> QED BY <3>3, <3>5
    <2>3. \/ \E s \in SqlStates, about \in Subjects :
               f = Failure(Translate(s, about), CauseOfState(s))
          \/ f = Failure(Exception("SQLAlchemyError", "database"), "outage")
      BY DEF Raised
    <2>4. e.class \in OwnHandler /\ StatusOf(e) \in Truthful(cause)
      BY <2>1, <2>2, <2>3
    <2> QED BY <2>4, ToldWhenHandled
  <1>2. ASSUME NEW f \in Raised PROVE Told(Failure(UnitOfWorkEnds(f.e, TRUE), "rollback"))
    <2>1. UnitOfWorkEnds(f.e, TRUE) = Exception("SQLAlchemyError", "database")
      BY DEF UnitOfWorkEnds
    <2>2. Told(Failure(Exception("SQLAlchemyError", "database"), "rollback"))
      BY Statuses, Truths DEF Told, Failure
    <2> QED BY <2>1, <2>2
  <1> QED BY <1>1, <1>2 DEF DatabaseFailures

LEMMA FailuresTold == \A f \in SubmissionFailures \cup ReviewFailures : Told(f)
  <1>0. \A c, code : Exception(c, code).class = c
    BY DEF Exception
  <1>1. Told(Unavailable)
    BY <1>0, Statuses, Truths, ToldWhenHandled DEF Unavailable, OwnHandler
  <1>2. Told(Defect)
    BY Statuses, Truths DEF Defect, Told, Failure
  <1>3. /\ Told(Failure(Exception("AuthenticationError", "authentication_failed"), "caller"))
        /\ Told(Failure(Exception("TicketError", "invalid_download_ticket"), "caller"))
    BY <1>0, Statuses, Truths, ToldWhenHandled DEF OwnHandler
  <1>4. Told(Failure(HttpException(400), "input"))
    BY Statuses, Truths, ToldWhenHandled DEF HttpException, OwnHandler
  <1>5. /\ Told(Failure(Exception("RequestValidationError", "validation_failed"), "input"))
        /\ Told(Failure(Exception("InvalidCursorError", "invalid_cursor"), "input"))
        /\ Told(Failure(Exception("ApplicationError", "application_error"), "input"))
    BY <1>0, Statuses, Truths, ToldWhenHandled DEF OwnHandler
  <1>6. /\ Told(Failure(Exception("NotFoundError", "not_found"), "missing"))
        /\ Told(Failure(Exception("ConcurrencyError", "concurrency_conflict"), "conflict"))
    BY <1>0, Statuses, Truths, ToldWhenHandled DEF OwnHandler
  <1>7. \A code \in Conflicts : Told(Failure(Exception("DomainError", code), "conflict"))
    BY <1>0, Statuses, Truths, ToldWhenHandled DEF OwnHandler
  <1> QED
    BY <1>1, <1>2, <1>3, <1>4, <1>5, <1>6, <1>7, DatabaseFailuresTold
    DEF SubmissionFailures, ReviewFailures

\* The form is refused with a status that blames the caller's input.
LEMMA FormRefusalsTold ==
    ASSUME NEW e \in FormRefusals, NEW cause \in {"input", "size"}
    PROVE  Told(Failure(e, cause))
  <1>0. \A c, code : Exception(c, code).class = c
    BY DEF Exception
  <1>1. PICK f \in Forms : e \in Refusals(f)
    BY DEF FormRefusals
  <1>2. \/ e = Exception("ApplicationError", "application_error")
        \/ \E code \in {"invalid_multipart", "invalid_multipart_fields",
                        "invalid_resume", "resume_too_large", "invalid_acknowledgement",
                        "invalid_name", "invalid_email", "invalid_comments"} :
              e = Exception("DomainError", code)
    BY <1>1 DEF Refusals, Refusal
  <1>3. {"invalid_multipart", "invalid_multipart_fields", "invalid_resume",
         "resume_too_large", "invalid_acknowledgement", "invalid_name", "invalid_email",
         "invalid_comments"} \cap Conflicts = {}
    BY DEF Conflicts
  <1>4. StatusOf(e) = 422 /\ e.class \in OwnHandler
    BY <1>0, <1>2, <1>3, Statuses DEF OwnHandler
  <1> QED BY <1>4, Truths, ToldWhenHandled

--------------------------------------------------------------------------------
(* The layers use the limiter as RateLimiter describes it.                      *)

\* A step of the layers is a call of the limiter, a tick of the clock, or changes
\* neither.
LEMMA LayersCallTheLimiter ==
    ASSUME [FrontDoorNext]_frontDoor
    PROVE  [LimiterNext]_<<now, limiter>>
  <1>1. CASE Start
    BY <1>1 DEF Start
  <1>2. CASE Private
    BY <1>2 DEF Private
  <1>3. Arrive \/ Preflight \/ CheckLength \/ Unlimited \/ RefuseAddress => Private
    BY DEF Arrive, Preflight, CheckLength, Unlimited, RefuseAddress
  <1>4. RouteUnknown \/ RouteHealth \/ RouteReview \/ RouteSubmit => Private
    BY DEF RouteUnknown, RouteHealth, RouteReview, RouteSubmit, At
  <1>5. ReadChunk \/ RefuseForm \/ AcceptForm \/ Intake \/ Leave => Private
    BY DEF ReadChunk, RefuseForm, AcceptForm, Intake, Leave
  <1>6. CASE CountSubmission
    <2>1. PICK header \in HeaderValues :
             /\ ClientKey(conn.peer, header) \in Keys
             /\ \/ Admit(ClientKey(conn.peer, header))
                \/ TurnAway(ClientKey(conn.peer, header))
                \/ Refuse(ClientKey(conn.peer, header))
      BY <1>6 DEF CountSubmission
    <2> QED BY <1>6, <2>1 DEF CountSubmission, LimiterNext, Consume
  <1>7. CASE Pass
    BY <1>7 DEF Pass, LimiterNext, Tick
  <1>8. CASE UNCHANGED frontDoor
    BY <1>8 DEF frontDoor
  <1> QED
    BY <1>1, <1>2, <1>3, <1>4, <1>5, <1>6, <1>7, <1>8 DEF FrontDoorNext

\* The request layers are a refinement of the limiter: every call is made with an
\* address, as one step, and nothing else touches the table (middleware.py:85-121,
\* main.py:139-160).
THEOREM LayersRefineLimiter == FrontDoorSpec => LimiterSpec
  <1>1. FrontDoorInit => LimiterInit
    BY DEF FrontDoorInit
  <1>2. [FrontDoorNext]_frontDoor => [LimiterNext]_<<now, limiter>>
    BY LayersCallTheLimiter
  <1> QED BY <1>1, <1>2, PTL DEF FrontDoorSpec, LimiterSpec

\* So all that is proved of the limiter holds of the one the layers share
\* (infrastructure.py:297-339): its bounds, the wait it announces, and whom it
\* turns away.
THEOREM LimiterBehindLayers ==
    FrontDoorSpec => /\ [](LimiterTypeOK /\ WindowRespected)
                     /\ RetryAfterSuffices /\ FullOnlyWhenBusy
  BY LayersRefineLimiter, LimiterTypes, WindowsRespected, RetryAfterIsEnough,
     TurnedAwayOnlyWhenBusy, PTL

--------------------------------------------------------------------------------
(* The request under way.                                                       *)

Routes == {"submit", "review", "health", "unknown"}

\* What the place of a request in the layers means, one disjunct to a place.
RequestOK ==
    \/ conn = [at |-> "down"] /\ settings \in AcceptedSettings
    \/ conn = Idle
    \/ \E stage \in {"cap", "limit"}, route \in Routes, p \in Keys :
          conn = [at |-> stage, route |-> route, peer |-> p]
    \/ \E route \in Routes : conn = [at |-> "router", route |-> route]
    \/ \E n \in Nat : conn = [at |-> "reading", received |-> n]
    \/ \E row \in AcceptedRows : conn = [at |-> "intake", row |-> row]
    \/ GoodAnswer(conn)

LEMMA Places ==
    ASSUME RequestOK
    PROVE  /\ conn.at = "down" => settings \in AcceptedSettings
           /\ conn.at \in {"cap", "limit"} =>
                 \E route \in Routes, p \in Keys :
                     conn = [at |-> conn.at, route |-> route, peer |-> p]
           /\ conn.at = "reading" => \E n \in Nat : conn = [at |-> "reading", received |-> n]
           /\ conn.at = "intake" => conn.row \in AcceptedRows
           /\ conn.at = "answered" => GoodAnswer(conn)
  <1>1. CASE conn = [at |-> "down"] /\ settings \in AcceptedSettings
    BY <1>1
  <1>2. CASE conn = Idle
    BY <1>2 DEF Idle
  <1>3. ASSUME NEW stage \in {"cap", "limit"}, NEW route \in Routes, NEW p \in Keys,
               conn = [at |-> stage, route |-> route, peer |-> p]
        PROVE  /\ conn.at \in {"cap", "limit"}
               /\ \E r \in Routes, q \in Keys : conn = [at |-> conn.at, route |-> r, peer |-> q]
    BY <1>3
  <1>4. ASSUME NEW route \in Routes, conn = [at |-> "router", route |-> route]
        PROVE  conn.at = "router"
    BY <1>4
  <1>5. ASSUME NEW n \in Nat, conn = [at |-> "reading", received |-> n]
        PROVE  conn.at = "reading"
    BY <1>5
  <1>6. ASSUME NEW row \in AcceptedRows, conn = [at |-> "intake", row |-> row]
        PROVE  conn.at = "intake" /\ conn.row \in AcceptedRows
    BY <1>6
  <1>7. GoodAnswer(conn) => conn.at = "answered"
    BY DEF GoodAnswer
  <1> QED
    BY <1>1, <1>2, <1>3, <1>4, <1>5, <1>6, <1>7 DEF RequestOK

\* A request that was answered stays well.
LEMMA AnswerKeepsRequest == GoodAnswer(conn') => RequestOK'
  BY DEF RequestOK, GoodAnswer

LEMMA FailKeepsRequest ==
    ASSUME NEW failures, \A f \in failures : Told(f), Fail(failures)
    PROVE  GoodAnswer(conn')
  <1>1. PICK f \in failures : conn' = Problem(f.e, f.cause)
    BY DEF Fail
  <1>2. Told(Failure(f.e, f.cause))
    BY DEF Told, Failure
  <1> QED BY <1>1, <1>2, ToldAnswers

LEMMA SucceedKeepsRequest ==
    ASSUME NEW status \in {200, 201}, Succeed(status)
    PROVE  GoodAnswer(conn')
  BY Truths, LayerAnswers DEF Succeed

LEMMA LayersKeepRequest ==
    ASSUME RequestOK,
           Start \/ Arrive \/ Preflight \/ CheckLength \/ Unlimited \/ RefuseAddress
           \/ CountSubmission
    PROVE  RequestOK'
  <1>1. CASE Start
    BY <1>1 DEF Start, RequestOK
  <1>2. CASE Arrive
    BY <1>2 DEF Arrive, RequestOK, Routes
  <1>3. CASE Preflight
    <2>1. GoodAnswer(conn')
      BY <1>3 DEF Preflight, Answered, GoodAnswer
    <2> QED BY <2>1, AnswerKeepsRequest
  <1>4. CASE CheckLength
    <2>1. conn' = Answered("cap", 400, "input") \/ conn' = Answered("cap", 413, "size")
          => GoodAnswer(conn')
      BY Truths, LayerAnswers
    <2>2. ASSUME conn' = [conn EXCEPT !.at = "limit"] PROVE RequestOK'
      <3>1. PICK route \in Routes, p \in Keys :
               conn = [at |-> "cap", route |-> route, peer |-> p]
        BY <1>4, Places DEF CheckLength, Step
      <3>2. conn' = [at |-> "limit", route |-> route, peer |-> p]
        BY <2>2, <3>1
      <3> QED BY <3>2 DEF RequestOK
    <2> QED BY <1>4, <2>1, <2>2, AnswerKeepsRequest DEF CheckLength
  <1>5. CASE Unlimited
    <2>1. PICK route \in Routes, p \in Keys :
             conn = [at |-> "limit", route |-> route, peer |-> p]
      BY <1>5, Places DEF Unlimited, Step
    <2>2. conn' = [at |-> "router", route |-> route]
      BY <1>5, <2>1 DEF Unlimited
    <2> QED BY <2>2 DEF RequestOK
  <1>6. CASE RefuseAddress
    <2>1. GoodAnswer(conn')
      BY <1>6, Truths, LayerAnswers DEF RefuseAddress
    <2> QED BY <2>1, AnswerKeepsRequest
  <1>7. CASE CountSubmission
    <2>1. \/ conn' = [at |-> "router", route |-> "submit"]
          \/ conn' = Answered("limit", 429, "rate")
      BY <1>7 DEF CountSubmission
    <2>2. CASE conn' = [at |-> "router", route |-> "submit"]
      BY <2>2 DEF RequestOK, Routes
    <2>3. CASE conn' = Answered("limit", 429, "rate")
      <3>1. GoodAnswer(conn')
        BY <2>3, Truths, LayerAnswers
      <3> QED BY <3>1, AnswerKeepsRequest
    <2> QED BY <2>1, <2>2, <2>3
  <1> QED BY <1>1, <1>2, <1>3, <1>4, <1>5, <1>6, <1>7

LEMMA RoutesKeepRequest ==
    ASSUME RequestOK,
           RouteUnknown \/ RouteHealth \/ RouteReview \/ RouteSubmit \/ ReadChunk
           \/ RefuseForm \/ AcceptForm \/ Intake \/ Leave
    PROVE  RequestOK'
  <1>1. CASE RouteUnknown
    <2>1. Told(Failure(HttpException(404), "missing"))
      BY Statuses, Truths, ToldWhenHandled DEF HttpException, OwnHandler
    <2> QED BY <1>1, <2>1, ToldAnswers, AnswerKeepsRequest DEF RouteUnknown
  <1>2. CASE RouteHealth
    <2>1. conn' = Answered("router", 503, "outage") => GoodAnswer(conn')
      BY Truths, LayerAnswers
    <2>2. Succeed(200) => GoodAnswer(conn')
      BY SucceedKeepsRequest
    <2> QED BY <1>2, <2>1, <2>2, AnswerKeepsRequest DEF RouteHealth
  <1>3. CASE RouteReview
    <2>1. Succeed(200) => GoodAnswer(conn')
      BY SucceedKeepsRequest
    <2>2. Fail(ReviewFailures) => GoodAnswer(conn')
      BY FailuresTold, FailKeepsRequest
    <2> QED BY <1>3, <2>1, <2>2, AnswerKeepsRequest DEF RouteReview
  <1>4. CASE RouteSubmit
    BY <1>4 DEF RouteSubmit, RequestOK
  <1>5. CASE ReadChunk
    <2>1. PICK n \in 1 .. ChunkMax :
             \/ conn' = Problem(Exception("RequestBodyTooLarge", "request_too_large"), "size")
             \/ conn' = [conn EXCEPT !.received = conn.received + n]
      BY <1>5 DEF ReadChunk
    <2>2. ASSUME conn' = Problem(Exception("RequestBodyTooLarge", "request_too_large"), "size")
          PROVE  RequestOK'
      <3>1. Told(Failure(Exception("RequestBodyTooLarge", "request_too_large"), "size"))
        BY Statuses, Truths, ToldWhenHandled DEF Exception, OwnHandler
      <3> QED BY <2>2, <3>1, ToldAnswers, AnswerKeepsRequest
    <2>3. ASSUME conn' = [conn EXCEPT !.received = conn.received + n]
          PROVE  RequestOK'
      <3>1. PICK m \in Nat : conn = [at |-> "reading", received |-> m]
        BY <1>5, Places DEF ReadChunk, Step
      <3>2. n \in Nat
        BY FrontDoorAssumption DEF FrontDoorAssumption
      <3>3. conn' = [at |-> "reading", received |-> m + n] /\ m + n \in Nat
        BY <2>3, <3>1, <3>2
      <3> QED BY <3>3 DEF RequestOK
    <2> QED BY <2>1, <2>2, <2>3
  <1>6. CASE RefuseForm
    <2>1. PICK e \in FormRefusals :
             conn' = Problem(e, IF e.code = "resume_too_large" THEN "size" ELSE "input")
      BY <1>6 DEF RefuseForm
    <2>2. PICK cause \in {"input", "size"} : conn' = Problem(e, cause)
      BY <2>1
    <2> QED BY <2>2, FormRefusalsTold, ToldAnswers, AnswerKeepsRequest
  <1>7. CASE AcceptForm
    BY <1>7 DEF AcceptForm, RequestOK
  <1>8. CASE Intake
    <2>1. Succeed(201) => GoodAnswer(conn')
      BY SucceedKeepsRequest
    <2>2. Fail(SubmissionFailures) => GoodAnswer(conn')
      BY FailuresTold, FailKeepsRequest
    <2> QED BY <1>8, <2>1, <2>2, AnswerKeepsRequest DEF Intake
  <1>9. CASE Leave
    BY <1>9 DEF Leave, RequestOK
  <1> QED BY <1>1, <1>2, <1>3, <1>4, <1>5, <1>6, <1>7, <1>8, <1>9

\* Wherever a request of create_app's application is (main.py:139-160), RequestOK
\* describes it.
THEOREM RequestInvariant == FrontDoorSpec => []RequestOK
  <1>1. FrontDoorInit => RequestOK
    BY DEF FrontDoorInit, RequestOK
  <1>2. RequestOK /\ [FrontDoorNext]_frontDoor => RequestOK'
    <2> SUFFICES ASSUME RequestOK, [FrontDoorNext]_frontDoor PROVE RequestOK'
      OBVIOUS
    <2>1. CASE Pass \/ UNCHANGED frontDoor
      BY <2>1 DEF Pass, frontDoor, RequestOK, GoodAnswer
    <2> QED
      BY <2>1, LayersKeepRequest, RoutesKeepRequest DEF FrontDoorNext
  <1> QED BY <1>1, <1>2, PTL DEF FrontDoorSpec

\* The status of every answer tells its cause: no outage is answered as a defect, no
\* full budget as a conflict, and no caller is blamed for either, through the
\* database's error codes, the unit of work, the class hierarchy and the handlers
\* (persistence.py:785-810, presentation.py:492-583).
THEOREM StatusesTellTheTruth == FrontDoorSpec => []TruthfulAnswers
  <1>1. RequestOK => TruthfulAnswers
    BY Places DEF TruthfulAnswers, GoodAnswer
  <1> QED BY <1>1, RequestInvariant, PTL

\* Every answer carries the request id but for preflights and the outermost layer's
\* answer to what nobody handled (main.py:139-160): no exception the routes raise
\* otherwise escapes the handlers, whatever rollback or translation it came through.
THEOREM AnswersCanBeTraced == FrontDoorSpec => []TraceableAnswers
  <1>1. RequestOK => TraceableAnswers
    BY Places DEF TraceableAnswers, GoodAnswer
  <1> QED BY <1>1, RequestInvariant, PTL

--------------------------------------------------------------------------------
(* Forms.                                                                       *)

\* Of a form: the values the table's constraints speak of.
FormTypes(f) ==
    /\ f.first \in Texts(NameMax) /\ f.last \in Texts(NameMax)
    /\ f.email.text \in Texts(EmailMax)
    /\ f.comments.given \in BOOLEAN /\ f.comments.text \in Texts(CommentsMax)
    /\ f.resume.size \in Nat
    /\ f.filename \in Nat

LEMMA FormsHaveTypes == \A f \in Forms : FormTypes(f)
  <1> DEFINE plain == [length |-> 1, expands |-> FALSE, controls |-> "none"]
  <1>1. {NameMax, EmailMax, CommentsMax, FilenameMax, MaxResume} \subseteq Nat \ {0}
    BY FormAssumption DEF FormAssumption
  <1>2. plain \in Texts(NameMax) /\ plain \in Texts(EmailMax) /\ plain \in Texts(CommentsMax)
    BY <1>1 DEF Texts
  <1> HIDE DEF plain
  <1>3. Good = [shape |-> "complete", first |-> plain, last |-> plain,
                email |-> [text |-> plain, address |-> TRUE],
                comments |-> [given |-> FALSE, text |-> plain],
                acknowledged |-> "true",
                resume |-> [size |-> 1, looks |-> "pdf", archive |-> "sound"],
                filename |-> 1]
    BY DEF Good, plain
  <1>4. ASSUME NEW x PROVE FormTypes([Good EXCEPT !.shape = x])
                           /\ FormTypes([Good EXCEPT !.acknowledged = x])
    BY <1>2, <1>3 DEF FormTypes
  <1>5. ASSUME NEW x \in Texts(NameMax)
        PROVE FormTypes([Good EXCEPT !.first = x]) /\ FormTypes([Good EXCEPT !.last = x])
    BY <1>2, <1>3 DEF FormTypes
  <1>6. ASSUME NEW x \in [text : Texts(EmailMax), address : BOOLEAN]
        PROVE FormTypes([Good EXCEPT !.email = x])
    BY <1>2, <1>3 DEF FormTypes
  <1>7. ASSUME NEW x \in [given : BOOLEAN, text : Texts(CommentsMax)]
        PROVE FormTypes([Good EXCEPT !.comments = x])
    BY <1>2, <1>3 DEF FormTypes
  <1>8. ASSUME NEW x \in [size : 0 .. MaxResume + 1, looks : {"pdf", "doc", "docx", "other"},
                          archive : {"sound", "unsafe", "incomplete", "corrupt"}]
        PROVE FormTypes([Good EXCEPT !.resume = x])
    <2>1. x.size \in Nat
      BY <1>1
    <2> QED BY <1>2, <1>3, <2>1 DEF FormTypes
  <1>9. ASSUME NEW x \in 0 .. FilenameMax + 1
        PROVE FormTypes([Good EXCEPT !.filename = x])
    <2>1. x \in Nat
      BY <1>1
    <2> QED BY <1>2, <1>3, <2>1 DEF FormTypes
  <1> QED BY <1>4, <1>5, <1>6, <1>7, <1>8, <1>9 DEF Forms

LEMMA NormalizedType ==
    ASSUME NEW max \in Nat, NEW t \in Texts(max)
    PROVE  Normalized(t) \in Nat
  <1>1. t.length \in Nat
    BY DEF Texts
  <1> QED BY <1>1 DEF Normalized

\* What a form that is refused for nothing looks like.
LEMMA NothingRefused ==
    ASSUME NEW f, Refusals(f) = {}
    PROVE  /\ ~NameRefused(f.first) /\ ~NameRefused(f.last)
           /\ ~EmailRefused(f.email) /\ ~CommentsRefused(f)
           /\ ~ResumeRefused(f.resume) /\ ~(f.resume.size > MaxResume)
  <1>1. Refusal(NameRefused(f.first) \/ NameRefused(f.last), "DomainError", "invalid_name") = {}
    BY DEF Refusals
  <1>2. Refusal(EmailRefused(f.email), "DomainError", "invalid_email") = {}
    BY DEF Refusals
  <1>3. Refusal(CommentsRefused(f), "DomainError", "invalid_comments") = {}
    BY DEF Refusals
  <1>4. Refusal(f.shape = "text" \/ ResumeRefused(f.resume), "DomainError",
                "invalid_resume") = {}
    BY DEF Refusals
  <1>5. Refusal(f.resume.size > MaxResume, "DomainError", "resume_too_large") = {}
    BY DEF Refusals
  <1>6. ~NameRefused(f.first) /\ ~NameRefused(f.last)
    BY <1>1 DEF Refusal
  <1>7. ~EmailRefused(f.email)
    BY <1>2 DEF Refusal
  <1>8. ~CommentsRefused(f)
    BY <1>3 DEF Refusal
  <1>9. ~ResumeRefused(f.resume)
    BY <1>4 DEF Refusal
  <1>10. ~(f.resume.size > MaxResume)
    BY <1>5 DEF Refusal
  <1> QED BY <1>6, <1>7, <1>8, <1>9, <1>10

LEMMA AcceptedStorable == \A row \in AcceptedRows : Storable(row)
  <1> SUFFICES ASSUME NEW f \in Forms, Refusals(f) = {} PROVE Storable(Row(f))
    BY DEF AcceptedRows
  <1> DEFINE row == Row(f)
  <1>0. FormTypes(f)
    BY FormsHaveTypes
  <1>1. {NameMax, EmailMax, CommentsMax, FilenameMax, MaxResume} \subseteq Nat \ {0}
    BY FormAssumption DEF FormAssumption
  <1>2. ASSUME NEW t \in {f.first, f.last}
        PROVE  Normalized(t) \in 1 .. NameMax /\ t.controls = "none"
    <2>1. ~NameRefused(t)
      BY NothingRefused
    <2>2. Normalized(t) \in Nat
      BY <1>0, <1>1, NormalizedType DEF FormTypes
    <2> QED BY <1>1, <2>1, <2>2 DEF NameRefused
  <1>3. row.email <= EmailMax
    <2>1. Normalized(f.email.text) \in Nat
      BY <1>0, <1>1, NormalizedType DEF FormTypes
    <2>2. ~EmailRefused(f.email)
      BY NothingRefused
    <2> QED BY <1>1, <2>1, <2>2 DEF Row, EmailRefused
  <1>4. row.comments.length <= CommentsMax /\ row.comments.controls # "other"
    <2>1. Normalized(f.comments.text) \in Nat
      BY <1>0, <1>1, NormalizedType DEF FormTypes
    <2>2. ~CommentsRefused(f)
      BY NothingRefused
    <2>3. CASE Commented(f)
      <3>1. /\ row.comments.length = Normalized(f.comments.text)
            /\ row.comments.controls = f.comments.text.controls
        BY <2>3 DEF Row
      <3> QED BY <1>1, <2>1, <2>2, <2>3, <3>1 DEF CommentsRefused
    <2>4. CASE ~Commented(f)
      <3>1. row.comments.length = 0 /\ row.comments.controls = "none"
        BY <2>4 DEF Row
      <3> QED BY <1>1, <3>1
    <2> QED BY <2>3, <2>4
  <1>5. row.filename \in 1 .. FilenameMax
    BY <1>0, <1>1 DEF Row, FormTypes
  <1>6. row.bytes \in 1 .. MaxResume
    <2>1. ~ResumeRefused(f.resume) /\ ~(f.resume.size > MaxResume)
      BY NothingRefused
    <2> QED BY <1>0, <1>1, <2>1 DEF Row, FormTypes, ResumeRefused
  <1>7. /\ row.first = [length |-> Normalized(f.first), controls |-> f.first.controls]
        /\ row.last = [length |-> Normalized(f.last), controls |-> f.last.controls]
    BY DEF Row
  <1> HIDE DEF row
  <1>8. \A name \in {row.first, row.last} : name.length \in 1 .. NameMax /\ name.controls = "none"
    BY <1>2, <1>7
  <1>9. Storable(row)
    BY <1>3, <1>4, <1>5, <1>6, <1>8 DEF Storable
  <1> QED BY <1>9 DEF row

\* Whatever the lengths the application and the table allow, no submission passes
\* the checks (domain.py:61-108, documents.py:21-38) and then breaks a constraint of
\* the insert: the checks are made of the values that are stored.
THEOREM AcceptedFormsFit == FrontDoorSpec => []AcceptedIsStorable
  <1>1. RequestOK => AcceptedIsStorable
    BY Places, AcceptedStorable DEF AcceptedIsStorable
  <1> QED BY <1>1, RequestInvariant, PTL

--------------------------------------------------------------------------------
(* Settings.                                                                    *)

LEMMA AcceptedAreSafe == \A s \in AcceptedSettings : SafeSettings(s)
  <1> SUFFICES ASSUME NEW s \in SettingsSpace, EachAccepted(s), TogetherAccepted(s)
               PROVE  SafeSettings(s)
    BY DEF AcceptedSettings
  <1>1. s.supabase \in Origins /\ s.database \in Origins
        /\ s.resend \in Origins \cup {[scheme |-> "tls", host |-> "resend.com"]}
    BY DEF SettingsSpace
  <1>2. /\ ServiceUrlAccepted(s, s.resend) /\ ServiceUrlAccepted(s, s.supabase)
        /\ s.jwks = s.supabase /\ DatabaseAccepted(s.database) /\ SecretAccepted(s)
    BY DEF TogetherAccepted
  <1>3. ASSUME NEW url \in Origins, url.scheme = "plain", url.host = "loopback"
        PROVE  url = [scheme |-> "plain", host |-> "loopback"]
    BY <1>3 DEF Origins
  <1>4. ASSUME NEW url \in Origins \cup {[scheme |-> "tls", host |-> "resend.com"]},
               ServiceUrlAccepted(s, url)
        PROVE  /\ url.scheme = "tls" \/ url = [scheme |-> "plain", host |-> "loopback"]
               /\ Production(s) => url.scheme = "tls"
    <2>1. url.scheme \in {"plain", "tls", "malformed"}
      BY DEF Origins
    <2>2. url.scheme # "tls" => url \in Origins
      OBVIOUS
    <2> QED BY <1>3, <1>4, <2>1, <2>2 DEF ServiceUrlAccepted
  <1>5. s.database.scheme = "tls" \/ s.database = [scheme |-> "plain", host |-> "loopback"]
    <2>1. s.database.scheme \in {"plain", "tls", "malformed"}
          /\ s.database.host \in {"loopback", "remote"}
      BY <1>1 DEF Origins
    <2> QED BY <1>1, <1>2, <1>3, <2>1 DEF DatabaseAccepted
  <1>6. \A url \in {s.supabase, s.jwks, s.resend, s.database} :
            url.scheme = "tls" \/ url = [scheme |-> "plain", host |-> "loopback"]
    BY <1>1, <1>2, <1>4, <1>5
  <1>7. Production(s) => {s.supabase.scheme, s.jwks.scheme, s.resend.scheme} = {"tls"}
    BY <1>1, <1>2, <1>4
  <1>8. s.jwtSecret # "none" => s.jwks.host = "loopback"
    BY <1>2 DEF SecretAccepted
  <1> QED BY <1>6, <1>7, <1>8 DEF SafeSettings

\* Of all the combinations of settings none that passes the validators, each of
\* which looks at one or at a few, is unsafe (config.py:42-169).
THEOREM OnlySafeSettingsStart == FrontDoorSpec => []NoUnsafeConfiguration
  <1>1. RequestOK => NoUnsafeConfiguration
    BY Places, AcceptedAreSafe DEF NoUnsafeConfiguration
  <1> QED BY <1>1, RequestInvariant, PTL

--------------------------------------------------------------------------------
(* What passes the limiter for a client.                                        *)

\* The instants of s are instants of a, in their order.
Within(s, a) ==
    \E f \in [1 .. Len(s) -> 1 .. Len(a)] :
        /\ \A i \in 1 .. Len(s) : s[i] = a[f[i]]
        /\ \A i, j \in 1 .. Len(s) : i <= j => f[j] - f[i] >= j - i

LEMMA WithinLonger ==
    ASSUME NEW s \in Seq(Nat), NEW a \in Seq(Nat), NEW t \in Nat, Within(s, a)
    PROVE  Within(s, Append(a, t))
  <1>1. PICK f \in [1 .. Len(s) -> 1 .. Len(a)] :
           /\ \A i \in 1 .. Len(s) : s[i] = a[f[i]]
           /\ \A i, j \in 1 .. Len(s) : i <= j => f[j] - f[i] >= j - i
    BY DEF Within
  <1> DEFINE b == Append(a, t)
  <1>2. Len(b) = Len(a) + 1 /\ \A i \in 1 .. Len(a) : b[i] = a[i]
    OBVIOUS
  <1>3. Len(a) \in Nat /\ Len(s) \in Nat
    OBVIOUS
  <1> HIDE DEF b
  <1>4. f \in [1 .. Len(s) -> 1 .. Len(b)]
    BY <1>2, <1>3
  <1>5. \A i \in 1 .. Len(s) : s[i] = b[f[i]]
    BY <1>1, <1>2
  <1>6. Within(s, b)
    BY <1>1, <1>4, <1>5 DEF Within
  <1> QED BY <1>6 DEF b

LEMMA WithinBothLonger ==
    ASSUME NEW s \in Seq(Nat), NEW a \in Seq(Nat), NEW t \in Nat, Within(s, a)
    PROVE  Within(Append(s, t), Append(a, t))
  <1>1. PICK f \in [1 .. Len(s) -> 1 .. Len(a)] :
           /\ \A i \in 1 .. Len(s) : s[i] = a[f[i]]
           /\ \A i, j \in 1 .. Len(s) : i <= j => f[j] - f[i] >= j - i
    BY DEF Within
  <1> DEFINE b == Append(a, t)
             r == Append(s, t)
             m == Len(s)
             n == Len(a)
             g == [i \in 1 .. m + 1 |-> IF i <= m THEN f[i] ELSE n + 1]
  <1>2. /\ Len(b) = n + 1 /\ b[n + 1] = t /\ \A i \in 1 .. n : b[i] = a[i]
        /\ Len(r) = m + 1 /\ r[m + 1] = t /\ \A i \in 1 .. m : r[i] = s[i]
    OBVIOUS
  <1>3. m \in Nat /\ n \in Nat /\ \A i \in 1 .. m : f[i] \in 1 .. n
    <2>1. m \in Nat /\ n \in Nat
      OBVIOUS
    <2>2. \A i \in 1 .. m : f[i] \in 1 .. n
      BY <1>1
    <2> QED BY <2>1, <2>2
  <1>4. \A i, j \in 1 .. m : i <= j => f[j] - f[i] >= j - i
    BY <1>1
  <1>5. \A i \in 1 .. m : s[i] = a[f[i]]
    BY <1>1
  <1>6. /\ g \in [1 .. m + 1 -> 1 .. n + 1]
        /\ g[m + 1] = n + 1 /\ \A i \in 1 .. m : g[i] = f[i]
    BY <1>3
  <1> HIDE DEF b, r, m, n, g
  <1>7. ASSUME NEW i \in 1 .. m + 1 PROVE r[i] = b[g[i]]
    <2>1. CASE i \in 1 .. m
      <3>1. f[i] \in 1 .. n /\ g[i] = f[i] /\ r[i] = s[i] /\ s[i] = a[f[i]]
        BY <1>2, <1>3, <1>5, <1>6, <2>1
      <3>2. b[f[i]] = a[f[i]]
        BY <1>2, <3>1
      <3> QED BY <3>1, <3>2
    <2>2. CASE i = m + 1
      BY <1>2, <1>6, <2>2
    <2> QED BY <1>3, <2>1, <2>2
  <1>8. ASSUME NEW i \in 1 .. m + 1, NEW j \in 1 .. m + 1, i <= j
        PROVE  g[j] - g[i] >= j - i
    <2>1. CASE j \in 1 .. m
      BY <1>3, <1>4, <1>6, <1>8, <2>1
    <2>2. CASE i = m + 1 /\ j = m + 1
      BY <1>3, <1>6, <2>2
    <2>3. CASE i \in 1 .. m /\ j = m + 1
      <3>1. m \in 1 .. m /\ i <= m
        BY <1>3, <2>3
      <3>2. f[m] - f[i] >= m - i /\ f[m] \in 1 .. n /\ f[i] \in 1 .. n
        BY <1>3, <1>4, <2>3, <3>1
      <3>3. g[j] = n + 1 /\ g[i] = f[i]
        BY <1>6, <2>3
      <3> DEFINE x == f[m]
                 y == f[i]
      <3>4. g[j] = n + 1 /\ g[i] = y /\ x - y >= m - i /\ x \in 1 .. n /\ y \in 1 .. n
        BY <3>2, <3>3
      <3> HIDE DEF x, y
      <3>5. (n + 1) - y >= (m + 1) - i
        BY <1>3, <2>3, <3>4
      <3> QED BY <2>3, <3>4, <3>5
    <2> QED BY <1>3, <1>8, <2>1, <2>2, <2>3
  <1>9. Within(r, b)
    BY <1>2, <1>6, <1>7, <1>8 DEF Within
  <1> QED BY <1>9 DEF r, b

\* What lies within a history whose windows are bounded has bounded windows too.
LEMMA WithinSpaced ==
    ASSUME NEW s \in Seq(Nat), NEW a \in Seq(Nat), NEW t, Within(s, a),
           Spaced(a), Sorted(a, t)
    PROVE  Spaced(s)
  <1>1. PICK f \in [1 .. Len(s) -> 1 .. Len(a)] :
           /\ \A i \in 1 .. Len(s) : s[i] = a[f[i]]
           /\ \A i, j \in 1 .. Len(s) : i <= j => f[j] - f[i] >= j - i
    BY DEF Within
  <1>2. Limit \in Nat /\ WindowTicks \in Nat /\ Len(a) \in Nat /\ Len(s) \in Nat
    BY LimiterAssumption, TicksType DEF LimiterAssumption
  <1> SUFFICES ASSUME NEW i \in 1 .. Len(s), NEW j \in 1 .. Len(s), j = i + Limit
               PROVE  s[j] >= s[i] + WindowTicks
    BY DEF Spaced
  <1>3. f[i] \in 1 .. Len(a) /\ f[j] \in 1 .. Len(a) /\ f[j] - f[i] >= Limit
    <2>1. i <= j /\ j - i = Limit
      BY <1>2
    <2>2. f[j] - f[i] >= j - i
      BY <1>1, <2>1
    <2> QED BY <1>1, <2>1, <2>2
  <1> DEFINE x == f[i]
             y == f[j]
  <1>4. x \in 1 .. Len(a) /\ y \in 1 .. Len(a) /\ y - x >= Limit
    BY <1>3
  <1>5. s[i] = a[x] /\ s[j] = a[y]
    BY <1>1
  <1> HIDE DEF x, y
  <1>6. x + Limit \in 1 .. Len(a) /\ x + Limit <= y
    BY <1>2, <1>4
  <1> DEFINE k == x + Limit
  <1>7. a[k] >= a[x] + WindowTicks
    BY <1>4, <1>6 DEF Spaced
  <1>8. a[k] <= a[y]
    BY <1>4, <1>6 DEF Sorted
  <1>9. k \in 1 .. Len(a)
    BY <1>6
  <1> HIDE DEF k
  <1>10. \A l \in 1 .. Len(a) : a[l] \in Nat
    OBVIOUS
  <1> DEFINE first == a[x]
             last == a[y]
             between == a[k]
  <1>11. first \in Nat /\ last \in Nat /\ between \in Nat
    BY <1>4, <1>9, <1>10
  <1>12. between >= first + WindowTicks /\ between <= last
    BY <1>7, <1>8
  <1>13. s[i] = first /\ s[j] = last
    BY <1>5
  <1> HIDE DEF first, last, between
  <1>14. last >= first + WindowTicks
    BY <1>2, <1>11, <1>12
  <1> QED BY <1>13, <1>14

\* A client's submissions are counted against its own address, so those that pass
\* are among those the limiter admits for that address.
PassedOK ==
    /\ passed \in [Keys \ Proxies -> Seq(Nat)]
    /\ \A p \in Keys \ Proxies : Within(passed[p], admitted[p])

LEMMA OwnAddress ==
    ASSUME NEW p \in Keys \ Proxies, NEW header
    PROVE  ClientKey(p, header) = p
  BY DEF ClientKey, Trusted

LEMMA CountKeepsPassed ==
    ASSUME LimiterInv, RequestOK, PassedOK, CountSubmission
    PROVE  PassedOK'
  <1>1. /\ passed \in [Keys \ Proxies -> Seq(Nat)] /\ admitted \in [Keys -> Seq(Nat)]
        /\ now \in Nat /\ \A p \in Keys \ Proxies : Within(passed[p], admitted[p])
    BY DEF PassedOK, LimiterInv, Values
  <1>2. PICK route \in Routes, peer \in Keys :
           conn = [at |-> "limit", route |-> route, peer |-> peer]
    BY Places DEF CountSubmission, Step
  <1>3. PICK header \in HeaderValues :
           /\ ClientKey(peer, header) \in Keys
           /\ \/ Admit(ClientKey(peer, header)) /\ Note(peer)
              \/ /\ TurnAway(ClientKey(peer, header)) \/ Refuse(ClientKey(peer, header))
                 /\ UNCHANGED passed
    BY <1>2 DEF CountSubmission
  <1>4. PICK key \in Keys : key = ClientKey(peer, header)
    BY <1>3
  <1>5. CASE (TurnAway(key) \/ Refuse(key)) /\ UNCHANGED passed
    BY <1>5 DEF TurnAway, Refuse, PassedOK
  <1>6. CASE Admit(key) /\ Note(peer)
    <2>1. admitted' = [admitted EXCEPT ![key] = Append(@, now)]
      BY <1>6 DEF Admit
    <2>2. DOMAIN passed = Keys \ Proxies
      BY <1>1
    <2>3. passed' = IF peer \in Keys \ Proxies
                    THEN [passed EXCEPT ![peer] = Append(@, now)] ELSE passed
      BY <1>6, <2>2 DEF Note
    <2>4. peer \in Keys \ Proxies => key = peer
      BY <1>4, OwnAddress
    <2>5. passed' \in [Keys \ Proxies -> Seq(Nat)]
      BY <1>1, <2>3
    <2>6. ASSUME NEW p \in Keys \ Proxies PROVE Within(passed'[p], admitted'[p])
      <3>0. passed[p] \in Seq(Nat) /\ admitted[p] \in Seq(Nat) /\ Within(passed[p], admitted[p])
        BY <1>1
      <3>1. CASE p = peer
        <4>1. passed'[p] = Append(passed[p], now) /\ admitted'[p] = Append(admitted[p], now)
          BY <1>1, <2>1, <2>3, <2>4, <3>1
        <4> QED BY <1>1, <3>0, <4>1, WithinBothLonger
      <3>2. CASE p # peer /\ p = key
        <4>1. passed'[p] = passed[p] /\ admitted'[p] = Append(admitted[p], now)
          BY <1>1, <2>1, <2>3, <3>2
        <4> QED BY <1>1, <3>0, <4>1, WithinLonger
      <3>3. CASE p # peer /\ p # key
        <4>1. passed'[p] = passed[p] /\ admitted'[p] = admitted[p]
          BY <1>1, <2>1, <2>3, <3>3
        <4> QED BY <3>0, <4>1
      <3> QED BY <3>1, <3>2, <3>3
    <2> QED BY <2>5, <2>6 DEF PassedOK
  <1> QED BY <1>3, <1>4, <1>5, <1>6

LEMMA StepKeepsPassed ==
    ASSUME LimiterInv, RequestOK, PassedOK, [FrontDoorNext]_frontDoor
    PROVE  PassedOK'
  <1>1. CASE Start \/ Private \/ Pass \/ UNCHANGED frontDoor
    <2>1. UNCHANGED <<passed, admitted>>
      BY <1>1 DEF Start, Private, Pass, frontDoor, limiter
    <2> QED BY <2>1 DEF PassedOK
  <1>2. Arrive \/ Preflight \/ CheckLength \/ Unlimited \/ RefuseAddress => Private
    BY DEF Arrive, Preflight, CheckLength, Unlimited, RefuseAddress
  <1>3. RouteUnknown \/ RouteHealth \/ RouteReview \/ RouteSubmit => Private
    BY DEF RouteUnknown, RouteHealth, RouteReview, RouteSubmit, At
  <1>4. ReadChunk \/ RefuseForm \/ AcceptForm \/ Intake \/ Leave => Private
    BY DEF ReadChunk, RefuseForm, AcceptForm, Intake, Leave
  <1> QED
    BY <1>1, <1>2, <1>3, <1>4, CountKeepsPassed DEF FrontDoorNext

\* What passed for a client is always part of what the limiter admitted for its
\* address (middleware.py:102-121).
THEOREM PassedInvariant == FrontDoorSpec => []PassedOK
  <1>1. FrontDoorInit => PassedOK
    <2> SUFFICES ASSUME FrontDoorInit PROVE PassedOK
      OBVIOUS
    <2>1. passed = [p \in Keys \ Proxies |-> <<>>] /\ admitted = [k \in Keys |-> <<>>]
      BY DEF FrontDoorInit, LimiterInit
    <2>2. Within(<<>>, <<>>)
      <3> PICK s : s = <<>>
        OBVIOUS
      <3>1. 1 .. Len(s) = {}
        OBVIOUS
      <3>2. [i \in 1 .. Len(s) |-> i] \in [1 .. Len(s) -> 1 .. Len(s)]
        OBVIOUS
      <3>3. Within(s, s)
        BY <3>1, <3>2 DEF Within
      <3> QED BY <3>3
    <2> QED BY <2>1, <2>2 DEF PassedOK
  <1>2. FrontDoorSpec => []LimiterInv
    BY LayersRefineLimiter, LimiterInvariant, PTL
  <1>3. LimiterInv /\ RequestOK /\ PassedOK /\ [FrontDoorNext]_frontDoor => PassedOK'
    BY StepKeepsPassed
  <1> QED BY <1>1, <1>2, <1>3, RequestInvariant, PTL DEF FrontDoorSpec

\* No client that does not come through a trusted proxy gets more than Limit
\* submissions past the limiter in a window, whatever headers it sends and whatever
\* proxies say in its name (middleware.py:102-121), for all clients, limits and
\* windows.
THEOREM PeersBounded == FrontDoorSpec => []PeerBounded
  <1>1. LimiterInv /\ PassedOK => PeerBounded
    <2> SUFFICES ASSUME LimiterInv, PassedOK, NEW p \in Keys \ Proxies
                 PROVE  Spaced(passed[p])
      BY DEF PeerBounded, PassedOK, Spaced
    <2>1. KeyOK(admitted[p], entries[p], now)
      BY DEF LimiterInv, KeyInv
    <2>2. passed[p] \in Seq(Nat) /\ Within(passed[p], admitted[p])
      BY DEF PassedOK
    <2> QED BY <2>1, <2>2, WithinSpaced DEF KeyOK
  <1>2. FrontDoorSpec => []LimiterInv
    BY LayersRefineLimiter, LimiterInvariant, PTL
  <1> QED BY <1>1, <1>2, PassedInvariant, PTL
================================================================================
