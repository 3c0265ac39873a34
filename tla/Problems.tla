-------------------------------- MODULE Problems --------------------------------
(* From what went wrong to the answer that says so. An exception is a class and *)
(* a code; database errors become exceptions in the repositories, exceptions    *)
(* become answers in the handlers the application installs. A class without a   *)
(* handler of its own is answered by the handler of its nearest ancestor.       *)
EXTENDS Naturals

\* What subclasses ApplicationError, and what else the API raises or meets.
UseCaseErrors ==
    {"NotFoundError", "ConcurrencyError", "BudgetExceededError",
     "InvalidCursorError", "DependencyUnavailableError", "AuthenticationError",
     "TicketError", "RateLimitExceeded"}

\* "Other" is any class the application does not know.
Classes ==
    UseCaseErrors \cup
    {"ApplicationError", "DomainError", "RequestBodyTooLarge", "SQLAlchemyError",
     "RequestValidationError", "HTTPException", "Other"}

Base == [c \in Classes |-> IF c \in UseCaseErrors THEN "ApplicationError" ELSE "Exception"]

\* status is the one an HTTPException brings with it.
Exception(class, code) == [class |-> class, code |-> code, status |-> 500]
HttpException(status) == [class |-> "HTTPException", code |-> "http_error", status |-> status]

--------------------------------------------------------------------------------
(* Database errors.                                                             *)

SqlStates ==
    {"P0001", "P0002", "54000", "55000", "55P03", "23505", "23514", "22004", "22023", "other"}

\* What the message of a 55000 speaks of, as far as the code looks at it.
Subjects == {"cooldown", "manual retry", "other"}

Translate(sqlstate, subject) ==
    CASE sqlstate = "P0002" -> Exception("NotFoundError", "not_found")
      [] sqlstate = "P0001" -> Exception("BudgetExceededError", "budget_exceeded")
      [] sqlstate = "54000" -> Exception("DomainError", "retry_limit_reached")
      [] sqlstate = "55000" /\ subject = "cooldown" -> Exception("DomainError", "retry_cooldown")
      [] sqlstate = "55000" /\ subject = "manual retry" ->
            Exception("DomainError", "delivery_not_retryable")
      [] sqlstate = "55P03" -> Exception("DomainError", "delivery_in_progress")
      [] sqlstate = "23505" \/ (sqlstate = "55000" /\ subject = "other") ->
            Exception("ConcurrencyError", "concurrency_conflict")
      [] sqlstate = "23514" -> Exception("DomainError", "invalid_status_transition")
      [] sqlstate \in {"22004", "22023"} -> Exception("ApplicationError", "application_error")
      [] OTHER -> Exception("DependencyUnavailableError", "dependency_unavailable")

\* What leaves a unit of work that an exception ends. A rollback that fails
\* replaces the exception and is not translated any more.
UnitOfWorkEnds(e, rollbackFails) ==
    IF rollbackFails THEN Exception("SQLAlchemyError", "database")
    ELSE IF e.class = "SQLAlchemyError"
    THEN Exception("DependencyUnavailableError", "dependency_unavailable")
    ELSE e

--------------------------------------------------------------------------------
(* Exception handlers.                                                          *)

\* Domain errors that are conflicts with a state; the others blame the input.
Conflicts ==
    {"invalid_status_transition", "delivery_already_accepted", "retry_limit_reached",
     "retry_cooldown", "delivery_in_progress", "delivery_not_retryable",
     "duplicate_risk_confirmation_required"}

Handled ==
    {"RequestBodyTooLarge", "AuthenticationError", "DependencyUnavailableError",
     "NotFoundError", "ConcurrencyError", "TicketError", "BudgetExceededError",
     "InvalidCursorError", "RateLimitExceeded", "DomainError", "ApplicationError",
     "RequestValidationError", "HTTPException"}

\* Mutant of HandlerOf: the base class' handler is found first.
HandlerOfBase(class) ==
    IF Base[class] \in Handled THEN Base[class]
    ELSE IF class \in Handled THEN class ELSE "Exception"

HandlerOf(class) ==
    IF class \in Handled THEN class
    ELSE IF Base[class] \in Handled THEN Base[class] ELSE "Exception"

StatusOf(e) ==
    LET handler == HandlerOf(e.class) IN
    CASE handler = "RequestBodyTooLarge" -> 413
      [] handler \in {"AuthenticationError", "TicketError"} -> 401
      [] handler = "DependencyUnavailableError" -> 503
      [] handler = "NotFoundError" -> 404
      [] handler = "ConcurrencyError" -> 409
      [] handler \in {"BudgetExceededError", "RateLimitExceeded"} -> 429
      [] handler = "DomainError" -> IF e.code \in Conflicts THEN 409 ELSE 422
      [] handler \in {"InvalidCursorError", "ApplicationError", "RequestValidationError"} -> 422
      [] handler = "HTTPException" -> e.status
      [] handler = "Exception" -> 500

--------------------------------------------------------------------------------
(* Causes: what is wrong, told by the place that raises, not by the class.      *)

\* Whose fault a database error is, by what the functions and Postgres mean by it.
CauseOfState(sqlstate) ==
    CASE sqlstate = "P0001" -> "capacity"
      [] sqlstate = "P0002" -> "missing"
      [] sqlstate \in {"54000", "55000", "23505", "23514"} -> "conflict"
      [] sqlstate = "55P03" -> "contention"
      [] sqlstate \in {"22004", "22023"} -> "input"
      [] OTHER -> "outage"

\* The statuses that tell the caller the truth about a cause.
Truthful(cause) ==
    CASE cause = "none" -> {200, 201}
      [] cause = "input" -> {400, 422}
      [] cause = "size" -> {413, 422}
      [] cause = "caller" -> {401}
      [] cause = "missing" -> {404}
      [] cause = "conflict" -> {409}
      [] cause = "contention" -> {409, 503}
      [] cause \in {"capacity", "rate"} -> {429}
      [] cause = "outage" -> {503}
      [] cause \in {"defect", "rollback"} -> {500}
================================================================================
