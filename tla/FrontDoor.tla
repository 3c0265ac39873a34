------------------------------- MODULE FrontDoor -------------------------------
(* A request on its way through the API: the layers create_app puts around the  *)
(* router, the limiter they share, the reading of the body, the checks of the   *)
(* form, and the answer. One request is under way at a time. Requests share     *)
(* nothing here but the limiter, and a call of the limiter is one step, so a    *)
(* second request would add no behaviour the first one can see.                 *)
EXTENDS RateLimiter, SubmissionForm, Settings

CONSTANTS
    Proxies,            \* addresses within trusted_proxy_cidrs, where that is set
    BodyCap,            \* overall_body_cap_bytes, in the units of MaxResume
    Overhead,           \* what a largest form holds besides its resume
    ChunkMax            \* bound of the model: the largest chunk of a body

\* The validator asks only that the cap be above the resume's; that it also holds
\* the rest of a form is true of the default, 12 MiB.
ASSUME FrontDoorAssumption ==
    /\ Proxies \subseteq Keys
    /\ {Overhead, ChunkMax} \subseteq Nat \ {0}
    /\ BodyCap \in Nat /\ BodyCap > MaxResume
    /\ BodyCap >= MaxResume + Overhead

VARIABLES
    settings,   \* the settings given; once started, those the layers were built with
    conn,       \* the request under way and where it is
    passed      \* history: when the limiter let requests of a client pass

frontDoor == <<now, limiter, settings, conn, passed>>

--------------------------------------------------------------------------------
Idle == [at |-> "idle"]

\* Mutant of Layers: the request context is put inside the limiter and the cap.
LayersContextInside ==
    <<"errors", "cors", "cap", "limit", "context", "handlers", "router">>

\* Outermost first: a middleware added later lies further out. The framework adds
\* the first and the last two.
Layers == <<"errors", "cors", "context", "cap", "limit", "handlers", "router">>

Inside(outer, inner) ==
    \E i, j \in 1 .. Len(Layers) : Layers[i] = outer /\ Layers[j] = inner /\ i < j

\* An answer made by a layer, with the cause it should tell, and whether it passes
\* the layer that adds the request id.
Answered(layer, status, cause) ==
    [at |-> "answered", status |-> status, cause |-> cause,
     tagged |-> Inside("context", layer)]

\* An exception of the router goes to the handlers next to it, but for the one
\* the framework keeps for its outermost layer.
Problem(e, cause) ==
    Answered(IF HandlerOf(e.class) = "Exception" THEN "errors" ELSE "handlers",
             StatusOf(e), cause)

FrontDoorInit ==
    /\ LimiterInit
    /\ settings \in AcceptedSettings
    /\ conn = [at |-> "down"]
    /\ passed = [p \in Keys \ Proxies |-> <<>>]

\* create_app with settings that passed the validators; others end the process.
Start ==
    /\ conn.at = "down"
    /\ conn' = Idle
    /\ settings' = [header |-> settings.header, proxies |-> settings.proxies]
    /\ UNCHANGED <<now, limiter, passed>>

Step(stage) == conn.at = stage /\ UNCHANGED settings

\* Of everything but the request nothing changes.
Private == UNCHANGED <<now, limiter, passed>>

--------------------------------------------------------------------------------
(* The layers.                                                                  *)

Arrive ==
    /\ Step("idle") /\ Private
    /\ \E route \in {"submit", "review", "health", "unknown"}, p \in Keys :
        conn' = [at |-> "cap", route |-> route, peer |-> p]

Preflight ==
    /\ Step("idle") /\ Private
    /\ conn' = Answered("cors", 200, "preflight")

TooLarge(bytes) == bytes > BodyCap

\* Content-Length: unreadable, too large, within the cap, or not there just once.
CheckLength ==
    /\ Step("cap") /\ Private
    /\ \/ conn' = Answered("cap", 400, "input")
       \/ \E n \in 0 .. BodyCap + 1 : TooLarge(n) /\ conn' = Answered("cap", 413, "size")
       \/ conn' = [conn EXCEPT !.at = "limit"]

Trusted(p) == settings.proxies /\ p \in Proxies

HeaderValues == {"none", "malformed"} \cup Keys

\* Mutant of ClientKey: the header is believed whoever sends it.
ClientKeyFromAnyone(p, header) ==
    IF ~settings.header \/ header \in {"none", "malformed"} THEN p ELSE header

\* Whom a submission is counted against. A connection without an address counts
\* as "unknown", which is then one of the addresses no proxy has.
ClientKey(p, header) ==
    IF ~Trusted(p) \/ ~settings.header \/ header = "none" THEN p ELSE header

Malformed(p, header) == Trusted(p) /\ settings.header /\ header = "malformed"

Unlimited ==
    /\ Step("limit") /\ Private
    /\ conn.route # "submit"
    /\ conn' = [at |-> "router", route |-> conn.route]

RefuseAddress ==
    /\ Step("limit") /\ Private
    /\ conn.route = "submit"
    /\ \E header \in HeaderValues : Malformed(conn.peer, header)
    /\ conn' = Answered("limit", 400, "input")

Note(p) ==
    passed' = IF p \in DOMAIN passed THEN [passed EXCEPT ![p] = Append(@, now)] ELSE passed

CountSubmission ==
    /\ Step("limit") /\ UNCHANGED now
    /\ conn.route = "submit"
    /\ \E header \in HeaderValues :
        LET key == ClientKey(conn.peer, header) IN
        /\ ~Malformed(conn.peer, header)
        /\ key \in Keys
        /\ \/ /\ Admit(key)
              /\ Note(conn.peer)
              /\ conn' = [at |-> "router", route |-> "submit"]
           \/ /\ TurnAway(key) \/ Refuse(key)
              /\ conn' = Answered("limit", 429, "rate")
              /\ UNCHANGED passed

--------------------------------------------------------------------------------
(* The routes.                                                                  *)

Failure(e, cause) == [e |-> e, cause |-> cause]

\* Database functions that raise, and statements whose errors nobody translates
\* before the unit of work ends.
Raised ==
    {Failure(Translate(s, about), CauseOfState(s)) : s \in SqlStates, about \in Subjects} \cup
    {Failure(Exception("SQLAlchemyError", "database"), "outage")}

DatabaseFailures ==
    {Failure(UnitOfWorkEnds(f.e, FALSE), f.cause) : f \in Raised} \cup
    {Failure(UnitOfWorkEnds(f.e, TRUE), "rollback") : f \in Raised}

Unavailable == Failure(Exception("DependencyUnavailableError", "dependency_unavailable"), "outage")

Defect == Failure(Exception("Other", "internal_error"), "defect")

SubmissionFailures == DatabaseFailures \cup {Unavailable, Defect}

\* Authentication and the reviewers' use cases.
ReviewFailures ==
    DatabaseFailures \cup {Unavailable, Defect} \cup
    {Failure(Exception("AuthenticationError", "authentication_failed"), "caller"),
     Failure(Exception("TicketError", "invalid_download_ticket"), "caller"),
     Failure(HttpException(400), "input"),
     Failure(Exception("RequestValidationError", "validation_failed"), "input"),
     Failure(Exception("InvalidCursorError", "invalid_cursor"), "input"),
     Failure(Exception("ApplicationError", "application_error"), "input"),
     Failure(Exception("NotFoundError", "not_found"), "missing"),
     Failure(Exception("ConcurrencyError", "concurrency_conflict"), "conflict")} \cup
    {Failure(Exception("DomainError", code), "conflict") : code \in Conflicts}

Fail(failures) == \E f \in failures : conn' = Problem(f.e, f.cause)

Succeed(status) == conn' = Answered("router", status, "none")

At(route) == Step("router") /\ conn.route = route /\ Private

RouteUnknown == At("unknown") /\ conn' = Problem(HttpException(404), "missing")

\* A failing readiness check is answered where it fails, whatever it was.
RouteHealth ==
    At("health") /\ (Succeed(200) \/ conn' = Answered("router", 503, "outage"))

RouteReview == At("review") /\ (Succeed(200) \/ Fail(ReviewFailures))

RouteSubmit == At("submit") /\ conn' = [at |-> "reading", received |-> 0]

ReadChunk ==
    /\ Step("reading") /\ Private
    /\ \E n \in 1 .. ChunkMax :
        LET received == conn.received + n IN
        conn' = IF TooLarge(received)
                THEN Problem(Exception("RequestBodyTooLarge", "request_too_large"), "size")
                ELSE [conn EXCEPT !.received = received]

\* The body has ended and the form is judged.
RefuseForm ==
    /\ Step("reading") /\ Private
    /\ \E e \in FormRefusals :
        LET large == e.code = "resume_too_large" IN
        /\ large => conn.received > MaxResume
        /\ conn' = Problem(e, IF large THEN "size" ELSE "input")

AcceptForm ==
    /\ Step("reading") /\ Private
    /\ conn.received > Overhead
    /\ \E row \in AcceptedRows : conn' = [at |-> "intake", row |-> row]

\* What LeadIntake describes in its steps, as the route sees it end.
Intake ==
    /\ Step("intake") /\ Private
    /\ Succeed(201) \/ Fail(SubmissionFailures)

Leave == Step("answered") /\ Private /\ conn' = Idle

--------------------------------------------------------------------------------
Pass == conn.at # "down" /\ Advance /\ UNCHANGED <<limiter, settings, conn, passed>>

FrontDoorNext ==
    \/ Start
    \/ Arrive \/ Preflight \/ CheckLength
    \/ Unlimited \/ RefuseAddress \/ CountSubmission
    \/ RouteUnknown \/ RouteHealth \/ RouteReview \/ RouteSubmit
    \/ ReadChunk \/ RefuseForm \/ AcceptForm \/ Intake
    \/ Leave \/ Pass

FrontDoorSpec == FrontDoorInit /\ [][FrontDoorNext]_frontDoor

--------------------------------------------------------------------------------
(* Properties.                                                                  *)

\* A client that does not come through a trusted proxy gets no more than Limit
\* submissions past the limiter in any window, whatever headers it sends, however
\* the proxies' settings are combined, and whatever others do in its name
\* (middleware.py:102-121).
PeerBounded ==
    \A p \in DOMAIN passed : \A i, j \in 1 .. Len(passed[p]) :
        j = i + Limit => passed[p][j] >= passed[p][i] + WindowTicks

\* The status tells the cause: the caller is not blamed for an outage or a defect,
\* an outage is not answered as a defect, nor a full budget as a conflict, through
\* the database's error codes, the unit of work, the class hierarchy and the
\* handlers (persistence.py:785-810, presentation.py:492-583).
TruthfulAnswers ==
    conn.at = "answered" /\ conn.cause # "preflight" => conn.status \in Truthful(conn.cause)

\* Every answer carries the request id, by whichever layer it was made, but for
\* preflights and the outermost layer's answer to what nobody handled: the limiter,
\* the cap and the handlers all lie inside the context (main.py:139-160).
TraceableAnswers ==
    conn.at = "answered" =>
        conn.tagged \/ conn.cause \in {"preflight", "defect", "rollback"}

\* What the API accepts, the leads table stores: no submission passes the checks of
\* domain.py:61-108 and documents.py:21-38, reserves mail and uploads its resume
\* only to break a constraint of the insert, which the caller would be told is an
\* invalid status transition (persistence.py:806).
AcceptedIsStorable == conn.at = "intake" => Storable(conn.row)

\* The process starts with safe settings only, whatever set of them passes the
\* validators of config.py:42-169, each looking at one setting or at a few.
NoUnsafeConfiguration == conn.at = "down" => SafeSettings(settings)
================================================================================
