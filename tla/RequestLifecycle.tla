-------------------------- MODULE RequestLifecycle --------------------------
(***************************************************************************)
(* src/src/adapters: what each framework adapter does with one request.    *)
(*                                                                         *)
(* An adapter is a record of the choices in which the adapters differ:     *)
(*   gate  what decides: a rate limiter, the unified admitter, or a bare   *)
(*         concurrency guard (the only one that answers synchronously);    *)
(*   life  what ends the request and so gives its slot back: the "node"    *)
(*         response events finish and close; the "finally" of the wrapped  *)
(*         handler; the end, error or cancellation of the "stream" of the  *)
(*         response body; or "none", where no slot is ever held;           *)
(*   five  whether dropOn5xx is looked at;                                 *)
(*   deny, down   what a denial and an outage under fail: "closed" become: *)
(*         a response ("429", "503") or an exception.                          *)
(*                                                                         *)
(* The slot is the guard's (module AdaptiveGuard).  The admitter takes it  *)
(* before it awaits its other axes and gives it back, not dropped, when    *)
(* one of them denies or throws (module UnifiedAdmission has that part in  *)
(* full).  Keys, costs, header wording and callbacks are left out.         *)
(***************************************************************************)
EXTENDS AdaptiveGuard

CONSTANTS AdapterSet,      \* the adapters tried
          LifeSpan         \* bound on the clock while requests are served

VARIABLE req
lifeVars == <<guard, lease, recent, gnow, req>>

Adapter(gate, life, five, deny, down) ==
    [gate |-> gate, life |-> life, five |-> five, deny |-> deny, down |-> down]

Limits(deny, down)  == Adapter("limiter", "none", FALSE, deny, down)
Responds(gate, life) == Adapter(gate, life, TRUE, "429", "503")

expressRateLimit            == Limits("429", "503")
expressUnifiedAdmission     == Responds("admitter", "node")
expressAdaptiveConcurrency  == Responds("guard", "node")
fastifyRateLimit            == Limits("429", "503")
fastifyUnifiedAdmission     == Responds("admitter", "node")
fastifyAdaptiveConcurrency  == Responds("guard", "node")
koaRateLimit                == Limits("429", "503")
koaUnifiedAdmission         == Responds("admitter", "node")
koaAdaptiveConcurrency      == Responds("guard", "node")
nestRateLimit               == Limits("throw", "throw")
createRateLimitGuard        == Limits("throw", "throw")
nestUnifiedAdmissionMiddleware    == Responds("admitter", "node")
nestAdaptiveConcurrencyMiddleware == Responds("guard", "node")
honoRateLimit               == Limits("429", "503")
honoUnifiedAdmission        == Responds("admitter", "finally")
honoAdaptiveConcurrency     == Responds("guard", "finally")
elysiaRateLimit             == Limits("429", "503")
elysiaUnifiedAdmission      == Responds("admitter", "finally")
elysiaAdaptiveConcurrency   == Responds("guard", "finally")
trpcRateLimit               == Limits("throw", "throw")
trpcUnifiedAdmission        == Adapter("admitter", "finally", FALSE, "throw", "throw")
trpcAdaptiveConcurrency     == Adapter("guard", "finally", FALSE, "throw", "throw")
withRateLimit               == Limits("429", "503")
withUnifiedAdmission        == Responds("admitter", "stream")
withAdaptiveConcurrency     == Responds("guard", "stream")
nextRateLimit               == Limits("429", "503")
nextUnifiedAdmission        == Responds("admitter", "stream")
nextAdaptiveConcurrency     == Responds("guard", "stream")
sveltekitRateLimit          == Limits("429", "503")
sveltekitUnifiedAdmission   == Responds("admitter", "stream")
sveltekitAdaptiveConcurrency == Responds("guard", "stream")
remixRateLimit              == Limits("throw", "throw")
remixUnifiedAdmission       == Responds("admitter", "stream")
remixAdaptiveConcurrency    == Responds("guard", "stream")
grpcRateLimit               == Limits("RESOURCE_EXHAUSTED", "UNAVAILABLE")
lambdaRateLimit             == Limits("429", "503")

AllAdapters ==
    {expressRateLimit, expressUnifiedAdmission, expressAdaptiveConcurrency,
     fastifyRateLimit, fastifyUnifiedAdmission, fastifyAdaptiveConcurrency,
     koaRateLimit, koaUnifiedAdmission, koaAdaptiveConcurrency,
     nestRateLimit, createRateLimitGuard, nestUnifiedAdmissionMiddleware,
     nestAdaptiveConcurrencyMiddleware, honoRateLimit, honoUnifiedAdmission,
     honoAdaptiveConcurrency, elysiaRateLimit, elysiaUnifiedAdmission,
     elysiaAdaptiveConcurrency, trpcRateLimit, trpcUnifiedAdmission,
     trpcAdaptiveConcurrency, withRateLimit, withUnifiedAdmission,
     withAdaptiveConcurrency, nextRateLimit, nextUnifiedAdmission,
     nextAdaptiveConcurrency, sveltekitRateLimit, sveltekitUnifiedAdmission,
     sveltekitAdaptiveConcurrency, remixRateLimit, remixUnifiedAdmission,
     remixAdaptiveConcurrency, grpcRateLimit, lambdaRateLimit}

(***************************************************************************)
(* A request: where it is, how its adapter was configured, the connection  *)
(* ("early": closed before the adapter listened), the status its handler   *)
(* produced, and what the gate answered.                                   *)
(***************************************************************************)
NoRequest ==
    [phase |-> "idle", on |-> Limits("429", "503"), fail |-> "open", drop5xx |-> FALSE,
     conn |-> "open", status |-> "none", answer |-> "none"]

LifeInit ==
    /\ GuardInit
    /\ req = [r \in Holders |-> NoRequest]

Goes(r, phase, answer) == req' = [req EXCEPT ![r].phase = phase, ![r].answer = answer]

TakeSlot(r) ==
    /\ guard' = Acquired(guard)
    /\ lease' = [lease EXCEPT ![r] = LeaseAt(Acquired(guard))]
    /\ UNCHANGED recent

(***************************************************************************)
(* The middleware is entered.  A guard answers on the spot; an admitter    *)
(* takes the slot, or is refused it, before it awaits anything; a limiter  *)
(* only awaits.                                                            *)
(***************************************************************************)
Arrive(r) ==
    \E on \in AdapterSet :
    \E fail \in IF on.gate = "guard" THEN {"open"} ELSE {"open", "closed"} :
    \E drop5xx \in IF on.five THEN BOOLEAN ELSE {FALSE} :
        LET entered(phase, answer) ==
                req' = [req EXCEPT ![r] = [NoRequest EXCEPT
                            !.phase = phase, !.on = on, !.fail = fail,
                            !.drop5xx = drop5xx, !.answer = answer]]
        IN  /\ req[r].phase = "idle"
            /\ \/ /\ on.gate = "limiter"
                  /\ entered("pending", "none") /\ UNCHANGED <<guard, lease, recent>>
               \/ /\ on.gate # "limiter" /\ ~HasRoom(guard)
                  /\ entered("done", on.deny) /\ UNCHANGED <<guard, lease, recent>>
               \/ /\ on.gate = "admitter" /\ HasRoom(guard)
                  /\ entered("pending", "none") /\ TakeSlot(r)
               \/ /\ on.gate = "guard" /\ HasRoom(guard)
                  /\ entered("running", "served") /\ TakeSlot(r)
            /\ UNCHANGED gnow

(***************************************************************************)
(* The awaited answer.  From here the response's events are listened to;   *)
(* one that fired earlier is gone.                                         *)
(***************************************************************************)
Allowed(r) ==
    /\ req[r].phase = "pending"
    /\ Goes(r, IF req[r].on.gate = "limiter" THEN "done" ELSE "running", "served")
    /\ UNCHANGED guardVars

Denied(r) ==
    /\ req[r].phase = "pending"
    /\ Release(r, FALSE)
    /\ Goes(r, "done", req[r].on.deny)
    /\ UNCHANGED gnow

\* Slip: the admitter's catch does not give the slot back.
ThrewKeepingSlot(r) ==
    /\ req[r].phase = "pending"
    /\ Goes(r, "done", IF req[r].fail = "open" THEN "unguarded" ELSE req[r].on.down)
    /\ UNCHANGED guardVars

\* The store or an axis throws: the slot is given back and the fail policy
\* serves the request without one, or refuses it.
Threw(r) ==
    /\ req[r].phase = "pending"
    /\ Release(r, FALSE)
    /\ Goes(r, "done", IF req[r].fail = "open" THEN "unguarded" ELSE req[r].on.down)
    /\ UNCHANGED gnow

(***************************************************************************)
(* The service ends and the slot goes back: `dropped` reports a response   *)
(* that was cut short, or a 5xx when the adapter was told to count those.  *)
(***************************************************************************)
Is5xx(r, status) == req[r].drop5xx /\ status = "5xx"
Served(r, phase, conn, status) ==
    req' = [req EXCEPT ![r].phase = phase, ![r].conn = conn, ![r].status = status]

\* Hono, Elysia, tRPC: try/finally around the handler.
Returns(r) ==
    /\ req[r].phase = "running" /\ req[r].on.life = "finally"
    /\ \E status \in {"ok", "5xx", "thrown"} :
          /\ Release(r, status = "thrown" \/ Is5xx(r, status))
          /\ Served(r, "done", req[r].conn, status)
    /\ UNCHANGED gnow

\* Fetch, Next, SvelteKit, Remix: the handler's response is wrapped, unless
\* it threw or has no body.
Responded(r) ==
    /\ req[r].phase = "running" /\ req[r].on.life = "stream"
    /\ \E status \in {"ok", "5xx"} :
          \/ Release(r, TRUE) /\ Served(r, "done", req[r].conn, "thrown")
          \/ Release(r, Is5xx(r, status)) /\ Served(r, "done", req[r].conn, status)
          \/ /\ req' = [req EXCEPT ![r].phase = "body", ![r].status = status]
             /\ UNCHANGED <<guard, lease, recent>>
    /\ UNCHANGED gnow

\* wrapResponseStreamLifecycle: the pump reaches the end of the source or
\* its error; the consumer cancels, and the pump still runs to the end.
Pumped(r) ==
    /\ req[r].phase = "body"
    /\ \E dropped \in {TRUE, Is5xx(r, req[r].status)} :
          /\ Release(r, dropped)
          /\ Served(r, "done", IF dropped THEN "closed" ELSE req[r].conn, req[r].status)
    /\ UNCHANGED gnow

Cancelled(r) ==
    /\ req[r].phase = "body" /\ req[r].conn = "open"
    /\ Release(r, TRUE)
    /\ Served(r, "body", "closed", req[r].status)
    /\ UNCHANGED gnow

\* Express, Fastify, Koa, Nest: the handler ends the response; nothing is
\* sent, and no event follows, on a connection that is already gone.
Ended(r) ==
    /\ req[r].phase = "running" /\ req[r].on.life = "node"
    /\ \E status \in {"ok", "5xx"} :
          req' = [req EXCEPT ![r].phase = IF req[r].conn = "open" THEN "ended" ELSE "done",
                             ![r].status = status]
    /\ UNCHANGED guardVars

\* wireResponseLifecycle: finish, then or before it close; the first wins.
Finish(r) ==
    /\ req[r].phase = "ended"
    /\ Release(r, Is5xx(r, req[r].status))
    /\ Served(r, "done", req[r].conn, req[r].status)
    /\ UNCHANGED gnow

\* Slip: close is taken to mean that the response was delivered.
CloseIsDelivery(r) ==
    /\ req[r].conn = "open" /\ req[r].on.life = "node" /\ req[r].phase # "idle"
    /\ IF req[r].phase = "pending" THEN UNCHANGED <<guard, lease, recent>> ELSE Release(r, FALSE)
    /\ Served(r, req[r].phase, IF req[r].phase = "pending" THEN "early" ELSE "closed",
              req[r].status)
    /\ UNCHANGED gnow

Close(r) ==
    /\ req[r].conn = "open" /\ req[r].on.life = "node" /\ req[r].phase # "idle"
    /\ IF req[r].phase = "pending" THEN UNCHANGED <<guard, lease, recent>> ELSE Release(r, TRUE)
    /\ Served(r, req[r].phase, IF req[r].phase = "pending" THEN "early" ELSE "closed",
              req[r].status)
    /\ UNCHANGED gnow

LifeClock == gnow < LifeSpan /\ gnow' = gnow + 1 /\ UNCHANGED <<guard, lease, recent, req>>

Answers(r) == Allowed(r) \/ Denied(r) \/ Threw(r)
Ends(r) == Returns(r) \/ Responded(r) \/ Pumped(r) \/ Close(r)

LifeNext ==
    \/ \E r \in Holders :
          Arrive(r) \/ Answers(r) \/ Ends(r) \/ Cancelled(r) \/ Ended(r) \/ Finish(r)
    \/ LifeClock

\* An admission settles, a handler returns, a stream ends or errors, and a
\* connection does not stay open for ever.
LifeFairness == \A r \in Holders : WF_lifeVars(Answers(r)) /\ WF_lifeVars(Ends(r))

-----------------------------------------------------------------------------
(* Properties. *)

\* Every field of a request, and the guard under it, stays in range.
LifeTypeOK ==
    /\ GuardTypeOK
    /\ \A r \in Holders :
          /\ req[r].phase \in {"idle", "pending", "running", "ended", "body", "done"}
          /\ req[r].phase = "done" => req[r].answer # "none"
          /\ req[r].phase \in {"running", "ended", "body"} => lease[r].state # "none"

\* What the guard is told about a request is what became of its response:
\* one that was cut short is reported as dropped, one that was delivered
\* whole never is (unless it was a 5xx the adapter counts), and a request
\* that was denied or refused is not; whichever of finish, close, cancel,
\* end and error comes first, and although a second of them follows.
DropsAreCuts ==
    \A r \in Holders : req[r].phase # "idle" /\ lease[r].state = "released" =>
        IF lease[r].dropped
        THEN req[r].status = "thrown" \/ Is5xx(r, req[r].status) \/ req[r].conn = "closed"
        ELSE req[r].phase = "done" /\ req[r].status # "thrown" /\ ~Is5xx(r, req[r].status)

\* Every slot a request took comes back: whatever the admission answers,
\* however the handler ends and whichever way the response goes.  The one
\* exception is a Node response whose client hung up while the admission
\* was still awaited: the listeners are attached after that event, no other
\* follows, and its slot never comes back (contrary to lifecycle.ts:3-6).
\* The requests are finitely many, so in the end none is outstanding.
Outstanding == \E r \in Holders :
    req[r].phase # "idle" /\ lease[r].state = "held" /\ req[r].conn # "early"
EverySlotComesBack == Outstanding ~> ~Outstanding
=============================================================================
