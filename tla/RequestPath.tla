---------------------------- MODULE RequestPath ----------------------------
(***************************************************************************)
(* A request's way through the server: the metrics middleware around the     *)
(* rate limiter around the handler, which counts, logs and sets the gauge of  *)
(* the audit log.  It composes RateLimiter, AuditLog and HTTPMetrics, whose   *)
(* actions leave the variables of the others alone.                          *)
(*                                                                         *)
(* What a handler computes is the subject of the other modules; here it has   *)
(* outcomes, and each outcome has a status, a counter, and an entry in the    *)
(* audit log or none.  The limiter is the one by address; the one by token    *)
(* subject, inside requireAuth, is a second instance of the same code, and    *)
(* its refusals are among those of Authorize.                                 *)
(***************************************************************************)
EXTENDS RateLimiter, AuditLog

CONSTANTS
    Kinds,       \* the handlers requests are for
    Bounds       \* bounds: each behaviour has one of these for the clock, the
                 \* number of its requests, and what they are for

CONSTANTS Paths, Statuses    \* see HTTPMetrics

ASSUME PathAssumption ==
    /\ Kinds \subseteq {"issue", "verify", "revoke", "split", "reconstruct", "ready"}
    /\ Paths = Kinds
    /\ Statuses = {"ok", "bad", "denied", "limited", "failed", "unavailable"}
    /\ Events = Kinds \X {"ok", "failed"}
    /\ Bounds \subseteq [clock: 0..MaxClock, requests: Nat, kinds: SUBSET Kinds]

VARIABLES series, value, meter
INSTANCE HTTPMetrics

VARIABLES
    request,     \* per goroutine: the request it serves
    counters,    \* the crypto counters of s.metrics
    gauge,       \* qs_audit_log_entries
    arrived,     \* history: requests so far
    panicked,    \* history: those whose handler panicked
    bound        \* the bounds of this behaviour

meterVars == <<series, value, meter>>
pathVars == <<request, counters, gauge, arrived, panicked, bound>>
vars == <<limiterVars, auditVars, meterVars, pathVars>>

-----------------------------------------------------------------------------
\* What handlers do after the operation itself: the counter they add to, the
\* result they log, whether they set the gauge, the status they answer with.
Outcome(status, counter, logged, sets) ==
    [status |-> status, counter |-> counter, logged |-> logged, sets |-> sets]
Counted(kind) == Outcome("ok", kind, "ok", TRUE)
Rejected      == Outcome("bad", "none", "none", FALSE)

HandleIssueToken ==
    {Counted("issue"), Rejected, Outcome("denied", "none", "none", FALSE),
     Outcome("failed", "errors", "none", FALSE)}
HandleVerifyToken ==
    {Outcome("ok", "verify", "none", FALSE), Outcome("denied", "verify", "none", FALSE)}
HandleRevokeToken == {Counted("revoke")}
HandleVaultSplit  == {Counted("split"), Rejected}
HandleVaultReconstruct ==
    {Counted("reconstruct"), Rejected, Outcome("bad", "errors", "failed", FALSE)}

Outcomes ==
    [issue |-> HandleIssueToken, verify |-> HandleVerifyToken,
     revoke |-> HandleRevokeToken, split |-> HandleVaultSplit,
     reconstruct |-> HandleVaultReconstruct, ready |-> {}]

\* Routes without requireAuth.
Public   == {"issue", "verify", "ready"}
WithBody == Kinds \ {"ready"}
Panics   == {"reconstruct"}     \* see OutOfRange in Vault
Counters == Kinds \cup {"errors"}

NoRequest == [pc |-> "none"]
At(g, pc) == request[g].pc = pc
GoTo(g, pc) == request' = [request EXCEPT ![g].pc = pc]

-----------------------------------------------------------------------------
Init ==
    /\ LimiterInit
    /\ AuditInit
    /\ MetricsInit
    /\ request = [g \in Goroutines |-> NoRequest]
    /\ counters = [c \in Counters |-> 0]
    /\ gauge = 0
    /\ arrived = 0
    /\ panicked = 0
    /\ bound \in Bounds

\* The middleware up to the limiter, which looks the bucket up.
Arrive(g, k, kind) ==
    /\ request[g] = NoRequest
    /\ arrived < bound.requests
    /\ kind \in bound.kinds
    /\ Lookup(g, k)
    /\ request' = [request EXCEPT ![g] = [pc |-> "limit", kind |-> kind]]
    /\ arrived' = arrived + 1
    /\ UNCHANGED <<auditVars, meterVars, counters, gauge, panicked, bound>>

InLimiter(g) ==
    /\ ReadClock(g)
    /\ UNCHANGED <<auditVars, meterVars, pathVars>>

Answer(g, status) ==
    request' = [request EXCEPT ![g] =
        [pc |-> "requests", kind |-> @.kind, status |-> status]]

\* Limit: the verdict of the bucket, and a 429 or the next handler; in between,
\* RequireJSON may refuse what has a body.
PassLimiter(g) ==
    /\ Decide(g)
    /\ IF Admits(g)
       THEN \/ GoTo(g, IF request[g].kind \in Public THEN "handle" ELSE "auth")
            \/ request[g].kind \in WithBody /\ Answer(g, "bad")
       ELSE Answer(g, "limited")
    /\ UNCHANGED <<auditVars, meterVars, counters, gauge, arrived, panicked, bound>>

\* requireRole: the token (see RevocationList), the subject's limit, the role.
Authorize(g) ==
    /\ At(g, "auth")
    /\ GoTo(g, "handle") \/ Answer(g, "denied")
    /\ UNCHANGED <<limiterVars, auditVars, meterVars, counters, gauge, arrived, panicked, bound>>

\* The handler's operation and its counter.
Handle(g) ==
    /\ At(g, "handle")
    /\ \E o \in Outcomes[request[g].kind] :
          /\ counters' = IF o.counter = "none" THEN counters
                         ELSE [counters EXCEPT ![o.counter] = @ + 1]
          /\ IF o.logged = "none"
             THEN Answer(g, o.status)
             ELSE request' = [request EXCEPT ![g] =
                      [pc |-> "log", kind |-> @.kind, outcome |-> o]]
    /\ UNCHANGED <<limiterVars, auditVars, meterVars, gauge, arrived, panicked, bound>>

\* A handler that panics: net/http recovers, past the metrics middleware.
HandlerPanics(g) ==
    /\ At(g, "handle")
    /\ request[g].kind \in Panics
    /\ request' = [request EXCEPT ![g] = NoRequest]
    /\ panicked' = panicked + 1
    /\ UNCHANGED <<limiterVars, auditVars, meterVars, counters, gauge, arrived, bound>>

LogOutcome(g) ==
    /\ At(g, "log")
    /\ Log(<<request[g].kind, request[g].outcome.logged>>)
    /\ IF request[g].outcome.sets THEN GoTo(g, "count") ELSE Answer(g, request[g].outcome.status)
    /\ UNCHANGED <<limiterVars, meterVars, counters, gauge, arrived, panicked, bound>>

\* s.audit.Count(), and only then Gauge.Set: in between others log and set.
CountEntries(g) ==
    /\ At(g, "count")
    /\ request' = [request EXCEPT ![g] =
            [pc |-> "set", kind |-> @.kind, outcome |-> @.outcome, n |-> Len(entries)]]
    /\ UNCHANGED <<limiterVars, auditVars, meterVars, counters, gauge, arrived, panicked, bound>>

SetGauge(g) ==
    /\ At(g, "set")
    /\ gauge' = request[g].n
    /\ Answer(g, request[g].outcome.status)
    /\ UNCHANGED <<limiterVars, auditVars, meterVars, counters, arrived, panicked, bound>>

\* /health/ready: VerifyChain copies the list of entries under the lock and
\* reads the entries themselves afterwards.
ReadyCopies(g) ==
    /\ At(g, "handle")
    /\ request[g].kind = "ready"
    /\ request' = [request EXCEPT ![g] = [pc |-> "verify", kind |-> @.kind, n |-> Len(entries)]]
    /\ UNCHANGED <<limiterVars, auditVars, meterVars, counters, gauge, arrived, panicked, bound>>

ReadyVerifies(g) ==
    /\ At(g, "verify")
    /\ Answer(g, IF VerifyChain(SubSeq(entries, 1, request[g].n)) = Intact
                 THEN "ok" ELSE "unavailable")
    /\ UNCHANGED <<limiterVars, auditVars, meterVars, counters, gauge, arrived, panicked, bound>>

\* HTTPMiddleware after next.ServeHTTP: reqTotal.With(..).Inc() ...
CountRequest(g) ==
    /\ At(g, "requests")
    /\ With(g, "requests", <<request[g].kind, request[g].status>>)
    /\ GoTo(g, "counting")
    /\ UNCHANGED <<limiterVars, auditVars, counters, gauge, arrived, panicked, bound>>

\* ... and reqDur.With(..).Observe(dur).
TimeRequest(g) ==
    /\ At(g, "counting")
    /\ With(g, "durations", <<request[g].kind>>)
    /\ GoTo(g, "timing")
    /\ UNCHANGED <<limiterVars, auditVars, counters, gauge, arrived, panicked, bound>>

InMetrics(g) ==
    /\ Create(g) \/ Inc(g) \/ Observe(g)
    /\ UNCHANGED <<limiterVars, auditVars, pathVars>>

Done(g) ==
    /\ At(g, "timing")
    /\ meter[g] = NotMetering
    /\ request' = [request EXCEPT ![g] = NoRequest]
    /\ UNCHANGED <<limiterVars, auditVars, meterVars, counters, gauge, arrived, panicked, bound>>

Background ==
    /\ CleanTick \/ Clean \/ (clock < bound.clock /\ Tick)
    /\ UNCHANGED <<auditVars, meterVars, pathVars>>

Step(g) ==
    \/ \E k \in Clients, kind \in Kinds : Arrive(g, k, kind)
    \/ InLimiter(g)
    \/ PassLimiter(g)
    \/ Authorize(g)
    \/ Handle(g)
    \/ HandlerPanics(g)
    \/ LogOutcome(g)
    \/ CountEntries(g)
    \/ SetGauge(g)
    \/ ReadyCopies(g)
    \/ ReadyVerifies(g)
    \/ CountRequest(g)
    \/ TimeRequest(g)
    \/ InMetrics(g)
    \/ Done(g)

Next == (\E g \in Goroutines : Step(g)) \/ Background

Spec == Init /\ [][Next]_vars

-----------------------------------------------------------------------------
AllOutcomes == UNION {Outcomes[kind] : kind \in Kinds}
Serving ==
    {NoRequest}
    \cup [pc: {"limit", "auth", "handle"}, kind: Kinds]
    \cup [pc: {"log", "count"}, kind: Kinds, outcome: AllOutcomes]
    \cup [pc: {"set"}, kind: Kinds, outcome: AllOutcomes, n: Nat]
    \cup [pc: {"verify"}, kind: Kinds \cap {"ready"}, n: Nat]
    \cup [pc: {"requests", "counting", "timing"}, kind: Kinds, status: Statuses]

\* The gauge may lag behind the log, even when nothing is going on (Count and Set
\* are two calls, and the failed outcomes do not set it); it is never ahead.
TypeOK ==
    /\ LimiterTypeOK
    /\ AuditTypeOK
    /\ MetricsTypeOK
    /\ request \in [Goroutines -> Serving]
    /\ counters \in [Counters -> Nat]
    /\ gauge \in 0..Len(entries)
    /\ arrived \in 0..bound.requests
    /\ panicked \in 0..arrived

AtRest == \A g \in Goroutines : request[g] = NoRequest
CountOfAll(keys) == Total([key \in keys |-> Count("requests", key)])
Logged(event) == Cardinality({i \in DOMAIN entries : entries[i].Event = event})

\* When no request is under way, the books agree, however requests have
\* overlapped: every request that did not panic has been counted once and timed
\* once; those the limiter let through are those with another status than
\* "limited"; and what handlers counted, what they answered and what they logged
\* are the same.
BooksAgree ==
    AtRest =>
        /\ CountOfAll(Paths \X Statuses) = arrived - panicked
        /\ \A p \in Paths : Count("durations", <<p>>) = CountOfAll({p} \X Statuses)
        /\ CountOfAll(Paths \X (Statuses \ {"limited"})) =
              Total([k \in Clients |-> AdmittedSince(k, 0)]) - panicked
        /\ \A kind \in Kinds \ {"verify", "ready"} :
              /\ Logged(<<kind, "ok">>) = counters[kind]
              /\ counters[kind] = Count("requests", <<kind, "ok">>)
=============================================================================
